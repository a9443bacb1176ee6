-------------------------- MODULE CommandExecution --------------------------
(***************************************************************************)
(* One account executed from its own database file: playerInstance          *)
(* (app/player_executor.go) over accountstate.Repository (storage/account).  *)
(* A command opens one transaction, looks its durable receipt up, lets the   *)
(* handlers change the file and the assembled account in memory, and         *)
(* commits effect and receipt together.  The process may crash at any step,  *)
(* a commit may fail with an unknown outcome, and another server process may *)
(* open the file and claim it (a larger writer epoch): when this process has *)
(* released its file lock, or at any time where the lock is not honoured.    *)
(*                                                                          *)
(* The account's state is the sequence of effects applied to it: `log' is    *)
(* the committed one, `memory' the one the assembled account reflects.       *)
(* `tentative' says that the command in progress changed transient parts of  *)
(* the assembled account (battles, gacha, hunts) that have no copy on disk.  *)
(***************************************************************************)
EXTENDS Naturals, Sequences

CONSTANTS
  Identities,   \* identities (session, request) of client commands
  Exempt,       \* those of logins and system commands, which keep no receipt
  Digests,      \* request bodies, told apart by their digest
  Rival,        \* stands for every command of the other process
  NoCommand,    \* no command is being executed
  LockHonoured, \* whether the file system honours the advisory file lock
  MaxLog,       \* bound: effects committed in a behaviour
  MaxEpoch      \* bound: openings of the file in a behaviour

ASSUME ExecutionAssumption ==
  /\ Exempt \subseteq Identities
  /\ Rival \notin Identities
  /\ LockHonoured \in BOOLEAN
  /\ MaxLog \in Nat
  /\ MaxEpoch \in Nat \ {0}

Command == [id : Identities, digest : Digests]

ASSUME NoCommandAssumption == NoCommand \notin Command

\* An effect and the writer epoch of the process that committed it.
Entry == [id : Identities \cup {Rival}, epoch : Nat]

\* The stored responses are told apart by the effect they report.
Receipt == [digest : Digests, position : Nat]

Results == {"ok", "conflict", "error", "failed"}

\* A success that reported an effect.
Success == [id : Identities, digest : Digests, position : Nat]

VARIABLES
  log, receipts, epoch,   \* the file: effects, command receipts, writer epoch
  holders,                \* who holds the file lock: "own", "rival"
  rivalEpoch,             \* the epoch of the other process, 0 when it is closed
  phase,                  \* where this process is
  memory,                 \* effects the assembled account reflects
  tentative,              \* transientVersion differs from its value at Begin
  ownEpoch,               \* Repository.writerEpoch
  repositoryFailed,       \* Repository.failed: "no", "uncertain" or "fenced"
  base, wrote, rejected,  \* the transaction: version of its snapshot, did it
                          \* write (Dirty), did a statement fail (statementErr)
  command, result,        \* the command executed and the outcome to report
  position,               \* the effect its responses report, 0 for none
  successes                 \* history: every success reported that had an effect

fileVars == <<log, receipts, epoch>>
txVars == <<base, wrote, rejected>>
commandVars == <<command, result, position>>
vars == <<log, receipts, epoch, holders, rivalEpoch, phase, memory, tentative, ownEpoch,
          repositoryFailed, base, wrote, rejected, command, result, position,
          successes>>

Phases == {"idle", "dispatching", "committing", "rollingBack", "replying",
           "recovering", "reopening", "down", "closed"}

TypeOK ==
  /\ log \in Seq(Entry)
  /\ DOMAIN receipts \subseteq Identities
  /\ \A id \in DOMAIN receipts : receipts[id] \in Receipt
  /\ epoch \in Nat /\ rivalEpoch \in Nat /\ ownEpoch \in Nat
  /\ holders \subseteq {"own", "rival"}
  /\ phase \in Phases
  /\ memory \in Seq(Entry)
  /\ tentative \in BOOLEAN
  /\ repositoryFailed \in {"no", "uncertain", "fenced"}
  /\ base \in Nat \X Nat /\ wrote \in BOOLEAN /\ rejected \in BOOLEAN
  /\ command \in Command \cup {NoCommand}
  /\ result \in Results \cup {"none"}
  /\ position \in Nat
  /\ successes \subseteq Success

Init ==
  /\ log = <<>> /\ receipts = [id \in {} |-> 0] /\ epoch = 1
  /\ holders = {"own"} /\ rivalEpoch = 0
  /\ phase = "idle" /\ memory = <<>> /\ tentative = FALSE
  /\ ownEpoch = 1 /\ repositoryFailed = "no"
  /\ base = <<0, 0>> /\ wrote = FALSE /\ rejected = FALSE
  /\ command = NoCommand /\ result = "none" /\ position = 0
  /\ successes = {}

-----------------------------------------------------------------------------
(* Beginning a command *)

Fenced == ownEpoch # epoch

\* What every commit to the file changes: SQLite's snapshot of it.
FileVersion == <<Len(log), epoch>>

\* BeginCommand fails: the repository failed before, another writer claimed the
\* file, or the storage reports an error (serious ones are remembered).
BeginFails(c) ==
  /\ phase = "idle"
  /\ repositoryFailed' =
       IF repositoryFailed # "no" THEN repositoryFailed
       ELSE IF Fenced THEN "fenced" ELSE "uncertain"
  /\ command' = c
  /\ result' = "failed"
  /\ phase' = "recovering"
  /\ UNCHANGED <<fileVars, holders, rivalEpoch, memory, tentative, ownEpoch, txVars, position, successes>>

\* Mutant: BeginCommand does not read the writer epoch of the file.
CanBeginUnfenced == phase = "idle" /\ repositoryFailed = "no"

CanBegin == phase = "idle" /\ repositoryFailed = "no" /\ ~Fenced

HasReceipt(c) == c.id \notin Exempt /\ c.id \in DOMAIN receipts

\* Mutant: the stored responses are returned for any body.
MatchesAlways(c) == TRUE

SameBody(c) == receipts[c.id].digest = c.digest

\* The durable receipt answers: stored responses, or a conflict of bodies.
BeginAnswered(c) ==
  /\ CanBegin
  /\ HasReceipt(c)
  /\ command' = c
  /\ IF SameBody(c)
     THEN result' = "ok" /\ position' = receipts[c.id].position
     ELSE result' = "conflict" /\ position' = 0
  /\ phase' = "rollingBack"
  /\ UNCHANGED <<fileVars, holders, rivalEpoch, memory, tentative, ownEpoch, repositoryFailed,
                 txVars, successes>>

BeginDispatch(c) ==
  /\ CanBegin
  /\ ~HasReceipt(c)
  /\ command' = c
  /\ base' = FileVersion
  /\ phase' = "dispatching"
  /\ UNCHANGED <<fileVars, holders, rivalEpoch, memory, tentative, ownEpoch, repositoryFailed,
                 wrote, rejected, result, position, successes>>

-----------------------------------------------------------------------------
(* The handlers *)

\* SQLite lets a transaction that has read write only when nobody committed
\* since its snapshot; a failed statement poisons the transaction.
SnapshotIsCurrent == base = FileVersion

\* Mutant: what was done is keyed by the whole request and not its identity.
EffectOfBody == [id |-> command, epoch |-> ownEpoch]

Effect == [id |-> command.id, epoch |-> ownEpoch]

\* A handler changed the account in memory, and wrote it to the file.
DispatchWrites ==
  /\ phase = "dispatching"
  /\ ~wrote /\ ~rejected
  /\ memory' = Append(memory, Effect)
  /\ wrote' = TRUE
  /\ rejected' = ~SnapshotIsCurrent
  /\ UNCHANGED <<fileVars, holders, rivalEpoch, phase, tentative, ownEpoch, repositoryFailed, base,
                 commandVars, successes>>

\* A statement fails; the error marks the transaction dirty.
StatementFails(serious) ==
  /\ phase = "dispatching"
  /\ ~rejected
  /\ wrote' = TRUE
  /\ rejected' = TRUE
  /\ repositoryFailed' = IF serious THEN "uncertain" ELSE repositoryFailed
  /\ UNCHANGED <<fileVars, holders, rivalEpoch, phase, memory, tentative, ownEpoch, base,
                 commandVars, successes>>

\* Every handler and observer returned, even one that swallowed an error.
DispatchReturns ==
  /\ phase = "dispatching"
  /\ phase' = "committing"
  /\ UNCHANGED <<fileVars, holders, rivalEpoch, memory, tentative, ownEpoch, repositoryFailed,
                 txVars, commandVars, successes>>

\* Mutant: only what was written decides whether to reassemble.
ChangedFile == wrote

Changed == wrote \/ tentative

\* failCommand: a handler returned an error.  If anything changed, the
\* assembled account is dropped and recovered, and the session renewed.
DispatchErrs ==
  /\ phase = "dispatching"
  /\ result' = IF Changed THEN "failed" ELSE "error"
  /\ phase' = "rollingBack"
  /\ UNCHANGED <<fileVars, holders, rivalEpoch, memory, tentative, ownEpoch, repositoryFailed,
                 txVars, command, position, successes>>

\* A transient change of the assembled account, which transientVersion counts.
DispatchChangesMemory ==
  /\ phase = "dispatching"
  /\ tentative' = TRUE
  /\ UNCHANGED <<fileVars, holders, rivalEpoch, phase, memory, ownEpoch, repositoryFailed,
                 txVars, commandVars, successes>>

\* A panic, or an error returned without failCommand: the deferred rollback
\* drops the assembled account, whatever changed.
DispatchPanics ==
  /\ phase = "dispatching"
  /\ result' = "failed"
  /\ phase' = "rollingBack"
  /\ UNCHANGED <<fileVars, holders, rivalEpoch, memory, tentative, ownEpoch, repositoryFailed,
                 txVars, command, position, successes>>

\* Rollback ends the transaction; a failed rollback makes the reply a failure.
RollBack(succeeds) ==
  /\ phase = "rollingBack"
  /\ repositoryFailed' =
       IF succeeds \/ repositoryFailed # "no" THEN repositoryFailed ELSE "uncertain"
  /\ result' = IF succeeds THEN result ELSE "failed"
  /\ phase' = IF result' = "failed" THEN "recovering" ELSE "replying"
  /\ wrote' = FALSE
  /\ rejected' = FALSE
  /\ position' = IF result' = "failed" THEN 0 ELSE position
  /\ UNCHANGED <<fileVars, holders, rivalEpoch, memory, tentative, ownEpoch, base, command,
                 successes>>

-----------------------------------------------------------------------------
(* Commit *)

\* Mutant: the receipt of the command is not part of its transaction.
WithNoReceipt == receipts

\* The receipt is written in the transaction that carries the effect.
WithReceipt ==
  IF command.id \in Exempt THEN receipts
  ELSE [id \in DOMAIN receipts \cup {command.id} |->
          IF id = command.id
          THEN [digest |-> command.digest, position |-> Len(log) + 1]
          ELSE receipts[id]]

Persist ==
  IF wrote
  THEN /\ Len(log) < MaxLog
       /\ log' = Append(log, Effect)
       /\ receipts' = WithReceipt
  ELSE UNCHANGED <<log, receipts>>

\* Mutant: a transaction with a failed statement commits what it has.
MayCommitAnyway == phase = "committing"

MayCommit == phase = "committing" /\ ~rejected

CommitSucceeds ==
  /\ MayCommit
  /\ Persist
  /\ tentative' = FALSE
  /\ result' = "ok"
  /\ position' = IF wrote THEN Len(log) + 1 ELSE 0
  /\ phase' = "replying"
  /\ wrote' = FALSE
  /\ rejected' = FALSE
  /\ UNCHANGED <<epoch, holders, rivalEpoch, memory, ownEpoch, repositoryFailed,
                 base, command, successes>>

\* A poisoned transaction is rolled back instead.
CommitRefused ==
  /\ phase = "committing"
  /\ rejected
  /\ result' = "failed"
  /\ phase' = "recovering"
  /\ wrote' = FALSE
  /\ rejected' = FALSE
  /\ UNCHANGED <<fileVars, holders, rivalEpoch, memory, tentative, ownEpoch, repositoryFailed, base,
                 command, position, successes>>

\* COMMIT itself failed: the effect may or may not be in the file.
CommitUncertain(durable) ==
  /\ MayCommit
  /\ IF durable THEN Persist ELSE UNCHANGED <<log, receipts>>
  /\ repositoryFailed' = "uncertain"
  /\ result' = "failed"
  /\ phase' = "recovering"
  /\ wrote' = FALSE
  /\ rejected' = FALSE
  /\ UNCHANGED <<epoch, holders, rivalEpoch, memory, tentative, ownEpoch, base, command,
                 position, successes>>

GiveReply ==
  /\ successes' = IF result = "ok" /\ position # 0
                THEN successes \cup {[id |-> command.id, digest |-> command.digest,
                                    position |-> position]}
                ELSE successes
  /\ command' = NoCommand
  /\ result' = "none"
  /\ position' = 0

\* The owner closes the future.
ReplyGiven ==
  /\ phase = "replying"
  /\ GiveReply
  /\ phase' = "idle"
  /\ UNCHANGED <<fileVars, holders, rivalEpoch, memory, tentative, ownEpoch, repositoryFailed, txVars>>

-----------------------------------------------------------------------------
(* Recovery, crash, restart and the other process *)

\* Recover refuses to reopen a file that another writer claimed.
RecoverFenced ==
  /\ phase = "recovering"
  /\ repositoryFailed = "fenced"
  /\ phase' = "down"
  /\ GiveReply
  /\ UNCHANGED <<fileVars, holders, rivalEpoch, memory, tentative, ownEpoch, repositoryFailed,
                 txVars>>

\* The uncertain repository is closed, which releases the file lock.
RecoverCloses ==
  /\ phase = "recovering"
  /\ repositoryFailed = "uncertain"
  /\ holders' = holders \ {"own"}
  /\ phase' = "reopening"
  /\ UNCHANGED <<fileVars, rivalEpoch, memory, tentative, ownEpoch,
                 repositoryFailed, txVars, commandVars, successes>>

LockIsFree == LockHonoured => holders = {}

\* Repository.Open: the file lock is taken and a new epoch claimed.
OpenFile ==
  /\ LockIsFree
  /\ epoch < MaxEpoch
  /\ holders' = holders \cup {"own"}
  /\ epoch' = epoch + 1
  /\ ownEpoch' = epoch + 1

\* SQLite settles what was uncertain when the file is opened again.
RecoverReopens ==
  /\ phase = "reopening"
  /\ OpenFile
  /\ repositoryFailed' = "no"
  /\ phase' = "recovering"
  /\ UNCHANGED <<log, receipts, rivalEpoch, memory, tentative, txVars,
                 commandVars, successes>>

\* The account is assembled again from the file; the failed reply is given.
RecoverAssembles ==
  /\ phase = "recovering"
  /\ repositoryFailed = "no"
  /\ ~Fenced
  /\ memory' = log
  /\ tentative' = FALSE
  /\ phase' = IF command = NoCommand THEN "idle" ELSE "replying"
  /\ UNCHANGED <<fileVars, holders, rivalEpoch, ownEpoch, repositoryFailed, txVars,
                 commandVars, successes>>

\* Reopening or assembling fails: the runtime refuses commands from now on.
RecoverFails ==
  /\ phase \in {"recovering", "reopening"}
  /\ phase' = "down"
  /\ repositoryFailed' =
       IF repositoryFailed = "no" /\ Fenced THEN "fenced" ELSE repositoryFailed
  /\ GiveReply
  /\ UNCHANGED <<fileVars, holders, rivalEpoch, memory, tentative, ownEpoch, txVars>>

\* Runtime.Recover, called again for a runtime whose recovery failed.
RetryRecover ==
  /\ phase = "down"
  /\ phase' = "recovering"
  /\ UNCHANGED <<fileVars, holders, rivalEpoch, memory, tentative, ownEpoch,
                 repositoryFailed, txVars, commandVars, successes>>

Unload ==
  /\ phase' = "closed"
  /\ holders' = holders \ {"own"}
  /\ memory' = <<>>
  /\ tentative' = FALSE
  /\ repositoryFailed' = "no"
  /\ base' = <<0, 0>> /\ wrote' = FALSE /\ rejected' = FALSE
  /\ command' = NoCommand /\ result' = "none" /\ position' = 0
  /\ UNCHANGED <<epoch, rivalEpoch, ownEpoch, successes>>

\* The account is unloaded between commands.
Close ==
  /\ phase \in {"idle", "down"}
  /\ Unload
  /\ UNCHANGED <<log, receipts>>

\* The process dies.  A COMMIT in progress may have reached the file.
Crash(durable) ==
  /\ phase # "closed"
  /\ IF durable THEN MayCommit /\ Persist ELSE UNCHANGED <<log, receipts>>
  /\ Unload

\* PlayerFactory.open: the file is opened under a new epoch and assembled.
Reload ==
  /\ phase = "closed"
  /\ OpenFile
  /\ memory' = log
  /\ phase' = "idle"
  /\ UNCHANGED <<log, receipts, rivalEpoch, tentative, repositoryFailed, txVars,
                 commandVars, successes>>

-----------------------------------------------------------------------------
(* The other process *)

\* A transaction that has written holds SQLite's write lock.
WriteLockFree == ~wrote \/ rejected

RivalOpens ==
  /\ LockIsFree
  /\ WriteLockFree
  /\ epoch < MaxEpoch
  /\ holders' = holders \cup {"rival"}
  /\ epoch' = epoch + 1
  /\ rivalEpoch' = epoch + 1
  /\ UNCHANGED <<log, receipts, phase, memory, tentative, ownEpoch, repositoryFailed,
                 txVars, commandVars, successes>>

RivalCommits ==
  /\ WriteLockFree
  /\ rivalEpoch = epoch
  /\ Len(log) < MaxLog
  /\ log' = Append(log, [id |-> Rival, epoch |-> rivalEpoch])
  /\ UNCHANGED <<receipts, epoch, holders, rivalEpoch, phase, memory, tentative,
                 ownEpoch, repositoryFailed, txVars, commandVars, successes>>

RivalCloses ==
  /\ rivalEpoch # 0
  /\ holders' = holders \ {"rival"}
  /\ rivalEpoch' = 0
  /\ UNCHANGED <<fileVars, phase, memory, tentative, ownEpoch, repositoryFailed,
                 txVars, commandVars, successes>>

Next ==
  \/ \E c \in Command : BeginFails(c) \/ BeginAnswered(c) \/ BeginDispatch(c)
  \/ DispatchWrites
  \/ \E serious \in BOOLEAN : StatementFails(serious)
  \/ DispatchReturns
  \/ DispatchErrs
  \/ DispatchChangesMemory
  \/ DispatchPanics
  \/ \E succeeds \in BOOLEAN : RollBack(succeeds)
  \/ CommitSucceeds
  \/ CommitRefused
  \/ \E durable \in BOOLEAN : CommitUncertain(durable) \/ Crash(durable)
  \/ ReplyGiven
  \/ RecoverFenced
  \/ RecoverCloses
  \/ RecoverReopens
  \/ RecoverAssembles
  \/ RecoverFails
  \/ RetryRecover
  \/ Close
  \/ Reload
  \/ RivalOpens
  \/ RivalCommits
  \/ RivalCloses

Spec == Init /\ [][Next]_vars

-----------------------------------------------------------------------------
(* Properties *)

Positions == 1..Len(log)

\* A request takes effect at most once, over retries, failed and uncertain
\* commits, crashes and restarts; its receipt is there exactly when it did, and
\* every success a client was told is in the file for good.
AppliedAtMostOnce ==
  /\ \A i, j \in Positions :
       log[i].id = log[j].id => i = j \/ log[i].id \in Exempt \cup {Rival}
  /\ DOMAIN receipts = {log[i].id : i \in Positions} \ (Exempt \cup {Rival})
  /\ \A id \in DOMAIN receipts :
       receipts[id].position \in Positions /\ log[receipts[id].position].id = id
  /\ \A r \in successes :
       /\ r.position \in Positions
       /\ log[r.position].id = r.id
       /\ r.id \notin Exempt =>
            receipts[r.id] = [digest |-> r.digest, position |-> r.position]

\* Whenever the next command may start, the assembled account is the committed
\* one: no failed or uncertain command left anything behind in memory.
MemoryIsCommitted ==
  phase = "idle" => ~tentative /\ (Fenced \/ memory = log)

\* A writer that another process replaced never commits again: the effects in
\* the file are in the order of the epochs that claimed it.
WritersFenced ==
  /\ \A i, j \in Positions : i < j => log[i].epoch <= log[j].epoch
  /\ \A i \in Positions : log[i].epoch <= epoch

\* Where the file lock is honoured nobody claims a file that is open here: no
\* command of this process ever runs into the fence.
LockPreventsFencing ==
  LockHonoured => /\ "own" \in holders => ~Fenced
                  /\ repositoryFailed # "fenced"

\* What a client that repeats its requests may rely on: the committed receipts
\* are what was applied, the successes told are what was acknowledged.  Commands
\* that keep no receipt are outside of the promise.
Promise == INSTANCE ExactlyOnce WITH
  Requests <- Identities \ Exempt,
  Bodies <- Digests,
  applied <- [id \in DOMAIN receipts |-> receipts[id].digest],
  acknowledged <- {<<r.id, r.digest>> : r \in {x \in successes : x.id \notin Exempt}}

\* The executor implements ExactlyOnce over crashes, uncertain commits and
\* retries of a request.
ImplementsExactlyOnce == Promise!Spec

=============================================================================
