# Verification of the BD2 server

TLA+ models, TLC configurations and TLAPS proofs for the concurrent core of the
BD2 private game server (`go/internal/server`). Paths below are relative to
`go/internal/server` unless they start with `go/`.

## 1. The system

A client logs in over HTTP, gets a game session, and then sends encrypted
requests which become *commands* of its account. Everything an account owns is
in one SQLite file of that account; what accounts share (guilds, friends, room
results, rankings, inbox receipts) is in one shared SQLite file. Two files
cannot be committed together, so the server is a small distributed system in one
process: an owner goroutine per account, an owner goroutine per real-time room,
durable receipts that make repeated requests harmless, an outbox per account
that is delivered to the shared store, and reservations in the shared store that
are confirmed or cancelled according to the account's own file.

### 1.1 Inventory

| Component | State | Operations | Talks to |
| --- | --- | --- | --- |
| Player runtime (`runtime/player/runtime.go`) | mailbox, receipts, retained successes, counters, session generation, failure flag | Submit, Recover, Close, the owner loop | the executor, callers through futures |
| Command executor (`app/player_executor.go`) | the assembled account (in memory), the open transaction | Execute, Recover, Close | account repository, social owner, outbox, room results |
| Account repository (`storage/account`) | SQLite file, writer lock, writer epoch, failed flag | Open, BeginCommand, Commit, Rollback, Check, Close | the file system |
| Player registry (`app/player_registry.go`) | slots with leases, load queue, closing flag | Acquire, release, Touch, load, expire, retire, Close | player runtimes, account repositories |
| Outbox (`storage/outbox/outbox.go`) | pending events, published receipts, sequence | Publish, Read, Acknowledge | the account transaction |
| Dispatcher (`runtime/delivery/dispatcher.go`) | queue of accounts, scheduled map | Wake, run, scan, discover, deliver | registry, runtimes, shared store |
| Shared store (`storage/shared/store.go`) | shared SQLite file, inbox receipts, capacity slots | Update, View, Consume | dispatcher, social owner, room results |
| Social owner (`domain/social/owner.go`, `app/player_social.go`) | operations, guilds with reserved seats, one pending operation per account | Prepare, Confirm, Cancel, reconcile, settle | shared store, account repositories |
| Game sessions (`gateway/session`) | sessions by key, at most one live per account, last use | login, execute, ValidatePrincipal, prune, evict | registry, runtimes, tickets |
| Real-time tickets (`app/realtime_tickets.go`) | outstanding tickets | issue, consume, revalidate | sessions, registry, rooms |
| Real-time gateway (`gateway/realtime`) | connections, slots | accept, replace, disconnect | tickets, room manager |
| Room manager (`runtime/room/manager.go`) | rooms, members, host epoch, timers | create, join, ready, run, result, acknowledge, disconnect, expire | real-time gateway, room results |
| Room results (`app/realtime_results.go`, `app/realtime_retention.go`) | pending results, persisted results, claims | publish, consume, persist, recover, retire, claim | room manager, shared store, executor |
| Lifecycle gate (`platform/lifecycle/gate.go`) | readiness, requests in flight | BeginRequest, Drain, Wait | HTTP transport, shutdown |
| Instance identities (`storage/instanceid/allocator.go`) | next identity, reserved block | Next | file system |
| Updates (`platform/updates`) | staged release, switch state file | check, stage, switch, roll back | file system, process restart |

### 1.2 What is hard

* Interleaving: callers of `Submit` and `Recover` against the owner goroutine;
  `Acquire` against the sweeper and shutdown; `Wake` against a delivery that is
  about to end; timers of a room against its members.
* Failure in the middle: a commit whose outcome is unknown, a crash between the
  commit in one file and the commit in the other, a transaction rolled back after
  the assembled account already changed in memory.
* Repetition: clients retry, the dispatcher delivers again, recovery confirms an
  operation that a delivery also confirms.
* Staleness: a session generation checked before a command is queued, a ticket
  issued before the session it belongs to ended, a room seen before it closed.
* Limits: mailbox slots and bytes, retained receipts, 256 pending outbox events,
  128 shared store slots, reserved guild seats.

### 1.3 What makes each component correct

| Component | Promise |
| --- | --- |
| Player runtime | What is accepted settles once, in order; the mailbox counters are exact; a repeated request joins, is answered, or runs again, and never gets the error of an attempt that is over; after a failure no command runs before the executor was recovered |
| Command executor, account repository | A request takes effect at most once over crashes and uncertain commits; a reported success is durable; memory is the committed state whenever a command starts; a replaced writer never commits |
| Player registry | One open runtime per account; what is open can be found; a lease keeps its runtime; Close leaves nothing open; Acquire and Close return |
| Outbox, dispatcher, inbox | A committed event takes effect exactly once, in order, and in the end; one worker per account; a wake is not lost in a race |
| Guild operations | Both files agree on every operation; every reservation is decided as its account decided; no lock, seat or name leaks; a guild has one master |
| Sessions, tickets | A session acts for the generation it was opened in; the newest login wins; a ticket is used once and only for what still exists |
| Room results | A result is granted once, survives the room, and a retired result does not come back |
| Room manager | One host per epoch, timers act on the state they were set for, a room that stops answers everybody |
| Lifecycle gate | No request is admitted once draining began; Wait returns when the last one ended |
| Updates | Whatever dies during a switch, a version that does not start is rolled back after a bounded number of attempts |

## 2. The plan

Ordered by what loses data when it is wrong.

| Step | Modules | Abstract specification | Composes | State |
| --- | --- | --- | --- | --- |
| 1 | `PlayerRuntime` | `AcceptedWork` | | done |
| 2 | `CommandExecution` | `ExactlyOnce` | the executor and the account's file | done, refinement proved |
| 3 | `PlayerRegistry`, `BrokenRuntime` | | the registry with broken runtimes and the dispatcher | done |
| 4 | `OutboxDelivery` | `EventLog` | outbox, mailbox, dispatcher and inbox | done |
| 5 | `GuildReservation` | | social owner, executor, delivery and settlement | done |
| 6 | `GameSessions` | | sessions, tickets, relay connections, leases and generations | done |
| 7 | `RoomResults` | | queue, worker and shared store | done |
| 8 | `RoomManager`, `RoomPlay` | | rooms, their results, the commands that start and settle runs, the delivery of their events | done |
| 9 | `UpdateSwitch` | | maintenance, the switch and the processes after it | done |
| 10 | lifecycle gate and the order of shutdown in `serve` | | | left |
| 11 | closing of a PvP season (`app/shared_pvp.go`) | | outbox | left |
| 12 | the sequential task graph (`go/internal/common`) as a pure algorithm | | | left |

Also left: guild operations as an atomic commit over two files (prepare, decide by the
account's file, confirm or cancel everywhere) as an abstract specification.

## 3. The models

Go's mutexes make critical sections; an action is one critical section, one send
or receive, or one call that may fail. A crash keeps what is in a file and loses
the rest. Definitions under a comment `Mutant:` are wrong on purpose: they are
variants of the definition after them, which show that a property can fail.

### 3.1 `PlayerRuntime` (runtime/player/runtime.go)

State: `queue` is the channel, `pending` and `bytes` the counters, `receipts`
the map from (session, request) to a digest and a future, `completed` the ring of
retained successes, `generation` and `failed` the owner's flags, `futures` every
future made. `admitting` holds the command of a Submit that has passed its checks
and still holds `mu`, because the second read of the generation (line 238) is a
step of its own: the owner stores a generation without `mu` (line 311).
`SubmitJoins`, `SubmitAdmits` and `SubmitEnqueues` are Submit, `Recover` and
`Close` the methods, `TakeRecovery`, `TakeCommand`, `ExecuteReturns`,
`ExecuteRecovered`, `ExecuteBroke`, `RecoverReturns`, `Settle` and `Finish` the
owner's loop. The generation counter is shared by all runtimes, so a new
generation is any larger one.

`AcceptedWork` knows only the outcomes in the order of acceptance, and that
accepting may end. The mapping (`Outcomes`) takes the results of `futures`. The safety
part of it (`Safety`) is proved of the runtime; the run adds the liveness: everything
accepted settles, and Close finishes.

### 3.2 `CommandExecution` (app/player_executor.go, storage/account)

The account's state is the sequence of effects applied to it: `log` in the file,
`memory` in the assembled account. `base`, `wrote` and `rejected` are the
transaction (the version of its snapshot, Dirty, statementErr), `epoch` the writer
epoch in the file and `ownEpoch` what this process claimed. A handler may write,
change transient memory only, fail in a statement, return an error or panic; the
commit may succeed, be refused, or report an error with either outcome. Recovery is
three steps, because closing the file releases its lock before it is opened
again. `Rival` is a second server process; it claims the file when the lock is
free, or at any time if `LockHonoured` is false (a network share).

`ExactlyOnce`: requests take effect at most once, for one body, and only what took
effect is acknowledged.

### 3.3 `PlayerRegistry` and `BrokenRuntime` (app/player_registry.go)

`players` is the map, `slots` the playerSlot objects (`load` and `closed` stand
for the channels ready and closed with the runtime or error behind them), `loads`
the channel, `calls` where each caller is in Acquire. Slot objects are reused when
nothing refers to them, which is what the garbage collector allows. `retire` is
one step: `retireOnce` makes its callers wait for each other, and while the
runtime drains only other slots move. Time is `idle`, ticks since lastUsed,
capped at the limit. `BrokenRuntime` adds the runtimes whose recovery failed, the
accounts whose outbox holds events, and the dispatcher as a caller that leases
each of those accounts at every scan.

### 3.4 `OutboxDelivery` (storage/outbox, runtime/delivery, storage/shared)

`published` and `pending` are the account's file, `inbox` the shared file, and
`applied` the history of the effects. `queue` and `scheduled` are the dispatcher's,
`mailbox` holds its requests in the account's runtime, `worker` says what each
goroutine does. A worker may give up on a request that is executed later; Consume
and Acknowledge may commit and still report an error; a scan stops at the first
account it cannot read. `deferred` is history: the accounts that only a failure, a
full queue or a restart left to the scan.

`EventLog`: the effects of an account's events are a prefix of what it committed.

### 3.5 `GuildReservation` (domain/social, app/player_social.go)

The shared file is `status` and `operation` (the reservation records), the guilds
(`members`, `reserved`, `lockOf`, `deleting`, `nameOf`, `nameBucket`,
`applications`) and the accounts' records (`guildOf`, `epochOf`, `pendingOf`); the
account files are `proofs` (receipts) and `outbox` (social.confirm not delivered
yet). `turn` is what an account's owner executes: it has read the shared state and
planned (`requesting`), prepared (`reserved`), opened its transaction (`applied`),
and is in the deferred Confirm (`replying`). `Eligible`, `Reserve`, `ConfirmEffect`
and `Cancel` are Owner.Prepare, Confirm and Cancel with their conditions for
founding, joining, applying, accepting, refusing, leaving, banning, roles, renaming
and taking a deletion back. `Reconcile` runs in the actor's own mailbox, so only
when its owner is between commands (`OwnerFree`). Clocks are abstracted: whatever
a delay guards may have run out at any step.

### 3.6 `GameSessions` (gateway/session, app/realtime_tickets.go, gateway/realtime)

`sessions` is the set of the live sessions, each known by its login, `login` what
happened to each login, `request` an HTTP command with the generation that executed
it, `ticket` the outstanding tickets, `relay` the TCP connections with the lease they
hold, `connected` the counters per account. A login executes under one lock and enters
the map under another (`LoginRuns`, `LoginEnters`), so that two logins of an account may
enter in the other order (`server.go:249`): the session that is live then is the one
that entered last. A command meets the generation three times: `Submit` compares it and
queues the command, `Runs` executes it in whatever generation the runtime has then (that is
finding 1 of section 6: a renewal may come between), and `Answer` compares it again
(`server.go:193`). A reply that was committed may be reported as expired, and a success of a
later generation always is, which is what `AnsweredInSession` asks. `Consume`
removes a ticket before it validates anything else, `Admit` and `Register` follow,
`Revalidate` is the ticker. A frame of a TCP connection revalidates as well: with a valid
principal it changes nothing here, and one that is refused ends the connection's loop (`Return`).
When a session was last used is left out, so a full map may evict any session; the code
evicts the one that was used least recently.
UDP frames are not validated again (`realtime/server.go:520`) and are not modelled as a
right of their own: they act through the registered connection. ValidatePrincipal is one
step at its last look. Generations are counted per account; the code draws them from one
counter, and only their equality is used here.

### 3.7 `RoomResults`, `RoomManager` and `RoomPlay` (app/realtime_*.go, runtime/room)

`RoomResults` is what becomes of a finished room: `pending` and `queue` of roomResults,
`worker` the goroutine that saves, ranks, marks ready and acknowledges, `store` the
buckets in the shared file. `RoomManager` extends it with the rooms (`rooms`, `seat`,
`membership`, `offer`), each an owner goroutine: a frame or a tick is one step of it.
Matching, request 93 (which moves a member to a room of the same offer in three steps),
loading, the game, its end, lost connections, expiry and Close are actions; frames that
only relay between players are left out. `RoomPlay` adds the accounts: `events` is what
an account has committed and the dispatcher not delivered yet, and `Look`, `LookAtRoom`,
`Start`, `End`, `Sets` and `Lands` are the commands that prepare, start and settle runs
of the relay games. PrepareResults reads the store, and then asks the room, with a read
transaction open over both, which keeps the worker out.

Abstractions: the host of a running action room is any connected member with an
accepted run; connection ids are reduced to whether a member is connected; the result is
handed over in the step that ends a room, because nothing else of the room is seen in
between; records of removed rooms are reset; a voyage that starts outside of any room has
the effect of `Lands`; an unfinished result is a refused command; a second voyage of an
account in the same fishing room would reuse the id of an accepted event, which the
outbox refuses, and is dropped. Square rooms, and the frames 43, 66, 97, 117 and 172, are
not modelled.

What the models show and no statement of the code contradicts (the properties name these
cases instead of hiding them):

* a run may be given up as abandoned although its room has or gets a result, in four
  cases (`excused`): the queue refused the result and the member was matched again, the
  member left the room that was over between the two looks of Result, it lost its place
  when another room deleted the membership that had moved on (`protocol.go:690`), or it
  moved by request 93 out of a room that had started meanwhile, or sat in one that
  request 93 had closed and that was removed while Result looked;
* the third step of request 93 closes the old room (`protocol.go:492`), whether or not it
  has started in the meantime. A closed room executes nothing more, and its next tick
  removes it (`manager.go:219`) after one last attempt to hand over its result: when the
  queue is full at that tick, the result is gone and nobody is told (`Dropped`);
* a member who lost the matching connection stays marked as disconnected
  (`manager.go:485`) and is removed when the limit passes, whatever it does meanwhile;
* results of rooms whose members never claim are never retired, and claims of fishing
  rooms that were abandoned keep their rows;
* a full mailbox drops a Disconnect, so that a room may keep a connection that is gone;
* a result whose persisting fails for ever blocks the later ones: there is one worker.

### 3.8 `UpdateSwitch` (platform/updates, go/cmd/bd2server)

`installed` and `rollback` say for each name of the package which program it belongs
to, `pending` and `schedulePending` are the records of what is on trial, `saves` the layout
that the saves were migrated to. `at` is where the process is: `Boot` and the startup
actions read the records, `CountStart` saves the attempt before the stores are opened,
`Settle` and `Confirm` end the trial when the process stayed ready, `GiveUp` begins the
restore. A switch takes the files one by one (`MoveAside`, `Place`, `Record`), a restore as
well (`RemoveInstalled`, `BringBack`, `Unmark`, `Announce`). The process may die between any
two of these steps, each rename and write may fail, the service may be stopped, a
maintenance cancelled or overtaken by another one. The undo of a swap ignores the errors of
its renames (`switch.go:199`): `Undo` leaves any of the placed names in place and any of the
moved ones in the rollback directory.

What the status reports of the last switch is not what decides anything, and it has a life of
its own. `result` is `LastResult` on the disk, of the server and of the schedules; `known` is
the same in the memory of the running service, read once when the stores have opened. The
process that ends a switch writes its outcome to the file alone (`Report`); the service writes
the whole status again from its memory (`Persisted`) at its start and at every check
(`Persist`), and at every step of a maintenance (`Apply`, `Prepared`, `Due`, `Cancel`,
`PrepareFails`, which puts in `cancelled`). A write that fails is only logged, so that `Written`
may leave the file as it was; a lost write is not counted as a fault, and is possible while
faults are left. The properties of the program therefore do not speak of `result`, but of
`healthy`: whose new version was found healthy and not undone since, which is history. That
`result` and the program drift apart is number 4 of section 6.

`torn` is history as well: the windows that the code leaves open and in which a process died
or failed. "swap" is a death between the first rename and the record, after which nothing
tells the next process that a switch was under way, or an undo that failed in part and is
reported like a whole one; "restore" a death or a failure half-way through a restore, which
deletes before it renames and so is not repeatable (`switch.go:226`), or, where both programs
have one version number, a record that outlives the restore and has it repeated; "record" a
record whose removal failed, an error which the code ignores (`switch.go:262`, `331`, `335`),
after which the version counts further starts. A death between the report of success and the removal of the record needs no window:
the version is on trial again and is judged once more. A drain that fails under a version
that is not yet confirmed rolls back a version that was healthy.

## 4. The runs

`tlc -config <cfg> <module>`; every cfg is named after its MC module. Every passing run
also checks the module's `TypeOK`.

| Run | Bounds | What it asks | States |
| --- | --- | --- | --- |
| `runtime` | 2 identities, 2 bodies of sizes 1 and 2, mailbox of 2 commands and 3 bytes, 1 retained success, 3 accepted items, generations 1 to 3 | `MailboxAccounting`, `ReceiptsCoherent`, `AnswerIsOwnRequest`, `FailureEndsGeneration`, and the refinement of `AcceptedWork` with its liveness | 282,310 |
| `runtime_stale_generation` | the same | finding 1 | 2,462 |
| `execution` | 1 request with a receipt, 1 login, 2 bodies, 3 effects, 3 openings of the file, a lock that does not work | `AppliedAtMostOnce`, `MemoryIsCommitted`, `WritersFenced`, and the refinement of `ExactlyOnce` | 541,133 |
| `registry` | 2 accounts, 2 callers, 2 slots, 1 worker, a queue of 1, 1 resident | `OneWriter`, `LeasedStaysOpen`, `ClosedIsClosed`, `CallsReturn`, `IdleIsUnloaded` | 39,973 |
| `broken_runtime` | 1 account, a client and the dispatcher, 2 slots | finding 2 | 1,080 |
| `outbox` | 2 accounts, 2 events, 2 workers, a queue of 1, pages of 2, 2 pending events, 2 commands, 1 fault | `OneDelivery`, `NothingLost`, `WakeNotLost`, `PublishedTakesEffect`, and the refinement of `EventLog` | 256,184 |
| `update` | a package of 3 entries, 3 start attempts, 2 maintenances, 2 faults | `ProgramIsWhole`, `SwitchIsJudged`, `SwitchSettles` | 773,098 |
| `sessions` | 2 logins, 1 request, 2 tickets, 2 connections, 1 channel, 1 renewal of the generation, in 3 cases | `AccessIsCoherent`, `StaleRelaysEnd` | 566,866 |
| `rooms` | 2 accounts, 2 rooms, a queue of 1, at most 1 crash or failure, in 10 cases over the three games | `ResultsAreKept`, `RoomsSettle` | 261,707 |
| `guild` | 3 accounts, 2 guilds of 2, 2 names, 3 operations, 1 fault, no panics | `ConfirmedHasProof`, `CancelledHasNoProof`, `GuildsCoherent`, `LocksAreHeld`, `OneMaster` | 209,400 |
| `guild_liveness` | 2 accounts, 1 guild, 2 operations, 2 faults, panics | `EveryOperationEnds` | 27,437 |
| `guild_panic` | 2 accounts, 1 operation, panics | finding 3 | 19 |

Why the bounds are enough for the cases that matter:

* runtime: with three items a request can run, fail, be recovered or evicted, and be
  sent again while another one is queued; both limits (slots and bytes) are reached,
  and the one retained success is evicted by the second one. `MaxGeneration` 3 lets the
  generation change twice, so that an old expectation meets two newer ones.
* execution: a request that took effect can be repeated with the same and with
  another body, across a crash, an uncertain commit and a fence; the third opening
  gives this process, the rival and this process again their turns. The login beside
  the one request is what comes between its attempts; any number of requests is proved.
* registry: two callers compete for one account or for one resident place, and a queue
  of one refuses the second load. Two slots suffice because the runs collect those that
  nothing refers to, as the garbage collector does; any number is proved.
* outbox: two events make order and duplication visible, a queue of one for two
  accounts makes a wake fall away, and two workers compete for one account. One fault can
  be any of the failures at any point; after it the model is as it was, so faults that
  follow each other repeat it.
* update: three entries are the program, the version file and one that only the new
  package has, so that the swap and the restore have a first, a middle and a last step;
  the third attempt is the last one. The second maintenance is what cancels or overtakes
  the first. The two faults are deaths or failures that count; a process in service may die
  any number of times. Two faults are a failing swap whose undo fails at any set of names,
  or a failing restore behind a failing record. Any number of entries, attempts and faults is
  proved.
* sessions: the cases are one account with two connections, one account with a command
  and a connection, two accounts that compete for one place in the map. One renewal
  makes everything that holds the old generation stale, a command that was accepted but
  not executed among it.
* rooms: the cases are two searching members of two rooms; two rooms that compete for the
  queue of one, across a crash and across a retry; two members across a crash; voyages of
  one account in two rooms and of two in one; a shutdown; lost connections and leavers in
  each game. A result is the business of one room, and what rooms share (queue, worker,
  store, membership) is contended by two.
* guild: three operations are what a conflict of two needs with a founding before
  them; a guild of two is full with a master and a reserved seat. The epochs are bounded
  by the operations. Any number of accounts, guilds and operations is proved for every
  property of this run.

Every property of a passing run has a mutant of the code under which TLC finds it
violated in the same configuration.

Deadlock is not checked in any run: each model may stop for good, because clients
may stop calling, a closed runtime, registry or gateway does nothing more, a stopped
service is not started again, and the bounds (`MaxAccepted`, `MaxLog`, `Operations`,
`MaxCommands`, `Requests`, rooms that are not reused) run out. That nothing stops too
early is what the liveness properties say.

Symmetry is used in the `guild` run only, where no liveness is checked.

## 5. Fairness

* `PlayerRuntime`: the owner goroutine runs, and a Submit that holds the mutex goes
  on. Nobody has to call Submit, Recover or Close; Execute returns.
* `PlayerRegistry`: callers that are not blocked, workers, sweeper and shutdown run;
  opening and closing an account's file terminates; time passes and the ticker
  ticks. Nobody has to release, touch, acquire or close: a Close returns (`CallsReturn`) with
  leases that are never given back, because retiring does not wait for them.
* `BrokenRuntime`: the same for the registry in service, clients give their leases
  back, and the dispatcher scans and delivers between two ticks (30 seconds against
  minutes).
* `OutboxDelivery`: workers, the scan and the owner of an account run, and a closed
  server is started again. A request waits behind other commands in the mailbox,
  which may come again and again; the mailbox is a FIFO channel, so it is reached:
  strong fairness of `ExecuteRequest`. Failures have no fairness and at most
  `MaxFaults` happen: a file that can never be read has no promise. See 8 for what a full
  queue may do when accounts are woken without end.
* `GuildReservation`: owners end their turns, the dispatcher delivers, the settlement
  runs every 30 seconds. `Reconcile` is a command in the mailbox of the account,
  which is free between other commands again and again: strong fairness, for the
  same reason.
* `UpdateSwitch`: a process goes on as long as it lives, and the service manager starts
  what has exited (Restart=always). Maintenances, cancellations, signals, failures and
  deaths have no fairness; the operator need not start what was held or stopped.
* `GameSessions`: for each connection, the goroutine that serves it runs when it does not
  wait for its client, and the revalidation ticker ticks. Clients need not send, and
  nobody has to log in, log out or expire.
* `RoomPlay`: owners tick, so a room's limits pass; the worker and the dispatcher get
  their turns at the store's one connection, which others also take again and again:
  strong fairness, because the waiters of a Go connection pool are served in order; a
  read transaction ends; a process that ended is started again. Members need not do
  anything.

## 6. Where the code does something else than it says

1. **A command may run in a generation it does not expect**
   (`runtime_stale_generation`). Submit compares the expected generation at
   `runtime/player/runtime.go:218` and reads it again for the work item at line 238.
   The owner stores a new one at line 311 without `mu`. In between, a command of the
   old session is accepted as one of the new generation. The test at
   `runtime/player/runtime_assets_test.go:501-502` calls that outcome fatal. Sessions are safe
   from it because they compare the generation once more with the answer (3.6).
2. **A broken runtime may stay** (`broken_runtime`). When a command fails and the
   recovery after it fails too, only unloading the account opens its file again.
   While its outbox holds an event, the dispatcher leases the account at every scan,
   and every release starts the idle time over: it is never unloaded.
3. **A panic confirms what was not committed** (`guild_panic`). After a handler's
   panic the deferred rollback succeeds and leaves no error, and the deferred Confirm
   decides by that error alone. The shared side is confirmed without the account's
   costs and receipt.
4. **The status forgets a success** (no run). `platform/updates/state.go:75` says of
   LastResult that it "describes the last version switch, written by the process that
   finished it (or rolled it back)". `recordResult` writes it to the file
   (`switch.go:334`, `382`), but the service of the same process still has the one it read
   in `New` (`service.go:79`), and its next `persistLocked` (`service.go:119`) puts that
   back: after a confirmed update the status shows no result, or that of an earlier switch.
   In the model, checking

       (at = "serving" /\ pending = None /\ "server" \in healthy) => result["server"] = "succeeded"

   as an invariant of `MCUpdateSwitch` fails without any fault and with one maintenance,
   behind `Settle`, `Confirm(TRUE)`, `Persist`. It is shown to operators and decides nothing:
   what the code does at a start depends on the records alone. For the schedules
   `mergeScheduleResult` keeps the later result, as `Settle` does.

The first does not break the receipts: the request still takes effect at most once.
The third is why `ConfirmedHasProof` is checked and proved without panics;
`CancelledHasNoProof` holds with them.

## 7. The proofs

`tlapm <module>_proofs.tla`. They hold for every value of the constants that meets
the ASSUME of the module: any number of accounts, callers, slots, workers, operations,
failures and crashes. The bounds of the runs are constants of the models
(`MaxLog`, `MaxFaults`...), so the theorems cover every finite bound, and so every
finite behaviour.

| Module | Theorems |
| --- | --- |
| `PlayerRuntime_proofs` | `TypeCorrect`, `AnswersOwnRequest`, `FailureEndsItsGeneration`, `ReceiptsAreExact`, `LimitsAlwaysKept`, `MailboxAlwaysExact`, `RuntimeKeepsLedger` |
| `CommandExecution_proofs` | `TypeCorrect`, `FencedNeverCommits`, `LockSuffices`, `MemoryNeverAhead`, `AppliedOnce`, `ExecutorKeepsPromise` |
| `PlayerRegistry_proofs` | `TypeCorrect`, `OneWriterAlways`, `NeverOrphaned`, `LeasedRemainsOpen`, `ClosedForGood` |
| `OutboxDelivery_proofs` | `TypeCorrect`, `OneDeliveryAtATime`, `CommittedIsNeverLost`, `WakeIsNotLost`, `EventsTakeEffectOnceInOrder` |
| `UpdateSwitch_proofs` | `TypeCorrect`, `SwitchJudged`, `WholeProgram` |
| `GameSessions_proofs` | `TypeCorrect`, `AccessAlwaysCoherent` |
| `RoomPlay_proofs` | `TypeCorrect`, `ResultsAlwaysKept`, `DepartedForGood` |
| `GuildReservation_proofs` | `TypeCorrect`, `CancelledNeverCommitted`, `ConfirmedWasCommitted`, `GuildsAlwaysCoherent`, `LocksAlwaysHeld`, `OneMasterAlways` |

**Runtime.** What Submit hands out depends on every command before it. `FuturesOK` says that
the futures of the mailbox are the last ones handed out, in the order of the channel
(`FuturesInOrder`), that waiting work has neither run nor a result (`FuturesKnown`), that the
generation of a failure is over or the executor still needs recovery (`GenerationsKnown`), and
that a receipt leads to the future of its own request, which has not failed
(`ReceiptsKnown`). `IdentitiesKnown` adds that the identities which are queued, executed and
retained are disjoint and each listed once, that together they are those of the receipts, and
that the Submit in progress has none yet; `ReceiptsCoherent` follows.

The limits (`LimitsKept`) follow from `Reserved`: the room that Submit found for its command is
still there when it sends, because while it holds `mu` only the owner runs, and the owner makes
room. That `bytes` counts the bytes of the unsettled works exactly is an invariant of its own
(`BytesCounted`). `SumOfBytes` is the size of the set of all these bytes, each told apart by the
place of its work, and not a fold, so that no induction over the queue is needed: a work that joins
adds its bytes (`AppendHolds`), and when the first one is settled those of the others move up
by one place, which is a bijection (`TailHolds`). `MailboxAlwaysExact` is both together. The
ledger needs `SettledKnown`: whatever has left the channel is settled, except what the
owner has in hand. So the future it settles is the oldest pending one, and an owner that is idle
in front of an empty channel has left nothing behind. `RuntimeKeepsLedger` is the safety part of
the refinement of `AcceptedWork`.

**Fencing.** That effects are ordered by the epochs of their writers is not
inductive: a step could commit with an old epoch. The invariant adds that a
transaction which wrote and was not rejected holds SQLite's write lock, so that
nobody has claimed the file since (`wrote /\ ~rejected => ownEpoch = epoch`), and
that a dispatching command's snapshot was taken under the process's own epoch
(`WriterIsCurrent`). A write is accepted only on a current snapshot, which gives the
first from the second. `LockSuffices` has an invariant of its own, `LockIsEnough`: while
this process holds the lock it is the last writer that claimed the file, and it lets go
of the lock only when it is closed or between the two halves of a recovery.

**Exactly once.** `AppliedAtMostOnce` needs to know of the command in progress that it has
no receipt yet, and of a success about to be reported that its effect and its receipt are
in the file (`RequestKnown`). With that every step of the executor is an application of a
new request, an acknowledgement of an applied one, or neither: `ExecutorKeepsPromise`
is the refinement itself, for any number of requests. `MemoryIsCommitted` follows from what
memory reflects in each phase (`MemoryKnown`): the file, and on top of it the one effect of
a transaction that wrote and was not rejected, unless another writer replaced this one.

**Registry.** `OneWriter` follows from `MapCoherent`: whatever is queued, opening,
open or failed to close is in the map, and the map has one slot for each account.
To keep that through the loads, `QueueCoherent` says that the channel holds exactly
the queued slots, each once. `LeasedStaysOpen` needs that the lease counters count
(`LeasesCounted`: `leases` is the number of callers that hold the slot), so that a slot
with no leases has no holder when the sweeper takes it, and `RetirementCoherent`, that
what is retired was marked first. `ClosedIsClosed` needs `ShutdownCoherent`: after the
workers and the sweeper ended nothing opens, so the list that shutdown makes is
complete.

**Outbox.** `OneDelivery` needs that whatever is queued or held by a worker is scheduled
(`HeldIsScheduled`): then a wake finds it and does not queue it again. `NothingLost` could
be broken only by an acknowledgement of something that was not applied: a request to
acknowledge names an event of the shared file (`MailIsAwaited`), because a worker asks for
it only for the head of a page that it has applied, and the page of a worker holds events
of its account (`PagesArePublished`). A request that its worker gave up on may still be
executed later, which is why the statement is about the mailbox and not the worker.

`WakeNotLost` has a second invariant, `WakeInv`, because it counts. It follows each delivery
that nobody has told to run again (`Announced`): between two pages the pages it may still
read hold what is pending (`DrainOK`: pending events plus pages read times the page size are
at most 256), within a page the page is the beginning of the outbox, and it is all of it or
a full page. An acknowledgement then removes the first pending event, since events are
distinct (`OutboxOK`), and the request the worker waits for is the last of its mailbox
(`MailOrder`), so that one abandoned earlier is executed before the page is read and cannot
change it. Behind the last page nothing is left: nine pages of 32 are more than 256, which is
where the `+ 1` in the code's number of pages is needed.

The refinement of `EventLog` has a third, `LogInv`. The events an account published are a log:
what took effect is its beginning, what is pending its end, the two cover it, and events are
distinct (`LogOK`). A page lies behind events that were acknowledged (`PageInOrder`), so its
head is the next event of the log or one that the shared file has and skips. A request to
acknowledge names the first pending event or one that is pending no longer
(`AcknowledgementsInOrder`), also when its worker gave up on it and the account was delivered
again meanwhile: acknowledging out of order is impossible, and with it a gap in the effects.

**Updates.** Where the process is in a swap or a restore determines which names were moved
(`InstallationIsKnown`: `Aside`, `Placing`, `Restoring` describe the package entry by
entry up to the current step), so that each step leads to the next description and the
last one to a whole program. What is installed without a record is told by `healthy`, and
`ServiceRemembers` says that a process that serves has read the results, which `Settle` needs.
`SwitchIsJudged` rests on which maintenance led to a plan
(`RunsOwnMaintenance`, `PlansLeadToSwitches`), on the record of a trial
(`TrialsAreRecorded`, `StartsAreCounted`, `SelectionIsRecorded`), and on saves that follow
the program (`SavesFollowProgram`).

**Sessions.** Leases and connection counters are compared with the sets of those who hold
them (`Callers`, `Connections`, `Counted`), so that a step moves one connection or one
command in or out of a set and a counter with it. One session for each account needs that
what enters the map is over with its login (`LoginsAreOver`): the generation a session
carries is then the one its login executed in. A successful answer is of that generation
because generations only grow: `RunsKnown` bounds the one a command executed in from below by
that of its session (`Authorize` has compared it) and from above by the present one, and the
comparison in `Answer` closes the interval. Without it the proof fails, and so does the run
(`AnswerAll`). `RelaysKnown` says that an open socket is served, so that the only connections of an account
and channel are those that replacement sees.

**Rooms.** `ResultsAreKept` speaks of a result on its way from the owner of a room through the
queue and the worker into the store, and out again by the claims of the members, while rooms,
places and commands change. `IInv` follows it in four parts. `TypeInv` adds to the types that
hands which are not idle hold a room (`HandsKnown`).

`ResultsInv` is about the way into the store. A result is offered at every tick until the queue
takes it; that it is handed over once is `QueueKnown` (no room is queued twice or queued while
the worker holds it, and a room that may still offer its result is not held), that what has a
phase or a result has ended is `PhasesKnown` and `ResultsKnown`. `WorkerKnown` says for each step
of `persist` what is already durable, so that the steps after a failure or a restart find
everything the ones before them left. Among some thirty steps of the manager only a few kinds
of change matter to it: each is shown once to leave a room as it was, to start it, to remove
one that has nothing to lose, or to end one and hand its result over (`RoomsMove`: `Same`,
`Starts`, `Leaves`, `Ends`), and `ResultsInv` is proved of the kinds.

`DeliveryInv` is about the way out. A result is retired when all members have claimed it, and a
claim is an event that is delivered later, perhaps after a crash. `ClaimsKnown` ties what the
store has recorded to what was published and delivered, `EventsKnown` puts each undelivered event
in the list once and a claim behind the acceptance of its run, and `MembersKnown` makes the list
of members final once the room has started, so that nobody joins whose claim retirement would not
wait for. `AppliedKnown` covers a delivery whose inbox entry is written and whose outbox entry is
not yet acknowledged, `EndsKnown` a command that has seen a result and has not committed its end.

`AbandonInv` is about the two looks of Result. What a command read of its run stays so until it
commits (`RunKnown`): a run it takes for abandoned is of a room that is `Departed`, ended or
stopped without a result and without one to come, and that is stable (`DepartedForGood`). While it looks, the member keeps
its place in a room that may still get a result (`KeepsPlace`), because every step that takes a
place away either leaves the room behind for good or is one of the named cases (`excused`).
Two cases came to light in this proof and not in a run: a room which request 93 closed after it
had started could lose its result, and a member could be moved out of a started room; both are in
the code, and are now named (`Dropped`, `excused`; section 3.7).

**Guilds.** What is cancelled has no receipt and never gets one: an operation is in the
turn of one account at most (`OneTurn`), that account is the one its record names
(`TurnsKnown`, `Recorded`), the settlement decides only while that account's owner is
between commands, and a repeated request finds its reservation cancelled before it can
commit. `ConfirmedWasCommitted` assumes that no handler panics (finding 3) and adds
`RepliesProven`: whoever is in the deferred Confirm has committed its receipt.

What the shared file promises (`GuildsCoherent`, `LocksAreHeld`, `OneMaster`) is one invariant,
`SharedOK`. Confirm trusts what Prepare checked, some of it commands, crashes and restarts
ago; that is right because of `Fits`: what was true of the account and of the guild when the
operation was prepared stays true while it holds their locks, because two prepared
operations have neither an account nor a guild in common (`PreparedApart`, from
`PreparedKnown` and `HoldersKnown`). So each step changes one guild and one account
(`Untouched` for the others), and is followed through the buckets for that guild: a
reservation (`ReserveShared`), a confirmation (`ConfirmShared`), a cancellation
(`CancelShared`), a deletion (`FinalizeShared`). This holds with panics, too: finding 3 breaks
the agreement of the two files, and not the shared one.

Each invariant was checked by TLC on the instances above before it was proved.

Only model-checked is what is out of the prover's reach: all liveness, so the second half of the
refinement of `AcceptedWork`, and the properties `CallsReturn`, `IdleIsUnloaded`,
`PublishedTakesEffect`, `StaleRelaysEnd`, `EveryOperationEnds`, `SwitchSettles` and `RoomsSettle`.
Every invariant that a passing run checks is proved.

## 8. What is not modelled

* Of the guilds: raids, supporters and attendance with their rewards, notices and
  profile texts, and the Cancel that follows a failed mutationResponse. Of the shared
  store: its 128 slots of capacity and the paging of scans. Of the account repository:
  the schema, and the lock on Windows (`writer_lock_unix.go` is the one modelled). Of the
  sessions: request bodies, encryption, the rate limit and UDP. Of the rooms: what section
  3.7 lists. Of the updates: downloads, signatures, the contents of the backup, the
  console and the Docker host's side of the method.
* The lifecycle gate and the order in which `serve` stops the parts: planned (section 2).
  What serving means to an update, to sessions and to rooms is in their models.
* Gameplay: what handlers compute is one effect on the account. They are sequential
  functions of one account and one command over design tables, and make up most of the
  lines of the repository; their interplay with storage, repetition and failure is
  what `CommandExecution` covers, and a model of each would restate its assignments. The
  exceptions are the commands whose outcome depends on another actor (guilds, relay games),
  which are modelled. This is why the modelled share of the lines is small although the
  components that run concurrently or survive a crash are covered.
* Known limits without a property: a queue of 128 wakes in which accounts at the head
  of the scan keep later ones out, and a scan, or a settlement, that ends at the first
  account whose file cannot be read; an event the shared side refuses for ever, behind
  which 256 others fill the outbox of the account; a restore of a version that is not
  repeatable; a matching connection whose loss is never forgotten. The steps are in the
  models; no statement of the code is contradicted by them.
* Pure input and output: transport, encryption, login identities, design data,
  administration, downloads, chat, text moderation, the client, its plugins and the build
  tools.
