---------------------- MODULE CommandExecution_proofs ----------------------
(***************************************************************************)
(* Proofs about CommandExecution, for every value of its constants.         *)
(***************************************************************************)
EXTENDS CommandExecution, TLAPS, SequenceTheorems

\* A command is executed, or an outcome waits to be reported: then there is one.
CommandKnown ==
  phase \in {"dispatching", "committing", "rollingBack"} \/ result # "none" => command \in Command

\* A transaction that may commit what it wrote belongs to the writer that the
\* file names: it started from a snapshot of that writer's epoch, and since it
\* wrote, SQLite's write lock has kept every other writer out.
WriterIsCurrent ==
  /\ ownEpoch <= epoch /\ rivalEpoch <= epoch
  /\ phase = "dispatching" => base[2] = ownEpoch
  /\ wrote /\ ~rejected => ownEpoch = epoch

IInv == TypeOK /\ CommandKnown /\ WriterIsCurrent /\ WritersFenced

\* The effect of the command that is executed is an entry of the file.
LEMMA EffectType ==
  ASSUME TypeOK, command \in Command
  PROVE  Effect \in Entry
BY DEF TypeOK, Effect, Entry, Command

\* The epochs of the effects.
LEMMA LogEpochs ==
  ASSUME TypeOK
  PROVE  /\ log \in Seq(Entry) /\ epoch \in Nat /\ Len(log) \in Nat
         /\ \A i \in 1..Len(log) : log[i].epoch \in Nat
<1>1. log \in Seq(Entry) /\ epoch \in Nat
  BY DEF TypeOK
<1>2. \A i \in 1..Len(log) : log[i] \in Entry
  BY <1>1
<1>3. \A e \in Entry : e.epoch \in Nat
  BY DEF Entry
<1> QED
  BY <1>1, <1>2, <1>3

\* What one more effect of the current writer does to the file.
LEMMA AppendFenced ==
  ASSUME TypeOK, WritersFenced, NEW e \in Entry, e.epoch = epoch
  PROVE  /\ Append(log, e) \in Seq(Entry)
         /\ \A i, j \in 1..Len(Append(log, e)) :
              i < j => Append(log, e)[i].epoch <= Append(log, e)[j].epoch
         /\ \A i \in 1..Len(Append(log, e)) : Append(log, e)[i].epoch <= epoch
<1>1. log \in Seq(Entry) /\ \A i \in 1..Len(log) : log[i].epoch \in Nat
  BY LogEpochs
<1>2. /\ Append(log, e) \in Seq(Entry) /\ Len(Append(log, e)) = Len(log) + 1
      /\ \A i \in 1..Len(log) : Append(log, e)[i] = log[i]
      /\ Append(log, e)[Len(log) + 1] = e
  BY <1>1, AppendProperties
<1>3. epoch \in Nat /\ Len(log) \in Nat
  BY LogEpochs
<1> QED
  BY <1>1, <1>2, <1>3 DEF WritersFenced, Positions

\* A commit appends the effect, if there is one, and its receipt.
LEMMA PersistStep ==
  ASSUME IInv, MayCommit, Persist, epoch' = epoch
  PROVE  /\ log' \in Seq(Entry)
         /\ DOMAIN receipts' \subseteq Identities
         /\ \A id \in DOMAIN receipts' : receipts'[id] \in Receipt
         /\ WritersFenced'
<1>1. TypeOK /\ WritersFenced /\ command \in Command
  BY DEF IInv, CommandKnown, MayCommit
<1>2. CASE ~wrote
  BY <1>1, <1>2 DEF Persist, TypeOK, WritersFenced, Positions
<1>3. CASE wrote
  <2>1. log' = Append(log, Effect) /\ receipts' = WithReceipt
    BY <1>3 DEF Persist
  <2>2. Effect \in Entry /\ Effect.epoch = epoch
    BY <1>1, <1>3, EffectType DEF IInv, WriterIsCurrent, MayCommit, Effect
  <2>3. log' \in Seq(Entry) /\ WritersFenced'
    BY <1>1, <2>1, <2>2, AppendFenced DEF WritersFenced, Positions
  <2>4. Len(log) + 1 \in Nat
    BY <1>1 DEF TypeOK
  <2>5. DOMAIN receipts' \subseteq Identities /\ \A id \in DOMAIN receipts' : receipts'[id] \in Receipt
    BY <1>1, <2>1, <2>4 DEF TypeOK, WithReceipt, Receipt, Command
  <2> QED
    BY <2>3, <2>5
<1> QED
  BY <1>2, <1>3

LEMMA InitIInv == Init => IInv
<1> SUFFICES ASSUME Init PROVE IInv
  OBVIOUS
<1>1. DOMAIN receipts = {}
  BY Zenon DEF Init
<1>2. log = <<>> /\ log \in Seq(Entry) /\ memory \in Seq(Entry) /\ Len(log) = 0
  BY DEF Init
<1>3. wrote \in BOOLEAN /\ rejected \in BOOLEAN /\ tentative \in BOOLEAN
  BY Zenon DEF Init
<1>6. base \in Nat \X Nat
  BY DEF Init
<1>7. TypeOK
  BY <1>1, <1>2, <1>3, <1>6 DEF Init, TypeOK, Phases
<1>4. CommandKnown /\ WriterIsCurrent
  BY DEF Init, CommandKnown, WriterIsCurrent
<1>5. WritersFenced
  BY <1>2 DEF WritersFenced, Positions
<1> QED
  BY <1>4, <1>5, <1>7 DEF IInv

\* A step that leaves the file alone keeps the order of its writers.
LEMMA SameFile ==
  ASSUME WritersFenced, log' = log, epoch' = epoch
  PROVE  WritersFenced'
BY DEF WritersFenced, Positions

\* A new epoch is later than every effect.
LEMMA LaterEpoch ==
  ASSUME TypeOK, WritersFenced, log' = log, epoch' = epoch + 1
  PROVE  WritersFenced'
BY LogEpochs DEF WritersFenced, Positions

\* A step that leaves the file, its writers and the transaction alone.
LEMMA QuietStep ==
  ASSUME IInv, UNCHANGED <<fileVars, holders, rivalEpoch, ownEpoch, base>>,
         phase' \in Phases, memory' \in Seq(Entry), tentative' \in BOOLEAN,
         repositoryFailed' \in {"no", "uncertain", "fenced"},
         wrote' \in BOOLEAN, rejected' \in BOOLEAN,
         command' \in Command \cup {NoCommand}, result' \in Results \cup {"none"},
         position' \in Nat, successes' \subseteq Success,
         CommandKnown',
         phase' = "dispatching" => phase = "dispatching",
         wrote' /\ ~rejected' => wrote /\ ~rejected
  PROVE  IInv'
<1>1. TypeOK'
  BY DEF IInv, TypeOK, fileVars
<1>2. WriterIsCurrent'
  BY DEF IInv, WriterIsCurrent, fileVars
<1>3. WritersFenced'
  BY SameFile DEF IInv, fileVars
<1> QED
  BY <1>1, <1>2, <1>3 DEF IInv

\* A reply is given for the command that was executed.
LEMMA ReplyTypes ==
  ASSUME TypeOK, CommandKnown, GiveReply
  PROVE  successes' \subseteq Success /\ command' = NoCommand /\ result' = "none" /\ position' = 0
<1>1. CASE result = "ok" /\ position # 0
  <2>1. command \in Command
    BY <1>1 DEF CommandKnown
  <2>2. [id |-> command.id, digest |-> command.digest, position |-> position] \in Success
    BY <2>1 DEF TypeOK, Command, Success
  <2> QED
    BY <1>1, <2>2 DEF TypeOK, GiveReply
<1>2. CASE ~(result = "ok" /\ position # 0)
  BY <1>2 DEF TypeOK, GiveReply
<1> QED
  BY <1>1, <1>2

\* Beginning a command.
LEMMA BeginStep ==
  ASSUME IInv, NEW c \in Command, BeginFails(c) \/ BeginAnswered(c) \/ BeginDispatch(c)
  PROVE  IInv'
<1>1. CASE BeginFails(c)
  BY <1>1, QuietStep
     DEF BeginFails, IInv, TypeOK, CommandKnown, txVars, fileVars, Phases, Results
<1>2. CASE BeginAnswered(c)
  <2>1. position' \in Nat
    BY <1>2 DEF BeginAnswered, HasReceipt, IInv, TypeOK, Receipt
  <2> QED
    BY <1>2, <2>1, QuietStep
       DEF BeginAnswered, CanBegin, IInv, TypeOK, CommandKnown, txVars, fileVars, Phases, Results
<1>3. CASE BeginDispatch(c)
  <2>1. base' \in Nat \X Nat /\ base'[2] = epoch /\ ownEpoch = epoch
    BY <1>3, LogEpochs DEF BeginDispatch, CanBegin, Fenced, FileVersion, IInv
  <2>2. TypeOK'
    BY <1>3, <2>1 DEF BeginDispatch, IInv, TypeOK, fileVars, Phases
  <2>3. CommandKnown' /\ WriterIsCurrent'
    BY <1>3, <2>1 DEF BeginDispatch, IInv, CommandKnown, WriterIsCurrent, fileVars
  <2>4. WritersFenced'
    BY <1>3, SameFile DEF BeginDispatch, IInv, fileVars
  <2> QED
    BY <2>2, <2>3, <2>4 DEF IInv
<1> QED
  BY <1>1, <1>2, <1>3

\* The first write of a transaction takes SQLite's write lock, unless another
\* writer has committed since the snapshot.
LEMMA DispatchWritesStep ==
  ASSUME IInv, DispatchWrites
  PROVE  IInv'
<1>1. Effect \in Entry
  BY EffectType DEF DispatchWrites, IInv, CommandKnown
<1>2. memory' \in Seq(Entry)
  BY <1>1, AppendProperties DEF DispatchWrites, IInv, TypeOK
<1>3. wrote' \in BOOLEAN /\ rejected' \in BOOLEAN
  BY Zenon DEF DispatchWrites
<1>4. TypeOK'
  BY <1>2, <1>3 DEF DispatchWrites, IInv, TypeOK, fileVars, commandVars
<1>5. wrote' /\ ~rejected' => ownEpoch' = epoch'
  <2> SUFFICES ASSUME wrote', ~rejected' PROVE ownEpoch' = epoch'
    OBVIOUS
  <2>1. base = FileVersion
    BY Zenon DEF DispatchWrites, SnapshotIsCurrent
  <2>2. base[2] = epoch
    BY <2>1 DEF FileVersion
  <2> QED
    BY <2>2 DEF DispatchWrites, IInv, WriterIsCurrent, fileVars
<1>6. CommandKnown' /\ WriterIsCurrent'
  BY <1>5 DEF DispatchWrites, IInv, CommandKnown, WriterIsCurrent, fileVars, commandVars
<1>7. WritersFenced'
  BY SameFile DEF DispatchWrites, IInv, fileVars
<1> QED
  BY <1>4, <1>6, <1>7 DEF IInv

\* COMMIT, whether its outcome is known or not.
LEMMA CommitStep ==
  ASSUME IInv, NEW durable \in BOOLEAN,
         CommitSucceeds \/ CommitUncertain(durable)
  PROVE  IInv'
<1>1. /\ log' \in Seq(Entry) /\ DOMAIN receipts' \subseteq Identities
      /\ \A id \in DOMAIN receipts' : receipts'[id] \in Receipt
      /\ WritersFenced'
  <2>1. CASE Persist
    BY <2>1, PersistStep DEF CommitSucceeds, CommitUncertain
  <2>2. CASE UNCHANGED <<log, receipts>>
    BY <2>2, SameFile DEF CommitSucceeds, CommitUncertain, IInv, TypeOK
  <2> QED
    BY <2>1, <2>2 DEF CommitSucceeds, CommitUncertain
<1>2. position' \in Nat
  BY LogEpochs DEF CommitSucceeds, CommitUncertain, IInv, TypeOK
<1>3. wrote' \in BOOLEAN /\ rejected' \in BOOLEAN /\ tentative' \in BOOLEAN
  <2>1. CASE CommitSucceeds
    BY <2>1, Zenon DEF CommitSucceeds
  <2>2. CASE CommitUncertain(durable)
    BY <2>2, Zenon DEF CommitUncertain, IInv, TypeOK
  <2> QED
    BY <2>1, <2>2
<1>4. TypeOK'
  BY <1>1, <1>2, <1>3 DEF CommitSucceeds, CommitUncertain, IInv, TypeOK, Phases, Results
<1>5. CommandKnown' /\ WriterIsCurrent'
  BY DEF CommitSucceeds, CommitUncertain, MayCommit, IInv, CommandKnown, WriterIsCurrent
<1> QED
  BY <1>1, <1>4, <1>5 DEF IInv

\* The process ends, on its own or not.
LEMMA UnloadStep ==
  ASSUME IInv, NEW durable \in BOOLEAN, Close \/ Crash(durable)
  PROVE  IInv'
<1>1. Unload
  BY DEF Close, Crash
<1>2. /\ log' \in Seq(Entry) /\ DOMAIN receipts' \subseteq Identities
      /\ \A id \in DOMAIN receipts' : receipts'[id] \in Receipt
      /\ WritersFenced'
  <2>1. CASE MayCommit /\ Persist
    BY <1>1, <2>1, PersistStep DEF Unload
  <2>2. CASE UNCHANGED <<log, receipts>>
    BY <1>1, <2>2, SameFile DEF Unload, IInv, TypeOK
  <2> QED
    BY <2>1, <2>2 DEF Close, Crash
<1>3. wrote' \in BOOLEAN /\ rejected' \in BOOLEAN /\ tentative' \in BOOLEAN
  BY <1>1, Zenon DEF Unload
<1>4. base' \in Nat \X Nat /\ memory' \in Seq(Entry)
  BY <1>1 DEF Unload
<1>5. TypeOK'
  BY <1>1, <1>2, <1>3, <1>4 DEF Unload, IInv, TypeOK, Phases
<1>6. CommandKnown' /\ WriterIsCurrent'
  BY <1>1 DEF Unload, IInv, CommandKnown, WriterIsCurrent
<1> QED
  BY <1>2, <1>5, <1>6 DEF IInv

\* The file is opened under a new epoch, by this process or by the other.
LEMMA OpenStep ==
  ASSUME IInv, RecoverReopens \/ Reload \/ RivalOpens
  PROVE  IInv'
<1>1. WritersFenced'
  BY LaterEpoch DEF RecoverReopens, Reload, OpenFile, RivalOpens, IInv
<1>2. memory' \in Seq(Entry)
  BY DEF RecoverReopens, Reload, RivalOpens, IInv, TypeOK
<1>3. TypeOK'
  <2>1. CASE RecoverReopens
    BY <1>2, <2>1 DEF RecoverReopens, OpenFile, IInv, TypeOK, Phases, txVars, commandVars
  <2>2. CASE Reload
    BY <1>2, <2>2 DEF Reload, OpenFile, IInv, TypeOK, Phases, txVars, commandVars
  <2>3. CASE RivalOpens
    BY <1>2, <2>3 DEF RivalOpens, IInv, TypeOK, Phases, txVars, commandVars
  <2> QED
    BY <2>1, <2>2, <2>3
<1>4. CommandKnown'
  BY DEF RecoverReopens, Reload, RivalOpens, IInv, CommandKnown, commandVars
<1>5. WriterIsCurrent'
  BY DEF RecoverReopens, Reload, OpenFile, RivalOpens, WriteLockFree, IInv, TypeOK,
         WriterIsCurrent, txVars, commandVars
<1> QED
  BY <1>1, <1>3, <1>4, <1>5 DEF IInv

\* The other process commits under the epoch that it claimed.
LEMMA RivalCommitsStep ==
  ASSUME IInv, RivalCommits
  PROVE  IInv'
<1> DEFINE e == [id |-> Rival, epoch |-> rivalEpoch]
<1>1. e \in Entry /\ e.epoch = epoch
  BY DEF RivalCommits, IInv, TypeOK, Entry
<1>2. log' = Append(log, e) /\ epoch' = epoch
  BY DEF RivalCommits
<1> HIDE DEF e
<1>3. log' \in Seq(Entry) /\ WritersFenced'
  BY <1>1, <1>2, AppendFenced DEF IInv, WritersFenced, Positions
<1>4. TypeOK'
  BY <1>3 DEF RivalCommits, IInv, TypeOK, txVars, commandVars
<1>5. CommandKnown' /\ WriterIsCurrent'
  BY DEF RivalCommits, IInv, CommandKnown, WriterIsCurrent, txVars, commandVars
<1> QED
  BY <1>3, <1>4, <1>5 DEF IInv

LEMMA NextIInv == IInv /\ [Next]_vars => IInv'
<1> SUFFICES ASSUME IInv, [Next]_vars PROVE IInv'
  OBVIOUS
<1> USE DEF fileVars, txVars, commandVars
<1>a. TypeOK /\ CommandKnown
  BY DEF IInv
<1>1. ASSUME NEW c \in Command, BeginFails(c) \/ BeginAnswered(c) \/ BeginDispatch(c) PROVE IInv'
  BY <1>1, BeginStep
<1>2. CASE DispatchWrites
  BY <1>2, DispatchWritesStep
<1>3. ASSUME NEW serious \in BOOLEAN, StatementFails(serious) PROVE IInv'
  <2>1. /\ wrote' \in BOOLEAN /\ rejected' \in BOOLEAN /\ rejected'
        /\ tentative' \in BOOLEAN
    BY <1>3, <1>a, Zenon DEF StatementFails, TypeOK
  <2> QED
    BY <1>3, <1>a, <2>1, QuietStep DEF StatementFails, TypeOK, CommandKnown
<1>4. CASE DispatchReturns \/ DispatchErrs \/ DispatchChangesMemory \/ DispatchPanics
  <2>1. wrote' \in BOOLEAN /\ rejected' \in BOOLEAN /\ tentative' \in BOOLEAN
    BY <1>4, <1>a, Zenon
       DEF DispatchReturns, DispatchErrs, DispatchChangesMemory, DispatchPanics, TypeOK
  <2> QED
    BY <1>4, <1>a, <2>1, QuietStep
       DEF DispatchReturns, DispatchErrs, DispatchChangesMemory, DispatchPanics, TypeOK,
           CommandKnown, Phases, Results
<1>5. ASSUME NEW succeeds \in BOOLEAN, RollBack(succeeds) PROVE IInv'
  BY <1>5, <1>a, QuietStep DEF RollBack, TypeOK, CommandKnown, Phases, Results
<1>6. CASE CommitSucceeds
  BY <1>6, CommitStep
<1>7. CASE CommitRefused
  BY <1>7, <1>a, QuietStep DEF CommitRefused, TypeOK, CommandKnown, Phases, Results
<1>8. ASSUME NEW durable \in BOOLEAN, CommitUncertain(durable) \/ Crash(durable) PROVE IInv'
  BY <1>8, CommitStep, UnloadStep
<1>9. CASE ReplyGiven \/ RecoverFenced \/ RecoverFails
  <2>1. GiveReply
    BY <1>9 DEF ReplyGiven, RecoverFenced, RecoverFails
  <2> QED
    BY <1>9, <1>a, <2>1, ReplyTypes, QuietStep
       DEF ReplyGiven, RecoverFenced, RecoverFails, TypeOK, CommandKnown, Phases
<1>10. CASE RecoverCloses
  BY <1>10, <1>a, SameFile DEF RecoverCloses, IInv, TypeOK, CommandKnown, WriterIsCurrent, Phases
<1>11. CASE RecoverReopens \/ Reload \/ RivalOpens
  BY <1>11, OpenStep
<1>12. CASE RecoverAssembles \/ RetryRecover
  <2>1. wrote' \in BOOLEAN /\ rejected' \in BOOLEAN /\ tentative' \in BOOLEAN
    BY <1>12, <1>a, Zenon DEF RecoverAssembles, RetryRecover, TypeOK
  <2> QED
    BY <1>12, <1>a, <2>1, QuietStep
       DEF RecoverAssembles, RetryRecover, TypeOK, CommandKnown, Phases
<1>13. CASE Close
  BY <1>13, UnloadStep
<1>14. CASE RivalCommits
  BY <1>14, RivalCommitsStep
<1>15. CASE RivalCloses
  BY <1>15, <1>a, SameFile DEF RivalCloses, IInv, TypeOK, CommandKnown, WriterIsCurrent
<1>16. CASE UNCHANGED vars
  BY <1>16, <1>a, SameFile DEF vars, IInv, TypeOK, CommandKnown, WriterIsCurrent
<1> QED
  BY <1>1, <1>2, <1>3, <1>4, <1>5, <1>6, <1>7, <1>8, <1>9, <1>10, <1>11, <1>12, <1>13,
     <1>14, <1>15, <1>16 DEF Next

\* Every variable of the executor and of the file keeps its type.
THEOREM TypeCorrect == Spec => []TypeOK
<1>1. IInv => TypeOK
  BY DEF IInv
<1> QED
  BY <1>1, InitIInv, NextIInv, PTL DEF Spec

\* Whatever fails, and whether or not the file lock works, a writer that was
\* replaced never commits again.
THEOREM FencedNeverCommits == Spec => []WritersFenced
<1>1. IInv => WritersFenced
  BY DEF IInv
<1> QED
  BY <1>1, InitIInv, NextIInv, PTL DEF Spec

-----------------------------------------------------------------------------
(* The file lock *)

\* Whoever holds the lock is the last writer that claimed the file; this process
\* lets go of it only when it is closed, or between the two halves of a recovery.
LockIsEnough ==
  /\ "own" \in holders => ownEpoch = epoch
  /\ "own" \notin holders =>
       \/ phase = "closed"
       \/ phase \in {"recovering", "reopening", "down"} /\ repositoryFailed = "uncertain"
  /\ repositoryFailed # "fenced"

LEMMA LockStep ==
  ASSUME LockHonoured, LockIsEnough, [Next]_vars
  PROVE  LockIsEnough'
<1> USE DEF LockIsEnough, fileVars, txVars, commandVars
<1>1. ASSUME NEW c \in Command, BeginFails(c) \/ BeginAnswered(c) \/ BeginDispatch(c)
      PROVE  LockIsEnough'
  BY <1>1 DEF BeginFails, BeginAnswered, BeginDispatch, CanBegin, Fenced
<1>2. ASSUME NEW serious \in BOOLEAN, StatementFails(serious) PROVE LockIsEnough'
  BY <1>2 DEF StatementFails
<1>3. CASE DispatchWrites \/ DispatchReturns \/ DispatchErrs \/ DispatchChangesMemory \/ DispatchPanics
  BY <1>3 DEF DispatchWrites, DispatchReturns, DispatchErrs, DispatchChangesMemory, DispatchPanics
<1>4. ASSUME NEW succeeds \in BOOLEAN, RollBack(succeeds) PROVE LockIsEnough'
  BY <1>4 DEF RollBack
<1>5. CASE CommitSucceeds \/ CommitRefused
  BY <1>5 DEF CommitSucceeds, CommitRefused, MayCommit
<1>6. ASSUME NEW durable \in BOOLEAN, CommitUncertain(durable) PROVE LockIsEnough'
  BY <1>6 DEF CommitUncertain, MayCommit
<1>7. ASSUME NEW durable \in BOOLEAN, Close \/ Crash(durable) PROVE LockIsEnough'
  BY <1>7 DEF Close, Crash, Unload
<1>8. CASE ReplyGiven \/ RecoverFenced \/ RecoverFails \/ RetryRecover
  BY <1>8 DEF ReplyGiven, RecoverFenced, RecoverFails, RetryRecover, Fenced
<1>9. CASE RecoverCloses \/ RecoverAssembles
  BY <1>9 DEF RecoverCloses, RecoverAssembles
<1>10. CASE RecoverReopens \/ Reload
  BY <1>10 DEF RecoverReopens, Reload, OpenFile, LockIsFree
<1>11. CASE RivalOpens \/ RivalCommits \/ RivalCloses
  BY <1>11 DEF RivalOpens, RivalCommits, RivalCloses, LockIsFree
<1>12. CASE UNCHANGED vars
  BY <1>12 DEF vars
<1> QED
  BY <1>1, <1>2, <1>3, <1>4, <1>5, <1>6, <1>7, <1>8, <1>9, <1>10, <1>11, <1>12 DEF Next

\* Where the file lock is honoured, no command ever runs into the fence.
THEOREM LockSuffices == Spec => []LockPreventsFencing
<1>1. CASE ~LockHonoured
  <2>1. LockPreventsFencing
    BY <1>1 DEF LockPreventsFencing
  <2> QED
    BY <2>1, PTL
<1>2. CASE LockHonoured
  <2>1. Init => LockIsEnough
    BY DEF Init, LockIsEnough
  <2>2. LockIsEnough /\ [Next]_vars => LockIsEnough'
    BY <1>2, LockStep
  <2>3. LockIsEnough => LockPreventsFencing
    BY DEF LockIsEnough, LockPreventsFencing, Fenced
  <2> QED
    BY <2>1, <2>2, <2>3, PTL DEF Spec
<1> QED
  BY <1>1, <1>2

-----------------------------------------------------------------------------
(* The assembled account *)

\* What the assembled account reflects, phase by phase: the committed effects,
\* with the one that a transaction has written on top.  A writer that was
\* replaced may hold an old copy; it never writes again.
MemoryKnown ==
  /\ 1 <= ownEpoch /\ ownEpoch # rivalEpoch
  /\ phase \notin {"dispatching", "committing", "rollingBack"} => ~wrote
  /\ phase \in {"idle", "replying"} \/ (phase = "rollingBack" /\ result # "failed") =>
       ~tentative /\ (Fenced \/ memory = log)
  /\ phase = "closed" => ~tentative
  /\ phase \in {"dispatching", "committing"} =>
       /\ ~wrote => Fenced \/ memory = log
       /\ wrote /\ ~rejected => memory = Append(log, Effect)

\* A step that changes neither the file nor who writes it.
LEMMA MemoryStep ==
  ASSUME IInv, MemoryKnown, [Next]_vars
  PROVE  MemoryKnown'
<1> USE DEF MemoryKnown, Fenced, fileVars, txVars, commandVars
<1>0. TypeOK /\ WriterIsCurrent
  BY DEF IInv
<1>1. ASSUME NEW c \in Command, BeginFails(c) \/ BeginAnswered(c) \/ BeginDispatch(c)
      PROVE  MemoryKnown'
  <2>1. CASE BeginFails(c)
    BY <2>1 DEF BeginFails
  <2>2. CASE BeginAnswered(c)
    <3>1. (tentative' <=> tentative) /\ (wrote' <=> wrote)
      BY <2>2, Zenon DEF BeginAnswered
    <3> QED
      BY <2>2, <3>1 DEF BeginAnswered, CanBegin
  <2>3. CASE BeginDispatch(c)
    <3>1. (tentative' <=> tentative) /\ (wrote' <=> wrote)
      BY <2>3, Zenon DEF BeginDispatch
    <3> QED
      BY <2>3, <3>1 DEF BeginDispatch, CanBegin
  <2> QED
    BY <1>1, <2>1, <2>2, <2>3
<1>2. CASE DispatchWrites
  <2>1. memory = log \/ ~SnapshotIsCurrent
    BY <1>0, <1>2 DEF DispatchWrites, SnapshotIsCurrent, FileVersion, WriterIsCurrent
  <2> QED
    BY <1>2, <2>1 DEF DispatchWrites, Effect
<1>3. ASSUME NEW serious \in BOOLEAN, StatementFails(serious) PROVE MemoryKnown'
  BY <1>3 DEF StatementFails
<1>4. CASE DispatchReturns \/ DispatchErrs
  BY <1>4 DEF DispatchReturns, DispatchErrs, Changed, Effect
<1>5. CASE DispatchChangesMemory \/ DispatchPanics
  BY <1>5 DEF DispatchChangesMemory, DispatchPanics, Effect
<1>6. ASSUME NEW succeeds \in BOOLEAN, RollBack(succeeds) PROVE MemoryKnown'
  BY <1>6 DEF RollBack
<1>7. CASE CommitSucceeds
  BY <1>7 DEF CommitSucceeds, MayCommit, Persist
<1>8. CASE CommitRefused
  BY <1>8 DEF CommitRefused
<1>9. ASSUME NEW durable \in BOOLEAN, CommitUncertain(durable) PROVE MemoryKnown'
  BY <1>9 DEF CommitUncertain, MayCommit
<1>10. ASSUME NEW durable \in BOOLEAN, Close \/ Crash(durable) PROVE MemoryKnown'
  BY <1>10 DEF Close, Crash, Unload
<1>11. CASE ReplyGiven \/ RecoverFenced \/ RecoverFails \/ RetryRecover
  <2>1. CASE ReplyGiven
    <3>1. (tentative' <=> tentative) /\ (wrote' <=> wrote)
      BY <2>1, Zenon DEF ReplyGiven
    <3> QED
      BY <2>1, <3>1 DEF ReplyGiven
  <2>2. CASE RecoverFenced \/ RecoverFails \/ RetryRecover
    BY <2>2 DEF RecoverFenced, RecoverFails, RetryRecover
  <2> QED
    BY <1>11, <2>1, <2>2
<1>12. CASE RecoverCloses \/ RecoverAssembles
  BY <1>12 DEF RecoverCloses, RecoverAssembles
<1>13. CASE RecoverReopens \/ Reload
  <2>1. ownEpoch' = epoch + 1 /\ UNCHANGED <<log, rivalEpoch, wrote, tentative>>
    BY <1>13 DEF RecoverReopens, Reload, OpenFile
  <2>2. 1 <= ownEpoch' /\ ownEpoch' # rivalEpoch'
    BY <1>0, <2>1 DEF TypeOK, WriterIsCurrent
  <2>3. CASE RecoverReopens
    BY <2>1, <2>2, <2>3 DEF RecoverReopens
  <2>4. CASE Reload
    <3>1. (tentative' <=> tentative) /\ (wrote' <=> wrote)
      BY <2>4, Zenon DEF Reload
    <3> QED
      BY <2>1, <2>2, <2>4, <3>1 DEF Reload
  <2> QED
    BY <1>13, <2>3, <2>4
<1>14. CASE RivalOpens
  BY <1>0, <1>14 DEF RivalOpens, WriteLockFree, TypeOK, WriterIsCurrent
<1>15. CASE RivalCommits
  BY <1>0, <1>15 DEF RivalCommits, WriteLockFree, TypeOK
<1>16. CASE RivalCloses
  BY <1>0, <1>16 DEF RivalCloses, TypeOK, Effect
<1>17. CASE UNCHANGED vars
  BY <1>17 DEF vars, Effect
<1> QED
  BY <1>1, <1>2, <1>3, <1>4, <1>5, <1>6, <1>7, <1>8, <1>9, <1>10, <1>11, <1>12, <1>13,
     <1>14, <1>15, <1>16, <1>17 DEF Next

\* Whenever the next command may start, the assembled account is the committed
\* one, whatever failed before.
THEOREM MemoryNeverAhead == Spec => []MemoryIsCommitted
<1>1. Init => MemoryKnown
  BY DEF Init, MemoryKnown
<1>2. MemoryKnown => MemoryIsCommitted
  BY DEF MemoryKnown, MemoryIsCommitted
<1> QED
  BY <1>1, <1>2, InitIInv, NextIInv, MemoryStep, PTL DEF Spec

-----------------------------------------------------------------------------
(* Receipts *)

\* The command that may still commit has no receipt yet, and a success that is
\* about to be reported is in the file.
RequestKnown ==
  /\ phase \in {"dispatching", "committing"} =>
       command.id \in Exempt \/ command.id \notin DOMAIN receipts
  /\ phase \in {"idle", "closed"} => result = "none"
  /\ result = "ok" /\ position # 0 =>
       /\ position \in Positions /\ log[position].id = command.id
       /\ command.id \notin Exempt =>
            receipts[command.id] = [digest |-> command.digest, position |-> position]

ReceiptsKnown == RequestKnown /\ AppliedAtMostOnce

\* A step that changes neither the file nor what was reported.
LEMMA SameApplied ==
  ASSUME AppliedAtMostOnce, UNCHANGED <<log, receipts, successes>>
  PROVE  AppliedAtMostOnce'
BY DEF AppliedAtMostOnce, Positions

\* One more effect.
LEMMA LogGrows ==
  ASSUME TypeOK, NEW e \in Entry, log' = Append(log, e)
  PROVE  /\ Positions' = Positions \cup {Len(log) + 1}
         /\ Len(log) + 1 \notin Positions
         /\ \A i \in Positions : log'[i] = log[i]
         /\ log'[Len(log) + 1] = e
<1>1. log \in Seq(Entry) /\ Len(log) \in Nat
  BY LogEpochs
<1> QED
  BY <1>1, AppendProperties DEF Positions

\* An effect whose receipt nobody looks for: of the other process, or of a
\* command that keeps none.
LEMMA ForeignEffect ==
  ASSUME TypeOK, AppliedAtMostOnce, NEW e \in Entry, e.id \in Exempt \cup {Rival},
         log' = Append(log, e), UNCHANGED <<receipts, successes>>
  PROVE  AppliedAtMostOnce'
<1>1. /\ Positions' = Positions \cup {Len(log) + 1}
      /\ \A i \in Positions : log'[i] = log[i]
      /\ log'[Len(log) + 1] = e
  BY LogGrows
<1>2. {log'[i].id : i \in Positions'} = {log[i].id : i \in Positions} \cup {e.id}
  BY <1>1
<1>3. DOMAIN receipts' = {log'[i].id : i \in Positions'} \ (Exempt \cup {Rival})
  BY <1>2 DEF AppliedAtMostOnce
<1>4. ASSUME NEW i \in Positions', NEW j \in Positions', log'[i].id = log'[j].id
      PROVE  i = j \/ log'[i].id \in Exempt \cup {Rival}
  <2>1. CASE i \in Positions /\ j \in Positions
    <3>1. log[i].id = log[j].id => i = j \/ log[i].id \in Exempt \cup {Rival}
      BY <2>1 DEF AppliedAtMostOnce
    <3> QED
      BY <1>1, <1>4, <2>1, <3>1
  <2>2. CASE ~(i \in Positions /\ j \in Positions)
    <3>1. log'[i].id = e.id
      BY <1>1, <1>4, <2>2
    <3> QED
      BY <3>1
  <2> QED
    BY <2>1, <2>2
<1>5. \A id \in DOMAIN receipts' :
        receipts'[id].position \in Positions' /\ log'[receipts'[id].position].id = id
  BY <1>1 DEF AppliedAtMostOnce
<1>6. \A r \in successes' :
        /\ r.position \in Positions'
        /\ log'[r.position].id = r.id
        /\ r.id \notin Exempt =>
             receipts'[r.id] = [digest |-> r.digest, position |-> r.position]
  BY <1>1 DEF AppliedAtMostOnce
<1> QED
  BY <1>3, <1>4, <1>5, <1>6 DEF AppliedAtMostOnce

\* The effect of a command, with its receipt.
LEMMA OwnEffect ==
  ASSUME TypeOK, AppliedAtMostOnce, NEW e \in Entry, NEW c \in Command, e.id = c.id,
         c.id \notin Exempt, c.id \notin DOMAIN receipts,
         log' = Append(log, e), UNCHANGED successes,
         receipts' = [id \in DOMAIN receipts \cup {c.id} |->
                        IF id = c.id THEN [digest |-> c.digest, position |-> Len(log) + 1]
                                     ELSE receipts[id]]
  PROVE  AppliedAtMostOnce'
<1>1. /\ Positions' = Positions \cup {Len(log) + 1}
      /\ \A i \in Positions : log'[i] = log[i]
      /\ log'[Len(log) + 1] = e
      /\ Len(log) + 1 \notin Positions
  BY LogGrows
<1>2. c.id \in Identities /\ c.id # Rival
  BY ExecutionAssumption DEF Command
<1>3. \A i \in Positions : log[i].id # c.id
  BY <1>2 DEF AppliedAtMostOnce
<1>4. {log'[i].id : i \in Positions'} = {log[i].id : i \in Positions} \cup {c.id}
  BY <1>1
<1>5. DOMAIN receipts' = {log'[i].id : i \in Positions'} \ (Exempt \cup {Rival})
  <2>1. DOMAIN receipts' = DOMAIN receipts \cup {c.id}
    BY Zenon
  <2>2. c.id \notin Exempt \cup {Rival}
    BY <1>2
  <2>3. DOMAIN receipts = {log[i].id : i \in Positions} \ (Exempt \cup {Rival})
    BY DEF AppliedAtMostOnce
  <2> QED
    BY <1>4, <2>1, <2>2, <2>3
<1>6. ASSUME NEW i \in Positions', NEW j \in Positions', log'[i].id = log'[j].id
      PROVE  i = j \/ log'[i].id \in Exempt \cup {Rival}
  <2>1. CASE i \in Positions /\ j \in Positions
    <3>1. log[i].id = log[j].id => i = j \/ log[i].id \in Exempt \cup {Rival}
      BY <2>1 DEF AppliedAtMostOnce
    <3> QED
      BY <1>1, <1>6, <2>1, <3>1
  <2>2. CASE ~(i \in Positions /\ j \in Positions)
    <3>1. \/ i = Len(log) + 1 /\ log'[j].id = c.id
          \/ j = Len(log) + 1 /\ log'[i].id = c.id
      BY <1>1, <1>6, <2>2
    <3>2. i = Len(log) + 1 /\ j = Len(log) + 1
      BY <1>1, <1>3, <1>6, <3>1
    <3> QED
      BY <3>2
  <2> QED
    BY <2>1, <2>2
<1>7. ASSUME NEW id \in DOMAIN receipts'
      PROVE  receipts'[id].position \in Positions' /\ log'[receipts'[id].position].id = id
  <2>1. CASE id = c.id
    BY <1>1, <2>1
  <2>2. CASE id # c.id
    BY <1>1, <2>2 DEF AppliedAtMostOnce
  <2> QED
    BY <2>1, <2>2
<1>8. ASSUME NEW r \in successes'
      PROVE  /\ r.position \in Positions'
             /\ log'[r.position].id = r.id
             /\ r.id \notin Exempt =>
                  receipts'[r.id] = [digest |-> r.digest, position |-> r.position]
  <2>0. /\ r.position \in Positions /\ log[r.position].id = r.id
        /\ r.id \notin Exempt =>
             receipts[r.id] = [digest |-> r.digest, position |-> r.position]
    <3>1. r \in successes
      BY <1>8
    <3> QED
      BY <3>1 DEF AppliedAtMostOnce
  <2>1. r.id # c.id
    BY <1>3, <2>0
  <2>2. r.id \notin Exempt => r.id \in DOMAIN receipts
    <3>1. r.id # Rival
      BY ExecutionAssumption DEF TypeOK, Success
    <3> QED
      BY <2>0, <3>1 DEF AppliedAtMostOnce
  <2>3. r.id \notin Exempt => receipts'[r.id] = receipts[r.id]
    BY <2>1, <2>2
  <2> QED
    BY <1>1, <2>0, <2>3
<1> QED
  BY <1>5, <1>6, <1>7, <1>8 DEF AppliedAtMostOnce

\* A commit keeps the receipts exact, and its command's position is the new one.
LEMMA PersistApplied ==
  ASSUME IInv, ReceiptsKnown, MayCommit, Persist, UNCHANGED successes
  PROVE  /\ AppliedAtMostOnce'
         /\ wrote => /\ Len(log) + 1 \in Positions' /\ log'[Len(log) + 1].id = command.id
                     /\ command.id \notin Exempt =>
                          receipts'[command.id] = [digest |-> command.digest,
                                                   position |-> Len(log) + 1]
<1>1. TypeOK /\ command \in Command
  BY DEF IInv, CommandKnown, MayCommit
<1>2. CASE ~wrote
  BY <1>2, SameApplied DEF Persist, ReceiptsKnown
<1>3. CASE wrote
  <2>1. Effect \in Entry /\ Effect.id = command.id
    BY <1>1, EffectType DEF Effect
  <2>2. log' = Append(log, Effect) /\ receipts' = WithReceipt
    BY <1>3 DEF Persist
  <2>3. Len(log) + 1 \in Positions' /\ log'[Len(log) + 1].id = command.id
    BY <1>1, <2>1, <2>2, LogGrows
  <2>4. CASE command.id \in Exempt
    BY <1>1, <2>1, <2>2, <2>3, <2>4, ForeignEffect DEF WithReceipt, ReceiptsKnown
  <2>5. CASE command.id \notin Exempt
    <3>1. command.id \notin DOMAIN receipts
      BY <2>5 DEF ReceiptsKnown, RequestKnown, MayCommit
    <3>2. receipts' = [id \in DOMAIN receipts \cup {command.id} |->
                         IF id = command.id
                         THEN [digest |-> command.digest, position |-> Len(log) + 1]
                         ELSE receipts[id]]
      BY <2>2, <2>5 DEF WithReceipt
    <3>3. AppliedAtMostOnce'
      BY <1>1, <2>1, <2>2, <2>5, <3>1, <3>2, OwnEffect DEF ReceiptsKnown
    <3> QED
      BY <2>3, <3>2, <3>3
  <2> QED
    BY <2>4, <2>5
<1> QED
  BY <1>2, <1>3

\* What is reported was done.
LEMMA ReplyApplied ==
  ASSUME IInv, ReceiptsKnown, UNCHANGED <<log, receipts>>, GiveReply
  PROVE  AppliedAtMostOnce' /\ result' = "none"
<1>1. CASE result = "ok" /\ position # 0
  <2> DEFINE s == [id |-> command.id, digest |-> command.digest, position |-> position]
  <2>1. successes' = successes \cup {s}
    BY <1>1 DEF GiveReply
  <2>2. /\ s.position \in Positions /\ log[s.position].id = s.id
        /\ s.id \notin Exempt => receipts[s.id] = [digest |-> s.digest, position |-> s.position]
    BY <1>1 DEF ReceiptsKnown, RequestKnown
  <2> HIDE DEF s
  <2>3. AppliedAtMostOnce'
    BY <2>1, <2>2 DEF ReceiptsKnown, AppliedAtMostOnce, Positions
  <2> QED
    BY <2>3 DEF GiveReply
<1>2. CASE ~(result = "ok" /\ position # 0)
  <2>1. UNCHANGED successes
    BY <1>2 DEF GiveReply
  <2> QED
    BY <2>1, SameApplied DEF ReceiptsKnown, GiveReply
<1> QED
  BY <1>1, <1>2

LEMMA ReceiptsStep ==
  ASSUME IInv, ReceiptsKnown, [Next]_vars
  PROVE  ReceiptsKnown'
<1> USE DEF ReceiptsKnown, fileVars, txVars, commandVars
<1>0. TypeOK /\ CommandKnown
  BY DEF IInv
<1>1. ASSUME NEW c \in Command, BeginFails(c) \/ BeginAnswered(c) \/ BeginDispatch(c)
      PROVE  ReceiptsKnown'
  <2>1. AppliedAtMostOnce'
    BY <1>1, SameApplied DEF BeginFails, BeginAnswered, BeginDispatch
  <2>2. CASE BeginFails(c)
    BY <2>1, <2>2 DEF BeginFails, RequestKnown
  <2>3. CASE BeginDispatch(c)
    BY <2>1, <2>3 DEF BeginDispatch, CanBegin, HasReceipt, RequestKnown, Positions
  <2>4. CASE BeginAnswered(c)
    <3>1. c.id \notin Exempt /\ c.id \in DOMAIN receipts /\ receipts[c.id] \in Receipt
      BY <1>0, <2>4 DEF BeginAnswered, HasReceipt, TypeOK
    <3>2. receipts[c.id] = [digest |-> receipts[c.id].digest, position |-> receipts[c.id].position]
      BY <3>1 DEF Receipt
    <3>3. receipts[c.id].position \in Positions /\ log[receipts[c.id].position].id = c.id
      BY <3>1 DEF AppliedAtMostOnce
    <3> QED
      BY <2>1, <2>4, <3>1, <3>2, <3>3 DEF BeginAnswered, SameBody, RequestKnown, Positions
  <2> QED
    BY <1>1, <2>2, <2>3, <2>4
<1>2. CASE DispatchWrites \/ DispatchReturns \/ DispatchErrs \/ DispatchChangesMemory \/ DispatchPanics
  <2>1. AppliedAtMostOnce'
    BY <1>2, SameApplied
    DEF DispatchWrites, DispatchReturns, DispatchErrs, DispatchChangesMemory, DispatchPanics
  <2> QED
    BY <1>2, <2>1 DEF DispatchWrites, DispatchReturns, DispatchErrs, DispatchChangesMemory,
       DispatchPanics, RequestKnown, Positions
<1>3. ASSUME NEW serious \in BOOLEAN, StatementFails(serious) PROVE ReceiptsKnown'
  BY <1>3, SameApplied DEF StatementFails, RequestKnown, Positions
<1>4. ASSUME NEW succeeds \in BOOLEAN, RollBack(succeeds) PROVE ReceiptsKnown'
  BY <1>4, SameApplied DEF RollBack, RequestKnown, Positions
<1>5. CASE CommitSucceeds
  <2>1. /\ AppliedAtMostOnce'
        /\ wrote => /\ Len(log) + 1 \in Positions' /\ log'[Len(log) + 1].id = command.id
                    /\ command.id \notin Exempt =>
                         receipts'[command.id] = [digest |-> command.digest,
                                                  position |-> Len(log) + 1]
    BY <1>5, PersistApplied DEF CommitSucceeds
  <2>2. /\ phase' = "replying" /\ UNCHANGED command
        /\ position' = IF wrote THEN Len(log) + 1 ELSE 0
    BY <1>5 DEF CommitSucceeds
  <2> QED
    BY <2>1, <2>2 DEF RequestKnown
<1>6. CASE CommitRefused
  BY <1>6, SameApplied DEF CommitRefused, RequestKnown
<1>7. ASSUME NEW durable \in BOOLEAN, CommitUncertain(durable) \/ Crash(durable)
      PROVE  ReceiptsKnown'
  <2>1. /\ UNCHANGED successes /\ phase' \notin {"dispatching", "committing"} /\ result' # "ok"
        /\ phase' \in {"idle", "closed"} => result' = "none"
    BY <1>7 DEF CommitUncertain, Crash, Unload
  <2>2. (MayCommit /\ Persist) \/ UNCHANGED <<log, receipts>>
    BY <1>7 DEF CommitUncertain, Crash
  <2>3. AppliedAtMostOnce'
    BY <2>1, <2>2, PersistApplied, SameApplied
  <2> QED
    BY <2>1, <2>3 DEF RequestKnown
<1>8. CASE ReplyGiven \/ RecoverFenced \/ RecoverFails
  <2>1. GiveReply /\ UNCHANGED <<log, receipts>> /\ phase' \notin {"dispatching", "committing"}
    BY <1>8 DEF ReplyGiven, RecoverFenced, RecoverFails
  <2> QED
    BY <2>1, ReplyApplied DEF RequestKnown
<1>9. CASE RecoverCloses \/ RecoverReopens \/ RecoverAssembles \/ RetryRecover \/ Reload
  <2>1. /\ UNCHANGED <<log, receipts, successes, command, result, position>>
        /\ phase' \notin {"dispatching", "committing"}
    BY <1>9 DEF RecoverCloses, RecoverReopens, RecoverAssembles, RetryRecover, Reload
  <2>2. phase' \in {"idle", "closed"} => result = "none"
    BY <1>0, <1>9, NoCommandAssumption
    DEF RecoverCloses, RecoverReopens, RecoverAssembles, RetryRecover, Reload, CommandKnown,
        RequestKnown
  <2> QED
    BY <2>1, <2>2, SameApplied DEF RequestKnown, Positions
<1>10. CASE Close
  BY <1>10, SameApplied DEF Close, Unload, RequestKnown
<1>11. CASE RivalOpens \/ RivalCloses
  BY <1>11, SameApplied DEF RivalOpens, RivalCloses, RequestKnown, Positions
<1>12. CASE RivalCommits
  <2> DEFINE e == [id |-> Rival, epoch |-> rivalEpoch]
  <2>1. e \in Entry /\ e.id = Rival
    BY <1>0 DEF TypeOK, Entry
  <2>2. log' = Append(log, e) /\ UNCHANGED <<receipts, successes, phase, command, result, position>>
    BY <1>12 DEF RivalCommits
  <2> HIDE DEF e
  <2>3. AppliedAtMostOnce'
    BY <1>0, <2>1, <2>2, ForeignEffect
  <2>4. Positions \subseteq Positions' /\ \A i \in Positions : log'[i] = log[i]
    BY <1>0, <2>1, <2>2, LogGrows
  <2> QED
    BY <2>2, <2>3, <2>4 DEF RequestKnown
<1>13. CASE UNCHANGED vars
  BY <1>13, SameApplied DEF vars, RequestKnown, Positions
<1> QED
  BY <1>1, <1>2, <1>3, <1>4, <1>5, <1>6, <1>7, <1>8, <1>9, <1>10, <1>11, <1>12, <1>13 DEF Next

LEMMA InitReceipts == Init => ReceiptsKnown
<1> SUFFICES ASSUME Init PROVE ReceiptsKnown
  OBVIOUS
<1>1. DOMAIN receipts = {}
  BY Zenon DEF Init
<1>2. log = <<>> /\ Positions = {} /\ successes = {} /\ result = "none" /\ phase = "idle"
  BY DEF Init, Positions
<1> QED
  BY <1>1, <1>2 DEF ReceiptsKnown, RequestKnown, AppliedAtMostOnce

\* A request takes effect at most once over retries, uncertain commits, crashes
\* and reloads, and every success that was reported is in the file for good.
THEOREM AppliedOnce == Spec => []AppliedAtMostOnce
<1>1. ReceiptsKnown => AppliedAtMostOnce
  BY DEF ReceiptsKnown
<1> QED
  BY <1>1, InitIInv, NextIInv, InitReceipts, ReceiptsStep, PTL DEF Spec

-----------------------------------------------------------------------------
(* The executor implements ExactlyOnce *)

Applied == [id \in DOMAIN receipts |-> receipts[id].digest]

Acknowledged == {<<r.id, r.digest>> : r \in {x \in successes : x.id \notin Exempt}}

\* The receipt of one more request is the step Apply of the promise.
LEMMA ReceiptApplies ==
  ASSUME IInv, ReceiptsKnown, MayCommit, Persist, UNCHANGED successes
  PROVE  [Promise!Apply]_(Promise!vars)
<1>1. command \in Command
  BY DEF IInv, CommandKnown, MayCommit
<1>2. CASE UNCHANGED receipts
  BY <1>2 DEF Promise!vars
<1>3. CASE ~(UNCHANGED receipts)
  <2>1. command.id \notin Exempt /\ receipts' = WithReceipt
    BY <1>3 DEF Persist, WithReceipt
  <2>2. command.id \in Identities \ Exempt /\ command.digest \in Digests
    BY <1>1, <2>1 DEF Command
  <2>3. command.id \notin DOMAIN receipts
    BY <2>1 DEF ReceiptsKnown, RequestKnown, MayCommit
  <2>4. receipts' = [id \in DOMAIN receipts \cup {command.id} |->
                       IF id = command.id
                       THEN [digest |-> command.digest, position |-> Len(log) + 1]
                       ELSE receipts[id]]
    BY <2>1 DEF WithReceipt
  <2>5. DOMAIN receipts' = DOMAIN receipts \cup {command.id}
    BY <2>4, Zenon
  <2>6. [id \in DOMAIN receipts' |-> receipts'[id].digest] =
          [x \in DOMAIN receipts \cup {command.id} |->
             IF x = command.id THEN command.digest ELSE receipts[x].digest]
    BY <2>4, <2>5
  <2>7. Applied' = [x \in DOMAIN Applied \cup {command.id} |->
                      IF x = command.id THEN command.digest ELSE Applied[x]]
    BY <2>3, <2>6 DEF Applied
  <2>8. DOMAIN Applied = DOMAIN receipts
    BY DEF Applied
  <2>9. \E r \in (Identities \ Exempt) \ DOMAIN Applied, b \in Digests :
          Applied' = [x \in DOMAIN Applied \cup {r} |-> IF x = r THEN b ELSE Applied[x]]
    BY <2>2, <2>3, <2>7, <2>8
  <2> QED
    BY <2>9 DEF Applied, Promise!Apply
<1> QED
  BY <1>2, <1>3

\* A reported success is the step Acknowledge of the promise.
LEMMA ReplyAcknowledges ==
  ASSUME IInv, ReceiptsKnown, UNCHANGED <<log, receipts>>, GiveReply
  PROVE  [Promise!Acknowledge]_(Promise!vars)
<1>1. CASE result = "ok" /\ position # 0 /\ command.id \notin Exempt
  <2> DEFINE s == [id |-> command.id, digest |-> command.digest, position |-> position]
  <2>1. successes' = successes \cup {s}
    BY <1>1 DEF GiveReply
  <2>2. Acknowledged' = Acknowledged \cup {<<command.id, command.digest>>}
    <3>1. s.id = command.id /\ s.digest = command.digest
      OBVIOUS
    <3> HIDE DEF s
    <3>2. {x \in successes' : x.id \notin Exempt} = {x \in successes : x.id \notin Exempt} \cup {s}
      BY <1>1, <2>1, <3>1
    <3>3. Acknowledged' = Acknowledged \cup {<<s.id, s.digest>>}
      BY <3>2 DEF Acknowledged
    <3> QED
      BY <3>1, <3>3
  <2>3. /\ log[position].id = command.id /\ position \in Positions
        /\ receipts[command.id] = [digest |-> command.digest, position |-> position]
    BY <1>1 DEF ReceiptsKnown, RequestKnown
  <2>4. command.id # Rival
    BY <1>1, ExecutionAssumption DEF IInv, CommandKnown, Command
  <2>5. command.id \in DOMAIN receipts
    BY <1>1, <2>3, <2>4 DEF ReceiptsKnown, AppliedAtMostOnce
  <2>6. Applied[command.id] = command.digest /\ command.id \in DOMAIN Applied
    BY <2>3, <2>5 DEF Applied
  <2>7. \E r \in DOMAIN Applied : Acknowledged' = Acknowledged \cup {<<r, Applied[r]>>}
    BY <2>2, <2>6
  <2> QED
    BY <2>7 DEF Applied, Acknowledged, Promise!Acknowledge
<1>2. CASE ~(result = "ok" /\ position # 0 /\ command.id \notin Exempt)
  <2>1. Acknowledged' = Acknowledged
    <3>1. \A x : x.id \notin Exempt => (x \in successes' <=> x \in successes)
      BY <1>2 DEF GiveReply
    <3> QED
      BY <3>1 DEF Acknowledged
  <2> QED
    BY <2>1 DEF Acknowledged, Promise!vars
<1> QED
  BY <1>1, <1>2

LEMMA InitPromise == Init => Promise!Init
<1> SUFFICES ASSUME Init PROVE Promise!Init
  OBVIOUS
<1>1. DOMAIN receipts = {}
  BY Zenon DEF Init
<1>2. successes = {}
  BY DEF Init
<1> QED
  BY <1>1, <1>2 DEF Promise!Init

LEMMA PromiseStep ==
  ASSUME IInv, ReceiptsKnown, [Next]_vars
  PROVE  [Promise!Apply \/ Promise!Acknowledge]_(Promise!vars)
<1> USE DEF fileVars, txVars, commandVars
<1>1. UNCHANGED <<receipts, successes>> => UNCHANGED Promise!vars
  BY DEF Promise!vars
<1>2. CASE CommitSucceeds
  BY <1>2, ReceiptApplies DEF CommitSucceeds
<1>3. ASSUME NEW durable \in BOOLEAN, CommitUncertain(durable) \/ Crash(durable)
      PROVE  [Promise!Apply \/ Promise!Acknowledge]_(Promise!vars)
  <2>1. UNCHANGED successes /\ ((MayCommit /\ Persist) \/ UNCHANGED receipts)
    BY <1>3 DEF CommitUncertain, Crash, Unload
  <2> QED
    BY <1>1, <2>1, ReceiptApplies
<1>4. CASE ReplyGiven \/ RecoverFenced \/ RecoverFails
  <2>1. GiveReply /\ UNCHANGED <<log, receipts>>
    BY <1>4 DEF ReplyGiven, RecoverFenced, RecoverFails
  <2> QED
    BY <2>1, ReplyAcknowledges
<1>5. ASSUME NEW c \in Command, BeginFails(c) \/ BeginAnswered(c) \/ BeginDispatch(c)
      PROVE  UNCHANGED <<receipts, successes>>
  BY <1>5 DEF BeginFails, BeginAnswered, BeginDispatch
<1>6. CASE DispatchWrites \/ DispatchReturns \/ DispatchErrs \/ DispatchChangesMemory \/ DispatchPanics
  BY <1>1, <1>6
  DEF DispatchWrites, DispatchReturns, DispatchErrs, DispatchChangesMemory, DispatchPanics
<1>7. ASSUME NEW b \in BOOLEAN, StatementFails(b) \/ RollBack(b)
      PROVE  UNCHANGED <<receipts, successes>>
  BY <1>7 DEF StatementFails, RollBack
<1>8. CASE CommitRefused \/ Close
  BY <1>1, <1>8 DEF CommitRefused, Close, Unload
<1>9. CASE RecoverCloses \/ RecoverReopens \/ RecoverAssembles \/ RetryRecover \/ Reload
  BY <1>1, <1>9 DEF RecoverCloses, RecoverReopens, RecoverAssembles, RetryRecover, Reload
<1>10. CASE RivalOpens \/ RivalCommits \/ RivalCloses
  BY <1>1, <1>10 DEF RivalOpens, RivalCommits, RivalCloses
<1>11. CASE UNCHANGED vars
  BY <1>1, <1>11 DEF vars
<1> QED
  BY <1>1, <1>2, <1>3, <1>4, <1>5, <1>6, <1>7, <1>8, <1>9, <1>10, <1>11 DEF Next

\* The executor keeps the promise that a request of a client is applied at most
\* once and acknowledged only when it was.
THEOREM ExecutorKeepsPromise == Spec => ImplementsExactlyOnce
<1> QED
  BY InitPromise, InitIInv, NextIInv, InitReceipts, ReceiptsStep, PromiseStep, PTL
  DEF Spec, ImplementsExactlyOnce, Promise!Spec

=============================================================================
