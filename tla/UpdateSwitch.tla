---------------------------- MODULE UpdateSwitch ----------------------------
(***************************************************************************)
(* Unattended updates (platform/updates): a maintenance is scheduled,        *)
(* prepared, counted down and drains the server; the process that has closed *)
(* every store then either swaps the files of the program or selects another *)
(* set of schedules, and exits for the service manager to start it again.    *)
(* The next processes count their starts in the record the switch left,      *)
(* until one of them has stayed ready (success) or the switch is undone.     *)
(*                                                                          *)
(* The process may die at every step; what is on the disk is all that the    *)
(* next one knows.  One release is offered to the installed program.  The    *)
(* service manager restarts the process unless it was stopped or exited with *)
(* ExitNeedsOperator.  The download, the signatures, the backup's contents   *)
(* and the Docker host's side of the method are left out.                    *)
(*                                                                          *)
(* What the status reports of the last switch has a life of its own: the     *)
(* process that ends a switch writes it to the file, the running service     *)
(* writes the file again from its memory, and no write is certain.           *)
(***************************************************************************)
EXTENDS Naturals, Sequences, FiniteSets

CONSTANTS
  Entries,           \* top-level names of a server package, as ReadDir lists them
  Program, Versions, Fingerprint,  \* bd2server, versions.json, UPDATE_FINGERPRINT.json
  Bundled,           \* the names that the old installation has
  MaxStartAttempts,  \* maxStartAttempts
  Requests,          \* bound: maintenances in a behaviour
  MaxFaults,         \* bound: failures, crashes out of service, operator's starts
  None

Names == {Entries[i] : i \in 1..Len(Entries)}

ASSUME UpdateAssumption ==
  /\ Entries \in Seq(Names)
  /\ \A i, j \in 1..Len(Entries) : Entries[i] = Entries[j] => i = j
  /\ {Program, Versions} \subseteq Bundled
  /\ Bundled \cup {Fingerprint} \subseteq Names
  /\ MaxStartAttempts \in Nat /\ MaxFaults \in Nat

Components == {"server", "schedules"}
Owned == {"old", "new", None}       \* whose an entry or a selection is

\* The records on the disk, a maintenance and the plan it ends with.
Mark == [attempts : Nat]
ScheduleMark == [attempts : Nat, previous : Owned]
Maintenance == [run : Requests, component : Components,
                phase : {"preparing", "countdown", "closing"}]
Plan == [run : Requests, component : Components]

Outcomes == {"succeeded", "rolled_back", "switch_failed", "needs_operator", "restarting",
             "cancelled", None}
Reports == [Components -> Outcomes]

ASSUME NoneAssumption ==
  /\ None \notin Requests \cup Components \cup {"old", "new", "succeeded"}
  /\ None \notin Mark /\ None \notin ScheduleMark
  /\ None \notin Maintenance /\ None \notin Plan /\ None \notin Reports

Places == {"down", "stopped", "held",              \* no process
           "starting", "opening", "serving", "draining",
           "switching", "aside", "placing", "recording",   \* Plan.execute
           "selecting", "reporting",                       \* switchSchedules
           "removing", "bringing", "unmarking", "announcing", \* rollBack, restore
           "reverting", "reverted"}                        \* rollbackSchedules

VARIABLES
  \* the disk
  installed, rollback,         \* which program a name belongs to, None if absent
  pending,                     \* pendingFile: its Attempts
  saves,                       \* the program whose layout the saves have
  selection, schedulePending,
  result,                      \* LastResult of a component, as ReadStatus shows it
  \* the process
  at, step, failed,            \* failed: this restore has had a failure
  exe, confirm, settled, stopping,
  known,                       \* Service.status: the LastResult of a component in memory
  maintenance, runs, cancelled, plan,
  \* the world
  release, origin,             \* kind of release; schedules selected at first
  starts,                      \* starts of the new program since it was placed
  healthy,                     \* whose new version was found healthy and not undone since
  torn,                        \* windows in which a process died or failed
  faults

program == <<installed, rollback, pending, saves>>
schedules == <<selection, schedulePending>>
reports == <<result, known>>
control == <<maintenance, runs, cancelled, plan>>
process == <<at, step, failed, exe, confirm, settled, stopping>>
world == <<release, origin>>
trial == <<starts, healthy>>
vars == <<program, schedules, reports, control, process, world, trial, torn, faults>>

TypeOK ==
  /\ installed \in [Names -> Owned] /\ rollback \in [Names -> Owned]
  /\ pending \in {None} \cup Mark
  /\ result \in Reports /\ known \in {None} \cup Reports
  /\ saves \in {"old", "new"}
  /\ selection \in Owned
  /\ schedulePending \in {None} \cup ScheduleMark
  /\ at \in Places /\ step \in 1..(Len(Entries) + 1)
  /\ failed \in BOOLEAN /\ stopping \in BOOLEAN
  /\ exe \in Owned /\ confirm \in Components \cup {None}
  /\ settled \in {"no", "half", "yes"}
  /\ maintenance \in {None} \cup Maintenance
  /\ runs \in [Requests -> {"none", "preparing", "waiting", "done"}]
  /\ cancelled \subseteq Requests
  /\ plan \in {None} \cup Plan
  /\ release \in [irreversible : BOOLEAN, sameVersion : BOOLEAN, fingerprinted : BOOLEAN]
  /\ origin \in {None, "old"}
  /\ starts \in Nat /\ healthy \subseteq Components /\ faults \in 0..MaxFaults
  /\ torn \subseteq {"swap", "restore", "record"}

\* What the old installation has under a name.
Original == [n \in Names |-> IF n \in Bundled THEN "old" ELSE None]

Init ==
  /\ installed = Original /\ rollback = [n \in Names |-> None]
  /\ pending = None /\ saves = "old"
  /\ result = [c \in Components |-> None] /\ known = None
  /\ at = "down" /\ step = 1 /\ failed = FALSE
  /\ exe = None /\ confirm = None /\ settled = "no" /\ stopping = FALSE
  /\ maintenance = None /\ cancelled = {} /\ plan = None
  /\ runs = [r \in Requests |-> "none"]
  \* a release of the running version is told by its fingerprint
  /\ release \in {k \in [irreversible : BOOLEAN, sameVersion : BOOLEAN, fingerprinted : BOOLEAN] :
                    k.sameVersion => k.fingerprinted}
  /\ origin \in {None, "old"}
  /\ selection = origin /\ schedulePending = None
  /\ starts = 0 /\ healthy = {} /\ torn = {} /\ faults = 0

Fault == faults < MaxFaults /\ faults' = faults + 1

Tear(window) == torn' = torn \cup {window}

-----------------------------------------------------------------------------
(* The report of the last switch; a write of it that fails is only logged *)

Written(status) == {status} \cup (IF faults < MaxFaults THEN {result} ELSE {})

\* The process that ends a switch writes its outcome to the file alone.
Report(component, outcome) == result' \in Written([result EXCEPT ![component] = outcome])

\* persistLocked: the file is written again from the memory of the service.
\* The schedules' outcomes are merged by their time, so the later one stays.
Persisted == result' \in Written(known')

-----------------------------------------------------------------------------
(* The process's life *)

Running == at \notin {"down", "stopped", "held"}

\* The process is gone; its maintenance goroutines with it.
Exit(place) ==
  /\ at' = place
  /\ step' = 1 /\ failed' = FALSE
  /\ exe' = None /\ confirm' = None /\ settled' = "no" /\ stopping' = FALSE
  /\ known' = None
  /\ maintenance' = None /\ plan' = None /\ cancelled' = cancelled
  /\ runs' = [r \in Requests |-> IF runs[r] = "none" THEN "none" ELSE "done"]

\* Restart=always, unless the service itself was stopped.
Ended == IF stopping THEN "stopped" ELSE "down"

Goto(place) == at' = place /\ UNCHANGED <<step, failed, exe, confirm, settled, stopping>>

\* The manager can run what is installed, and main finds versions.json.
Boot ==
  /\ at = "down"
  /\ installed[Program] # None /\ installed[Versions] # None
  /\ at' = "starting" /\ exe' = installed[Program]
  /\ UNCHANGED <<step, failed, confirm, settled, stopping, program, schedules, reports, control,
                 world, trial, torn, faults>>

OperatorStarts ==
  /\ at \in {"stopped", "held"}
  /\ Fault
  /\ Goto("down")
  /\ UNCHANGED <<program, schedules, reports, control, world, trial, torn>>

\* Windows that a death at this point leaves half done.
Window ==
  CASE at = "recording" \/ (at \in {"aside", "placing"} /\ installed # Original) -> {"swap"}
    [] at \in {"removing", "bringing"} -> {"restore"}
    [] at = "unmarking" /\ release.sameVersion -> {"restore"}
    [] OTHER -> {}

\* A process that has opened may die any number of times.
Crash ==
  /\ Running
  /\ IF at \in {"opening", "serving", "draining"} THEN faults' = faults ELSE Fault
  /\ torn' = torn \cup Window
  /\ Exit("down")
  /\ UNCHANGED <<program, schedules, result, world, trial>>

\* Run at its start, a check, a webhook, a download or a control request saves
\* the status; a check that was in progress may still do so after the drain.
Persist ==
  /\ known # None
  /\ UNCHANGED known
  /\ Persisted
  /\ UNCHANGED <<program, schedules, control, process, world, trial, torn, faults>>

-----------------------------------------------------------------------------
(* Undoing a switch of the program: rollBack and restore *)

\* An irreversible migration leaves the record and asks the operator.
RollBack ==
  IF release.irreversible
  THEN /\ Report("server", "needs_operator")
       /\ Exit("held")
       /\ UNCHANGED <<program, healthy>>
  ELSE /\ at' = "removing" /\ step' = 1 /\ failed' = FALSE
       /\ healthy' = healthy \ {"server"}
       /\ UNCHANGED <<exe, confirm, settled, stopping, program, reports, control>>

Entry == Entries[step]

RemoveInstalled(ok) ==
  /\ at = "removing" /\ step <= Len(Entries)
  /\ IF ok
     THEN installed' = [installed EXCEPT ![Entry] = None] /\ UNCHANGED <<failed, faults>>
     ELSE Fault /\ failed' = TRUE /\ UNCHANGED installed
  /\ at' = "bringing"
  /\ UNCHANGED <<step, exe, confirm, settled, stopping, rollback, pending, saves,
                 schedules, reports, control, world, trial, torn>>

\* An entry that is not in the rollback directory is not an error.
BringBack(ok) ==
  /\ at = "bringing"
  /\ IF ~ok
     THEN Fault /\ failed' = TRUE /\ UNCHANGED <<installed, rollback>>
     ELSE /\ UNCHANGED <<failed, faults>>
          /\ rollback' = [rollback EXCEPT ![Entry] = None]
          /\ installed' = IF rollback[Entry] = None THEN installed
                          ELSE [installed EXCEPT ![Entry] = rollback[Entry]]
  /\ at' = "removing" /\ step' = step + 1
  /\ UNCHANGED <<exe, confirm, settled, stopping, pending, saves,
                 schedules, reports, control, world, trial, torn>>

\* restore returns: to execute, whose record could not be written, or to rollBack.
Restored ==
  /\ at = "removing" /\ step > Len(Entries)
  /\ torn' = IF failed THEN torn \cup {"restore"} ELSE torn
  /\ CASE pending = None -> Report("server", "switch_failed") /\ Exit(Ended)
       [] pending # None /\ failed -> Report("server", "needs_operator") /\ Exit("held")
       [] OTHER -> Goto("unmarking") /\ UNCHANGED <<reports, control>>
  /\ UNCHANGED <<program, schedules, world, trial, faults>>

\* A record that is not removed stays: one of a program restored under the same
\* version number would have it restored again, out of an empty rollback.
Unmark(ok) ==
  /\ at = "unmarking"
  /\ IF ok THEN pending' = None /\ UNCHANGED <<torn, faults>>
           ELSE Fault /\ torn' = torn \cup Window /\ UNCHANGED pending
  /\ Goto("announcing")
  /\ UNCHANGED <<installed, rollback, saves, schedules, reports, control, world, trial>>

Announce ==
  /\ at = "announcing"
  /\ Report("server", "rolled_back")
  /\ Exit(Ended)
  /\ UNCHANGED <<program, schedules, world, trial, torn, faults>>

(* rollbackSchedules: the selection first, then the record *)
Revert ==
  /\ at = "reverting"
  /\ selection' = schedulePending.previous
  /\ healthy' = healthy \ {"schedules"}
  /\ Goto("reverted")
  /\ UNCHANGED <<schedulePending, reports, program, control, world, starts, torn, faults>>

RevertFails ==
  /\ at \in {"reverting", "reverted"}
  /\ Fault
  /\ Exit("held")
  /\ UNCHANGED <<program, schedules, result, world, trial, torn>>

Reverted ==
  /\ at = "reverted"
  /\ schedulePending' = None
  /\ Report("schedules", "rolled_back")
  /\ Exit(Ended)
  /\ UNCHANGED <<selection, program, world, trial, torn, faults>>

-----------------------------------------------------------------------------
(* Startup *)

\* The version a process reads next to its executable is the release's.
RunsTarget == release.sameVersion \/ installed[Versions] = "new"

Proceed(component) ==
  /\ at' = "opening" /\ confirm' = component
  /\ UNCHANGED <<step, failed, exe, settled, stopping>>

\* The process died between the record and the selection, or after it was restored.
ForgetSchedules ==
  /\ at = "starting" /\ schedulePending # None
  /\ selection = schedulePending.previous
  /\ schedulePending' = None
  /\ UNCHANGED <<selection, reports, program, control, process, world, trial, torn, faults>>

JudgeSchedules ==
  /\ at = "starting" /\ schedulePending # None
  /\ selection # schedulePending.previous
  /\ IF schedulePending.attempts < MaxStartAttempts
     THEN /\ schedulePending' = [schedulePending EXCEPT !.attempts = @ + 1]
          /\ Proceed("schedules")
     ELSE Goto("reverting") /\ UNCHANGED schedulePending
  /\ UNCHANGED <<selection, reports, program, control, world, trial, torn, faults>>

\* No record, or a stale one; the error of its removal is ignored.
StartPlainly(ok) ==
  /\ at = "starting" /\ schedulePending = None
  /\ pending = None \/ ~RunsTarget
  /\ IF ok THEN pending' = None /\ UNCHANGED <<torn, faults>>
           ELSE pending # None /\ Fault /\ Tear("record") /\ UNCHANGED pending
  /\ Proceed(None)
  /\ UNCHANGED <<installed, rollback, saves, schedules, reports, control, world, trial>>

Acceptable ==
  /\ release.fingerprinted => installed[Fingerprint] = "new"
  /\ pending.attempts < MaxStartAttempts

\* Mutant: the attempt is not saved before the stores are opened.
CountLater ==
  /\ at = "starting" /\ schedulePending = None /\ pending # None /\ RunsTarget
  /\ Acceptable
  /\ starts' = starts + 1
  /\ Proceed("server")
  /\ UNCHANGED <<program, schedules, reports, control, world, healthy, torn, faults>>

CountStart ==
  /\ at = "starting" /\ schedulePending = None /\ pending # None /\ RunsTarget
  /\ Acceptable
  /\ pending' = [pending EXCEPT !.attempts = @ + 1]
  /\ starts' = starts + 1
  /\ Proceed("server")
  /\ UNCHANGED <<installed, rollback, saves, schedules, reports, control, world, healthy, torn, faults>>

\* The attempt cannot be saved, or the record of the schedules not removed: the
\* process does not start.
CountFails ==
  /\ at = "starting"
  /\ schedulePending # None \/ (pending # None /\ RunsTarget)
  /\ Fault
  /\ Exit(IF schedulePending # None /\ selection # schedulePending.previous THEN "held" ELSE Ended)
  /\ UNCHANGED <<program, schedules, result, world, trial, torn>>

\* Mutant: a version without attempts left is refused, and stays installed.
Refuse ==
  /\ at = "starting" /\ schedulePending = None /\ pending # None /\ RunsTarget
  /\ ~Acceptable
  /\ Exit(Ended)
  /\ UNCHANGED <<program, schedules, result, world, trial, torn, faults>>

GiveUp ==
  /\ at = "starting" /\ schedulePending = None /\ pending # None /\ RunsTarget
  /\ ~Acceptable
  /\ RollBack
  /\ UNCHANGED <<schedules, world, starts, torn, faults>>

-----------------------------------------------------------------------------
(* Serve: open the stores, serve, drain *)

\* Opening the stores brings the saves to the layout of the program.
Migrate ==
  /\ at = "opening" /\ exe = "new" /\ release.irreversible
  /\ saves' = "new"
  /\ UNCHANGED <<installed, rollback, pending, schedules, reports, control, process, world,
                 trial, torn, faults>>

\* New takes the last results from the file, once.
Opened ==
  /\ at = "opening"
  /\ exe = "new" /\ release.irreversible => saves = "new"
  /\ known' = result
  /\ Goto("serving")
  /\ UNCHANGED <<program, schedules, result, control, world, trial, torn, faults>>

\* Confirmation.Failed, when Serve returns an error; it waits for c.mu.
Failed ==
  /\ settled # "half"
  /\ CASE confirm = "server" /\ settled = "no" -> RollBack
       [] confirm = "schedules" /\ settled = "no" ->
            Goto("reverting") /\ UNCHANGED <<control, program, reports, healthy>>
       [] OTHER -> Exit(Ended) /\ UNCHANGED <<program, result, healthy>>
  /\ UNCHANGED <<schedules, world, starts, torn>>

\* A store, the configuration or a listener fails; or the drain does.
ServeFails ==
  /\ at \in {"opening", "serving", "draining"}
  /\ Fault
  /\ Failed

\* observeHealthy: the process has stayed ready; under c.mu until Confirm.  The
\* service takes the schedules' outcome over from its file, not the server's.
Settle ==
  /\ at = "serving" /\ confirm # None /\ settled = "no"
  /\ settled' = "half"
  /\ healthy' = healthy \cup {confirm}
  /\ Report(confirm, "succeeded")
  /\ known' = [known EXCEPT !["schedules"] = IF confirm = "schedules" THEN result'["schedules"] ELSE @]
  /\ UNCHANGED <<program, schedules, control, at, step, failed, exe, confirm, stopping, world,
                 starts, torn, faults>>

\* The record of what is on trial is removed; an error of the removal is ignored.
Unrecord(ok) ==
  /\ IF ok /\ confirm = "server" THEN pending' = None ELSE UNCHANGED pending
  /\ IF ok /\ confirm = "schedules" THEN schedulePending' = None ELSE UNCHANGED schedulePending
  /\ IF ok THEN UNCHANGED <<torn, faults>> ELSE Fault /\ Tear("record")

\* Mutant: the record is removed before the process has stayed ready.
ConfirmEarly(ok) ==
  /\ at \in {"serving", "draining"} /\ confirm # None /\ settled # "yes"
  /\ settled' = "yes"
  /\ Unrecord(ok)
  /\ UNCHANGED <<installed, rollback, saves, selection, reports, control,
                 at, step, failed, exe, confirm, stopping, world, trial>>

Confirm(ok) ==
  /\ at \in {"serving", "draining"} /\ settled = "half"
  /\ settled' = "yes"
  /\ Unrecord(ok)
  /\ UNCHANGED <<installed, rollback, saves, selection, reports, control,
                 at, step, failed, exe, confirm, stopping, world, trial>>

Signal ==
  /\ at \in {"serving", "draining"} /\ ~stopping
  /\ at' = "draining" /\ stopping' = TRUE
  /\ UNCHANGED <<step, failed, exe, confirm, settled, program, schedules, reports, control, world,
                 trial, torn, faults>>

\* Every store is closed.  A plan is executed even if a signal began the drain;
\* the process does not wait for a confirmation in progress.
Drained ==
  /\ at = "draining"
  /\ IF plan = None
     THEN Exit(Ended)
     ELSE /\ Goto(IF plan.component = "server" THEN "switching" ELSE "selecting")
          /\ UNCHANGED <<known, control>>
  /\ UNCHANGED <<program, schedules, result, world, trial, torn, faults>>

-----------------------------------------------------------------------------
(* The maintenance: schedule, runMaintenance, Cancel *)

Alive == at \in {"serving", "draining"}

Apply(r, c) ==
  /\ Alive /\ runs[r] = "none"
  /\ maintenance = None
  /\ pending = None /\ schedulePending = None
  /\ IF c = "server" THEN exe = "old" ELSE selection # "new"
  /\ maintenance' = [run |-> r, component |-> c, phase |-> "preparing"]
  /\ runs' = [runs EXCEPT ![r] = "preparing"]
  /\ UNCHANGED known /\ Persisted
  /\ UNCHANGED <<cancelled, plan, program, schedules, process, world, trial, torn, faults>>

\* Mutant: only the presence of a maintenance is checked.
IsMaintained(r) == maintenance # None

\* What a run checks under the lock before it goes on.
Proceeds(r) == maintenance # None /\ r \notin cancelled

Advance(r, phase) ==
  /\ maintenance' = [maintenance EXCEPT !.phase = phase]
  /\ UNCHANGED known /\ Persisted

Prepared(r) ==
  /\ Alive /\ runs[r] = "preparing"
  /\ IF Proceeds(r)
     THEN Advance(r, "countdown") /\ runs' = [runs EXCEPT ![r] = "waiting"]
     ELSE runs' = [runs EXCEPT ![r] = "done"] /\ UNCHANGED <<maintenance, reports>>
  /\ UNCHANGED <<cancelled, plan, program, schedules, process, world, trial, torn, faults>>

\* The download, the check or the preflight fails; finishMaintenance.
PrepareFails(r) ==
  /\ Alive /\ runs[r] = "preparing"
  /\ runs' = [runs EXCEPT ![r] = "done"]
  /\ IF r \in cancelled
     THEN UNCHANGED <<maintenance, cancelled, reports>>
     ELSE /\ maintenance' = None /\ cancelled' = cancelled \cup {r}
          /\ known' = [known EXCEPT ![maintenance.component] = "cancelled"]
          /\ Persisted
  /\ UNCHANGED <<plan, program, schedules, process, world, trial, torn, faults>>

\* The timer and the cancellation may both be ready: either is taken.
Due(r) ==
  /\ Alive /\ runs[r] = "waiting"
  /\ runs' = [runs EXCEPT ![r] = "done"]
  /\ IF Proceeds(r)
     THEN /\ Advance(r, "closing")
          /\ plan' = [run |-> r, component |-> maintenance.component]
          /\ Goto("draining")
     ELSE UNCHANGED <<maintenance, plan, process, reports>>
  /\ UNCHANGED <<cancelled, program, schedules, world, trial, torn, faults>>

Cancel ==
  /\ Alive
  /\ maintenance # None
  /\ maintenance.phase # "closing"
  /\ cancelled' = cancelled \cup {maintenance.run}
  /\ maintenance' = None
  /\ UNCHANGED known /\ Persisted
  /\ UNCHANGED <<runs, plan, program, schedules, process, world, trial, torn, faults>>

-----------------------------------------------------------------------------
(* Plan.execute, in the process whose stores are closed *)

\* Outcome of a switch that did not take place; main exits with 1.
SwitchFails ==
  /\ Report(plan.component, "switch_failed")
  /\ Exit(Ended)

\* The backup, the staged directory or the loading of the schedules fails.
SwitchRefused ==
  /\ at \in {"switching", "selecting"}
  /\ Fault
  /\ SwitchFails
  /\ UNCHANGED <<program, schedules, world, trial, torn>>

BeginSwap ==
  /\ at = "switching"
  /\ rollback' = [n \in Names |-> None]
  /\ Goto("aside")
  /\ UNCHANGED <<installed, pending, saves, schedules, reports, control, world, trial, torn, faults>>

Walk(from, to) ==
  IF step = Len(Entries) THEN at' = to /\ step' = 1
                         ELSE at' = from /\ step' = step + 1

MoveAside ==
  /\ at = "aside"
  /\ rollback' = [rollback EXCEPT ![Entry] = installed[Entry]]
  /\ installed' = [installed EXCEPT ![Entry] = None]
  /\ Walk("aside", "placing")
  /\ UNCHANGED <<failed, exe, confirm, settled, stopping, pending, saves, schedules, reports,
                 control, world, trial, torn, faults>>

Place ==
  /\ at = "placing"
  /\ installed' = [installed EXCEPT ![Entry] = "new"]
  /\ Walk("placing", "recording")
  /\ UNCHANGED <<failed, exe, confirm, settled, stopping, rollback, pending, saves, schedules,
                 reports, control, world, trial, torn, faults>>

\* The names swap has moved aside and the ones it has placed.
Moved == {n \in Names : rollback[n] # None}
Placed == IF at = "placing" THEN {Entries[i] : i \in 1..(step - 1)} ELSE {}

\* Mutant: the undo forgets the entries that were only in the new package.
UndoMoved ==
  /\ installed' = [n \in Names |-> IF n \in Moved THEN rollback[n] ELSE installed[n]]
  /\ rollback' = [n \in Names |-> None]
  /\ UNCHANGED torn

\* What was placed goes back, then what was moved aside.  The errors of these
\* renames are ignored: a name may stay in place, another in the rollback.
Undo ==
  \E stuck \in SUBSET Placed, kept \in SUBSET Moved :
    /\ installed' = [n \in Names |->
         CASE n \in Moved \ kept -> rollback[n]
           [] n \in Placed \ stuck /\ n \notin Moved \ kept -> None
           [] OTHER -> installed[n]]
    /\ rollback' = [n \in Names |-> IF n \in kept THEN rollback[n] ELSE None]
    /\ IF stuck \cup kept = {} THEN UNCHANGED torn ELSE Tear("swap")

\* A rename of the swap fails.
SwapFails ==
  /\ at \in {"aside", "placing"}
  /\ Fault
  /\ Undo
  /\ SwitchFails
  /\ UNCHANGED <<pending, saves, schedules, world, trial>>

Record ==
  /\ at = "recording"
  /\ pending' = [attempts |-> 0] /\ starts' = 0
  /\ Exit(Ended)
  /\ UNCHANGED <<installed, rollback, saves, schedules, result, world, healthy, torn, faults>>

RecordFails ==
  /\ at = "recording"
  /\ Fault
  /\ at' = "removing" /\ step' = 1 /\ failed' = FALSE
  /\ UNCHANGED <<exe, confirm, settled, stopping, program, schedules, reports, control, world, trial, torn>>

\* Mutant: the new schedules are selected before the record exists.
SelectFirst ==
  /\ at = "selecting"
  /\ selection' = "new"
  /\ Goto("reporting")
  /\ UNCHANGED <<schedulePending, reports, program, control, world, trial, torn, faults>>

\* Mutant: the record does not keep the previous selection.
RecordBare ==
  /\ at = "selecting"
  /\ schedulePending' = [attempts |-> 0]
  /\ Goto("reporting")
  /\ UNCHANGED <<selection, reports, program, control, world, trial, torn, faults>>

\* The record is written first, then the selection.
RecordSchedules ==
  /\ at = "selecting"
  /\ schedulePending' = [attempts |-> 0, previous |-> selection]
  /\ Goto("reporting")
  /\ UNCHANGED <<selection, reports, program, control, world, trial, torn, faults>>

SelectSchedules ==
  /\ at = "reporting"
  /\ selection' = "new"
  /\ Report("schedules", "restarting")
  /\ Exit(Ended)
  /\ UNCHANGED <<schedulePending, program, world, trial, torn, faults>>

\* The error of removing the record again is ignored; the next start does it.
SelectFails ==
  /\ at = "reporting"
  /\ Fault
  /\ schedulePending' \in {None, schedulePending}
  /\ SwitchFails
  /\ UNCHANGED <<program, selection, world, trial, torn>>

-----------------------------------------------------------------------------
\* What the processes do by themselves.
Startup ==
  \/ ForgetSchedules \/ JudgeSchedules \/ StartPlainly(TRUE) \/ CountStart \/ GiveUp

Restore ==
  \/ RemoveInstalled(TRUE) \/ BringBack(TRUE) \/ Restored \/ Unmark(TRUE) \/ Announce
  \/ Revert \/ Reverted

Switch ==
  \/ BeginSwap \/ MoveAside \/ Place \/ Record \/ RecordSchedules \/ SelectSchedules

Own ==
  \/ Boot \/ Startup \/ Restore \/ Switch
  \/ Migrate \/ Opened \/ Settle \/ Confirm(TRUE) \/ Drained

Maintain ==
  \/ \E r \in Requests : \/ \E c \in Components : Apply(r, c)
                         \/ Prepared(r) \/ PrepareFails(r) \/ Due(r)
  \/ Cancel
  \/ Persist

Fail ==
  \/ Crash \/ ServeFails \/ CountFails \/ RevertFails
  \/ RemoveInstalled(FALSE) \/ BringBack(FALSE) \/ Unmark(FALSE)
  \/ StartPlainly(FALSE) \/ Confirm(FALSE)
  \/ SwitchRefused \/ SwapFails \/ RecordFails \/ SelectFails

Next == Own \/ Maintain \/ Signal \/ OperatorStarts \/ Fail

Spec == Init /\ [][Next]_vars

\* The manager starts what has exited; a process goes on as long as it lives.
FairSpec == Spec /\ WF_vars(Own)

-----------------------------------------------------------------------------
(* Properties *)

New == [n \in Names |-> "new"]

\* No process is in the middle of changing the program.
Quiet == at \in {"down", "stopped", "held", "starting", "opening", "serving", "draining"}

\* Unless a process died, or failed, inside a swap or a restore, what is
\* installed is one whole program: the new one under a record that applies to
\* it, and without a record the new one exactly when it was found healthy.
ProgramIsWhole ==
  (Quiet /\ torn \cap {"swap", "restore"} = {}) =>
    /\ installed \in {Original, New}
    /\ pending # None /\ RunsTarget => installed = New
    /\ pending = None => installed = IF "server" \in healthy THEN New ELSE Original

\* The new program starts at most MaxStartAttempts times before it has been
\* found healthy, and never without a record; the old one never opens saves
\* that the new one has migrated for good.
ProgramIsJudged ==
  /\ starts <= MaxStartAttempts
  /\ (at \in {"opening", "serving"} /\ exe = "new" /\ torn \cap {"swap", "restore"} = {}) =>
        confirm = "server" \/ "server" \in healthy
  /\ at \in {"opening", "serving"} /\ saves = "new" => exe = "new"

\* Without a record the new schedules are selected exactly when they were found
\* healthy, whatever died in between, and the first ones otherwise; a process
\* that serves under a record is the one that will confirm it.
SchedulesAreJudged ==
  /\ schedulePending = None => selection = IF "schedules" \in healthy THEN "new" ELSE origin
  /\ "schedules" \in healthy => selection = "new"
  /\ at \in {"opening", "serving"} /\ schedulePending # None => confirm = "schedules"

\* What a process switches after its drain is the maintenance that is closing:
\* a run that was cancelled, or overtaken by a later one, decides nothing.
PlanIsCurrent ==
  plan # None =>
    /\ plan.run \notin cancelled
    /\ maintenance = [run |-> plan.run, component |-> plan.component, phase |-> "closing"]

\* A version is judged: its start counter, the schedules' record and the
\* maintenance that led to it agree, in every order of crashes and restarts.
SwitchIsJudged == ProgramIsJudged /\ SchedulesAreJudged /\ PlanIsCurrent

\* Every switch is decided: confirmed, undone or given to the operator, unless
\* the service is stopped, a swap or a restore was torn, or a record could not
\* be removed.
SwitchSettles ==
  (pending # None \/ schedulePending # None) ~>
    \/ pending = None /\ schedulePending = None
    \/ at \in {"held", "stopped"}
    \/ torn # {}

=============================================================================
