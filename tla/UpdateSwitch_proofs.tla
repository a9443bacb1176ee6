------------------------ MODULE UpdateSwitch_proofs ------------------------
(***************************************************************************)
(* Proofs about UpdateSwitch, for any package, any number of start attempts *)
(* and of maintenances, and any number of failures.                         *)
(*                                                                          *)
(* The inductive invariant says what each place of the process knows: which  *)
(* maintenance led there, what the records on the disk hold by then, and how *)
(* far a swap or a restore of the installation has come.                     *)
(***************************************************************************)
EXTENDS UpdateSwitch, TLAPS

Off == {"down", "stopped", "held"}
Swapping == {"switching", "aside", "placing", "recording"}

\* An uncancelled run owns the maintenance until it is over.
RunsOwnMaintenance ==
  /\ at \in Off \cup {"starting", "opening"} => maintenance = None /\ plan = None
  /\ \A r \in Requests : r \notin cancelled =>
       /\ runs[r] = "preparing" =>
            maintenance # None /\ maintenance.run = r /\ maintenance.phase = "preparing"
       /\ runs[r] = "waiting" =>
            maintenance # None /\ maintenance.run = r /\ maintenance.phase = "countdown"
  /\ PlanIsCurrent

\* A switch follows from a plan; while a maintenance is due no other version
\* is on trial.
PlansLeadToSwitches ==
  /\ at \in Swapping => plan # None /\ plan.component = "server"
  /\ at \in {"selecting", "reporting"} => plan # None /\ plan.component = "schedules"
  /\ maintenance # None =>
       /\ pending = None
       /\ schedulePending = None \/ at = "reporting"
       /\ at \in {"serving", "draining", "selecting", "reporting", "removing", "bringing"} \cup Swapping
       /\ maintenance.component = "server" => exe = "old"
       /\ maintenance.component = "schedules" => selection = origin

\* A process on trial runs under the record it will confirm.
TrialsAreRecorded ==
  /\ at \in Off \cup {"starting"} => confirm = None /\ settled = "no"
  /\ at = "opening" => settled = "no"
  /\ at \in {"opening", "serving", "draining"} =>
       /\ confirm = "server" => RunsTarget
       /\ confirm = "schedules" => selection = "new"
       /\ settled # "yes" => /\ confirm = "server" => pending # None
                             /\ confirm = "schedules" => schedulePending # None
       /\ settled = "half" => confirm # None /\ confirm \in healthy

\* The record of the schedules keeps the selection that a rollback restores.
SelectionIsRecorded ==
  /\ selection \in {origin, "new"}
  /\ schedulePending # None => schedulePending.previous = origin /\ pending = None
  /\ at = "reverted" => selection = origin
  /\ at \in {"reporting", "reverting", "reverted"} => schedulePending # None
  /\ SchedulesAreJudged

\* Saves that were migrated for good belong to the program installed.
SavesFollowProgram ==
  /\ at \in {"starting", "opening", "serving", "draining", "switching"} => exe = installed[Program]
  /\ saves = "new" =>
       /\ release.irreversible /\ installed[Program] = "new"
       /\ at \notin {"aside", "placing", "recording", "removing", "bringing", "unmarking", "announcing"}

\* The record counts every start.
StartsAreCounted ==
  /\ starts <= MaxStartAttempts
  /\ pending # None => starts <= pending.attempts /\ pending.attempts <= MaxStartAttempts

StepsAreEntries ==
  /\ at \notin {"aside", "placing", "removing", "bringing", "unmarking", "announcing"} => step = 1
  /\ at \in {"aside", "placing", "bringing"} => step <= Len(Entries)

\* How far a swap or a restore has come, if none was torn.
Aside ==
  /\ \A i \in 1..Len(Entries) :
       installed[Entries[i]] = IF i < step THEN None ELSE Original[Entries[i]]
  /\ \A i \in 1..Len(Entries) :
       rollback[Entries[i]] = IF i < step THEN Original[Entries[i]] ELSE None

Placing ==
  /\ \A i \in 1..Len(Entries) : installed[Entries[i]] = IF i < step THEN "new" ELSE None
  /\ rollback = Original

Restoring ==
  /\ \A i \in 1..Len(Entries) : i < step => installed[Entries[i]] = Original[Entries[i]]
  /\ \A i \in 1..Len(Entries) : i >= step => rollback[Entries[i]] = Original[Entries[i]]
  /\ at = "bringing" => installed[Entry] = None

Settled ==
  /\ installed \in {Original, New}
  /\ pending # None /\ RunsTarget => installed = New /\ rollback = Original
  /\ "server" \in healthy => installed = New
  /\ pending = None /\ "server" \notin healthy => installed = Original

Untorn == torn \cap {"swap", "restore"} = {}

Changing == {"aside", "placing", "recording", "removing", "bringing", "unmarking", "announcing"}

Known ==
  /\ at \notin Changing => Settled
  /\ at = "aside" => Aside
  /\ at = "placing" => Placing
  /\ at = "recording" => installed = New /\ rollback = Original
  /\ at \in {"removing", "bringing"} => failed \/ Restoring
  /\ at \in {"unmarking", "announcing"} => installed = Original
  /\ at = "announcing" => pending = None \/ ~release.sameVersion
  /\ at \in Changing => "server" \notin healthy

InstallationIsKnown == Untorn => Known

\* Without a torn swap or restore the new program serves on trial, or after it.
NewIsOnTrial ==
  (at \in {"opening", "serving"} /\ exe = "new" /\ Untorn) =>
    confirm = "server" \/ "server" \in healthy

\* The service that serves has read what the file reports.
ServiceRemembers == at \in {"serving", "draining"} => known # None

IInv ==
  /\ TypeOK /\ StepsAreEntries
  /\ RunsOwnMaintenance /\ PlansLeadToSwitches /\ TrialsAreRecorded
  /\ SelectionIsRecorded /\ SavesFollowProgram /\ StartsAreCounted
  /\ InstallationIsKnown /\ NewIsOnTrial /\ ServiceRemembers

-----------------------------------------------------------------------------
(* The package *)

LEMMA EntriesExist == Len(Entries) \in Nat \ {0} /\ Program \in Names /\ Versions \in Names
  BY UpdateAssumption DEF Names

LEMMA OriginalProgram ==
  /\ Original[Program] = "old" /\ Original[Versions] = "old"
  /\ New[Program] = "new" /\ New[Versions] = "new"
  BY UpdateAssumption, EntriesExist DEF Original, New

-----------------------------------------------------------------------------
(* Types *)

\* The types of what Exit and a rollback assign.
ProcessTypes ==
  /\ at \in Places /\ step \in 1..(Len(Entries) + 1)
  /\ failed \in BOOLEAN /\ stopping \in BOOLEAN
  /\ exe \in Owned /\ confirm \in Components \cup {None}
  /\ settled \in {"no", "half", "yes"}
  /\ maintenance \in {None} \cup Maintenance
  /\ runs \in [Requests -> {"none", "preparing", "waiting", "done"}]
  /\ cancelled \subseteq Requests
  /\ plan \in {None} \cup Plan
  /\ known \in {None} \cup Reports

ProgramTypes ==
  /\ installed \in [Names -> Owned] /\ rollback \in [Names -> Owned]
  /\ pending \in {None} \cup Mark
  /\ result \in Reports /\ healthy \subseteq Components
  /\ saves \in {"old", "new"}

\* What is written is a report, of the memory or of the process that switched.
LEMMA ReportTypes ==
  ASSUME TypeOK, NEW component \in Components, NEW outcome \in Outcomes,
         Report(component, outcome)
  PROVE  result' \in Reports
<1>1. result \in Reports
  BY DEF TypeOK
<1>2. [result EXCEPT ![component] = outcome] \in Reports
  BY <1>1 DEF Reports
<1>3. result' \in {[result EXCEPT ![component] = outcome], result}
  BY DEF Report, Written
<1> QED
  BY <1>1, <1>2, <1>3

LEMMA PersistedTypes ==
  ASSUME TypeOK, known' \in Reports, Persisted
  PROVE  result' \in Reports
<1>1. result' \in {known', result}
  BY DEF Persisted, Written
<1> QED
  BY <1>1 DEF TypeOK

LEMMA OutcomesReported ==
  /\ {"succeeded", "rolled_back", "switch_failed", "needs_operator", "restarting",
      "cancelled"} \subseteq Outcomes
  /\ "server" \in Components /\ "schedules" \in Components
  BY DEF Outcomes, Components

LEMMA EndedIsOff == Ended \in Off
  BY DEF Ended, Off

LEMMA ExitTypes ==
  ASSUME TypeOK, NEW place \in Off, Exit(place)
  PROVE  ProcessTypes'
<1>1. step' \in 1..(Len(Entries) + 1)
  BY EntriesExist DEF Exit
<1>2. runs' \in [Requests -> {"none", "preparing", "waiting", "done"}]
  BY DEF Exit
<1>3. failed' \in BOOLEAN /\ stopping' \in BOOLEAN
  BY DEF Exit
<1> QED
  BY <1>1, <1>2, <1>3 DEF Exit, TypeOK, ProcessTypes, Off, Places, Owned

LEMMA RollBackTypes ==
  ASSUME TypeOK, RollBack
  PROVE  ProcessTypes' /\ ProgramTypes'
<1>1. CASE release.irreversible
  <2>1. Exit("held") /\ Report("server", "needs_operator")
        /\ UNCHANGED <<installed, rollback, pending, saves, healthy>>
    BY <1>1 DEF RollBack, program
  <2>2. ProcessTypes'
    BY <2>1, ExitTypes DEF Off
  <2>3. result' \in Reports
    BY <2>1, ReportTypes, OutcomesReported
  <2> QED
    BY <2>1, <2>2, <2>3 DEF TypeOK, ProgramTypes
<1>2. CASE ~release.irreversible
  <2>1. ProgramTypes'
    BY <1>2 DEF RollBack, program, reports, TypeOK, ProgramTypes
  <2>2. failed' \in BOOLEAN /\ stopping' \in BOOLEAN
    BY <1>2 DEF RollBack, TypeOK
  <2>3. step' \in 1..(Len(Entries) + 1) /\ at' \in Places
    BY <1>2, EntriesExist DEF RollBack, Places
  <2> QED
    BY <1>2, <2>1, <2>2, <2>3 DEF RollBack, control, reports, TypeOK, ProcessTypes
<1> QED
  BY <1>1, <1>2

LEMMA SwitchFailsTypes ==
  ASSUME TypeOK, plan \in Plan, SwitchFails
  PROVE  ProcessTypes' /\ result' \in Reports
<1>1. Exit(Ended)
  BY DEF SwitchFails
<1>2. ProcessTypes'
  BY <1>1, EndedIsOff, ExitTypes
<1>3. plan.component \in Components
  BY DEF Plan
<1>4. result' \in Reports
  BY <1>3, ReportTypes, OutcomesReported DEF SwitchFails
<1> QED
  BY <1>2, <1>4

LEMMA Phases ==
  ASSUME TypeOK, maintenance # None,
         NEW r \in Requests, NEW phase \in {"countdown", "closing"}, Advance(r, phase)
  PROVE  maintenance' \in Maintenance
<1>1. maintenance \in Maintenance
  BY DEF TypeOK
<1>2. maintenance' = [maintenance EXCEPT !.phase = phase]
  BY DEF Advance
<1> QED
  BY <1>1, <1>2 DEF Maintenance

LEMMA TearTypes ==
  ASSUME TypeOK, NEW window \in {"swap", "restore", "record"},
         torn' = torn \/ torn' = torn \cup {window}
  PROVE  torn' \subseteq {"swap", "restore", "record"}
<1>1. torn \subseteq {"swap", "restore", "record"}
  BY DEF TypeOK
<1>2. {window} \subseteq {"swap", "restore", "record"}
  OBVIOUS
<1> QED
  BY <1>1, <1>2, Zenon

\* Every action keeps the types.
LEMMA TypeOKStep ==
  ASSUME IInv, Next
  PROVE  TypeOK'
<1>0. TypeOK /\ StepsAreEntries
  BY DEF IInv
<1> USE <1>0
<1> USE UpdateAssumption, NoneAssumption, EntriesExist DEF IInv, StepsAreEntries, TypeOK,
      Owned, Mark, ScheduleMark, Components, Outcomes, Places
<1>1. CASE Boot
  BY <1>1 DEF Boot, program, schedules, control, world, trial, reports
<1>2. CASE ForgetSchedules
  BY <1>2 DEF ForgetSchedules, program, control, process, world, trial, reports
<1>3. CASE JudgeSchedules
  BY <1>3 DEF JudgeSchedules, Goto, Proceed, program, schedules, control, world, trial, reports
<1>4. ASSUME NEW ok \in BOOLEAN, StartPlainly(ok) PROVE TypeOK'
  <2>1. pending' \in {None, pending}
    BY <1>4 DEF StartPlainly
  <2>2. faults' \in 0..MaxFaults /\ torn' \subseteq {"swap", "restore", "record"}
    <3>1. CASE ok
      BY <1>4, <3>1 DEF StartPlainly
    <3>2. CASE ~ok
      <4>1. torn' = torn \cup {"record"} /\ faults' = faults + 1 /\ faults < MaxFaults
        BY <1>4, <3>2 DEF StartPlainly, Fault, Tear
      <4>2. torn' \subseteq {"swap", "restore", "record"}
        BY <1>0, <4>1, TearTypes
      <4> QED
        BY <4>1, <4>2
    <3> QED
      BY <3>1, <3>2
  <2> QED
    BY <1>4, <2>1, <2>2 DEF StartPlainly, Proceed, schedules, control, world, trial, reports
<1>5. CASE CountStart
  BY <1>5 DEF CountStart, Proceed, Acceptable, RunsTarget, schedules, control, world, trial, reports
<1>6. CASE GiveUp
  <2>1. ProcessTypes' /\ ProgramTypes'
    BY <1>6, RollBackTypes DEF GiveUp
  <2> QED
    BY <1>6, <2>1 DEF GiveUp, world, trial, reports, schedules, TypeOK, ProcessTypes, ProgramTypes
<1>7. ASSUME NEW ok \in BOOLEAN, RemoveInstalled(ok) PROVE TypeOK'
  <2>1. at' \in Places /\ UNCHANGED <<step, exe, confirm, settled, stopping, rollback, pending,
                                      saves, schedules, reports, control, world, trial, torn>>
    BY <1>7 DEF RemoveInstalled, Places
  <2>2. installed' \in [Names -> Owned]
    BY <1>7 DEF RemoveInstalled, TypeOK, Owned
  <2>3. failed' \in BOOLEAN /\ faults' \in 0..MaxFaults
    <3>1. CASE ok
      BY <1>7, <3>1 DEF RemoveInstalled, TypeOK
    <3>2. CASE ~ok
      <4>1. failed' = TRUE /\ faults' \in 0..MaxFaults
        BY <1>7, <3>2, UpdateAssumption DEF RemoveInstalled, Fault, TypeOK
      <4> QED
        BY <4>1
    <3> QED
      BY <3>1, <3>2
  <2> QED
    BY <2>1, <2>2, <2>3 DEF schedules, control, world, trial, reports, TypeOK
<1>8. ASSUME NEW ok \in BOOLEAN, BringBack(ok) PROVE TypeOK'
  <2>1. step \in 1..Len(Entries) /\ Entry \in Names
    <3>1. step \in 1..Len(Entries)
      BY <1>8, <1>0, EntriesExist DEF BringBack, StepsAreEntries, TypeOK
    <3>2. Entries[step] \in {Entries[i] : i \in 1..Len(Entries)}
      BY <3>1, Zenon
    <3> QED
      BY <3>1, <3>2, Zenon DEF Entry, Names
  <2>2. at' \in Places /\ step' \in 1..(Len(Entries) + 1)
        /\ UNCHANGED <<exe, confirm, settled, stopping, pending,
                       saves, schedules, reports, control, world, trial, torn>>
    BY <1>8, <2>1, EntriesExist DEF BringBack, Places
  <2>3. installed' \in [Names -> Owned] /\ rollback' \in [Names -> Owned]
    BY <1>8, <2>1 DEF BringBack, TypeOK, Owned
  <2>4. failed' \in BOOLEAN /\ faults' \in 0..MaxFaults
    <3>1. CASE ok
      BY <1>8, <3>1 DEF BringBack, TypeOK
    <3>2. CASE ~ok
      <4>1. failed' = TRUE /\ faults' \in 0..MaxFaults
        BY <1>8, <3>2, UpdateAssumption DEF BringBack, Fault, TypeOK
      <4> QED
        BY <4>1
    <3> QED
      BY <3>1, <3>2
  <2> QED
    BY <2>2, <2>3, <2>4 DEF schedules, control, world, trial, reports, TypeOK
<1>9. CASE Restored
  <2>1. torn' \subseteq {"swap", "restore", "record"}
    BY <1>9 DEF Restored, TypeOK
  <2>2. ProcessTypes' /\ result' \in Reports
    <3>1. CASE pending = None
      <4>1. Exit(Ended) /\ Report("server", "switch_failed")
        BY <1>9, <3>1 DEF Restored
      <4>2. result' \in Reports
        BY <4>1, ReportTypes, OutcomesReported
      <4> QED
        BY <4>1, <4>2, ExitTypes, EndedIsOff
    <3>2. CASE pending # None /\ failed
      <4>1. Exit("held") /\ Report("server", "needs_operator")
        BY <1>9, <3>2 DEF Restored
      <4>2. result' \in Reports
        BY <4>1, ReportTypes, OutcomesReported
      <4> QED
        BY <4>1, <4>2, ExitTypes DEF Off
    <3>3. CASE pending # None /\ ~failed
      <4>1. Goto("unmarking") /\ UNCHANGED <<reports, control>>
        BY <1>9, <3>3 DEF Restored
      <4> QED
        BY <4>1 DEF Goto, control, reports, TypeOK, ProcessTypes, Places
    <3> QED
      BY <3>1, <3>2, <3>3 DEF TypeOK
  <2> QED
    <3>1. UNCHANGED <<program, schedules, world, trial, faults>>
      BY <1>9 DEF Restored
    <3> QED
      BY <2>1, <2>2, <3>1 DEF program, schedules, world, trial, ProcessTypes
<1>10. ASSUME NEW ok \in BOOLEAN, Unmark(ok) PROVE TypeOK'
  BY <1>10 DEF Unmark, Fault, Window, Goto, schedules, control, world, trial, reports
<1>11. CASE Announce
  <2>1. ProcessTypes'
    BY <1>11, ExitTypes, EndedIsOff DEF Announce
  <2>2. result' \in Reports
    BY <1>11, ReportTypes, OutcomesReported DEF Announce
  <2> QED
    BY <1>11, <2>1, <2>2 DEF Announce, world, trial, reports, schedules, program, TypeOK, ProcessTypes, Outcomes
<1>12. CASE Revert
  <2>1. selection' \in Owned
    BY <1>12, NoneAssumption DEF Revert, IInv, SelectionIsRecorded, TypeOK, ScheduleMark
  <2> QED
    BY <1>12, <2>1 DEF Revert, Goto, world, trial, reports, program, control, TypeOK, Places
<1>13. CASE Reverted
  <2>1. ProcessTypes'
    BY <1>13, ExitTypes, EndedIsOff DEF Reverted
  <2>2. result' \in Reports
    BY <1>13, ReportTypes, OutcomesReported DEF Reverted
  <2> QED
    BY <1>13, <2>1, <2>2 DEF Reverted, world, trial, reports, schedules, program, TypeOK, ProcessTypes, Outcomes
<1>14. CASE BeginSwap
  BY <1>14 DEF BeginSwap, Goto, schedules, control, world, trial, reports
<1>15. CASE MoveAside
  BY <1>15 DEF MoveAside, Walk, Entry, schedules, control, world, trial, reports
<1>16. CASE Place
  BY <1>16 DEF Place, Walk, Entry, schedules, control, world, trial, reports
<1>17. CASE Record
  <2>1. ProcessTypes'
    BY <1>17, ExitTypes, EndedIsOff DEF Record
  <2> QED
    BY <1>17, <2>1 DEF Record, world, trial, reports, schedules, program, Mark, TypeOK, ProcessTypes,
      Outcomes
<1>18. CASE RecordSchedules
  BY <1>18 DEF RecordSchedules, Goto, program, control, world, trial, reports
<1>19. CASE SelectSchedules
  <2>1. ProcessTypes'
    BY <1>19, ExitTypes, EndedIsOff DEF SelectSchedules
  <2>2. result' \in Reports
    BY <1>19, ReportTypes, OutcomesReported DEF SelectSchedules
  <2> QED
    BY <1>19, <2>1, <2>2 DEF SelectSchedules, world, trial, reports, schedules, program, Owned, TypeOK,
      ProcessTypes, Outcomes
<1>20. CASE Migrate
  BY <1>20 DEF Migrate, schedules, control, process, world, trial, reports
<1>21. CASE Opened
  BY <1>21 DEF Opened, Goto, program, schedules, control, world, trial, reports
<1>22. CASE Settle
  <2>1. known \in Reports /\ confirm \in Components
    BY <1>22 DEF Settle, ServiceRemembers
  <2>2. result' \in Reports
    BY <1>22, <2>1, ReportTypes, OutcomesReported DEF Settle
  <2>3. result'["schedules"] \in Outcomes
    BY <2>2, OutcomesReported DEF Reports
  <2>4. known' \in Reports
    BY <1>22, <2>1, <2>3 DEF Settle, Reports
  <2>5. healthy' \subseteq Components /\ UNCHANGED <<program, schedules, control, at, step, failed, exe,
                                            confirm, stopping, world, starts, torn, faults>>
    BY <1>22, <2>1 DEF Settle
  <2>6. settled' \in {"no", "half", "yes"}
    BY <1>22 DEF Settle
  <2> QED
    BY <2>2, <2>4, <2>5, <2>6 DEF program, schedules, control, world
<1>23. ASSUME NEW ok \in BOOLEAN, Confirm(ok) PROVE TypeOK'
  <2>1. pending' \in {None, pending} /\ schedulePending' \in {None, schedulePending}
    BY <1>23 DEF Confirm, Unrecord
  <2>2. faults' \in 0..MaxFaults /\ torn' \subseteq {"swap", "restore", "record"}
    <3>1. CASE ok
      BY <1>23, <3>1 DEF Confirm, Unrecord
    <3>2. CASE ~ok
      <4>1. torn' = torn \cup {"record"} /\ faults' = faults + 1 /\ faults < MaxFaults
        BY <1>23, <3>2 DEF Confirm, Unrecord, Fault, Tear
      <4>2. torn' \subseteq {"swap", "restore", "record"}
        BY <1>0, <4>1, TearTypes
      <4> QED
        BY <4>1, <4>2
    <3> QED
      BY <3>1, <3>2
  <2> QED
    BY <1>23, <2>1, <2>2 DEF Confirm, control, world, trial, reports
<1>24. CASE Drained
  <2>1. torn' \subseteq {"swap", "restore", "record"}
    BY <1>24 DEF Drained, Window, TypeOK
  <2>2. ProcessTypes'
    <3>1. CASE plan = None
      BY <1>24, <3>1, ExitTypes, EndedIsOff DEF Drained
    <3>2. CASE plan # None
      <4>1. (at' = "switching" \/ at' = "selecting")
            /\ UNCHANGED <<step, failed, exe, confirm, settled, stopping>> /\ UNCHANGED <<known, control>>
        BY <1>24, <3>2 DEF Drained, Goto
      <4> QED
        BY <4>1 DEF control, TypeOK, ProcessTypes, Places
    <3> QED
      BY <3>1, <3>2
  <2> QED
    BY <1>24, <2>1, <2>2 DEF Drained, world, trial, reports, schedules, program, TypeOK, ProcessTypes
<1>25. ASSUME NEW r \in Requests, NEW c \in Components, Apply(r, c) PROVE TypeOK'
  <2>1. maintenance' \in Maintenance
    BY <1>25 DEF Apply, Maintenance
  <2>2. runs' \in [Requests -> {"none", "preparing", "waiting", "done"}]
    BY <1>25 DEF Apply, TypeOK
  <2>3. known' \in Reports /\ result' \in Reports
    BY <1>25, PersistedTypes DEF Apply, Alive, ServiceRemembers
  <2> QED
    BY <1>25, <2>1, <2>2, <2>3 DEF Apply, process, program, schedules, world, trial, TypeOK
<1>26. ASSUME NEW r \in Requests, Prepared(r) PROVE TypeOK'
  <2>1. maintenance' \in {None} \cup Maintenance
    BY <1>26, Phases DEF Prepared, Proceeds, IInv, TypeOK
  <2>2. runs' \in [Requests -> {"none", "preparing", "waiting", "done"}]
    BY <1>26 DEF Prepared, TypeOK
  <2>3. known' \in Reports /\ result' \in Reports
    BY <1>26, PersistedTypes DEF Prepared, Advance, Alive, ServiceRemembers, reports
  <2> QED
    BY <1>26, <2>1, <2>2, <2>3 DEF Prepared, process, program, schedules, world, trial, reports, TypeOK
<1>27. ASSUME NEW r \in Requests, PrepareFails(r) PROVE TypeOK'
  <2>1. runs' \in [Requests -> {"none", "preparing", "waiting", "done"}]
    BY <1>27 DEF PrepareFails, TypeOK
  <2>2. known \in Reports
    BY <1>27 DEF PrepareFails, Alive, ServiceRemembers
  <2>3. CASE r \in cancelled
    BY <1>27, <2>1, <2>3 DEF PrepareFails, process, program, schedules, world, trial, reports
  <2>4. CASE r \notin cancelled
    <3>1. maintenance # None /\ maintenance \in Maintenance
      BY <1>27, <2>4 DEF PrepareFails, RunsOwnMaintenance
    <3>2. maintenance.component \in Components
      BY <3>1 DEF Maintenance
    <3>3. known' = [known EXCEPT ![maintenance.component] = "cancelled"] /\ Persisted
          /\ maintenance' = None /\ cancelled' = cancelled \cup {r}
      BY <1>27, <2>4 DEF PrepareFails
    <3>4. known' \in Reports
      BY <2>2, <3>2, <3>3, OutcomesReported DEF Reports
    <3>5. result' \in Reports
      BY <3>3, <3>4, PersistedTypes
    <3> QED
      BY <1>27, <2>1, <3>3, <3>4, <3>5 DEF PrepareFails, process, program, schedules, world, trial
  <2> QED
    BY <2>3, <2>4
<1>28. ASSUME NEW r \in Requests, Due(r) PROVE TypeOK'
  <2>1. runs' \in [Requests -> {"none", "preparing", "waiting", "done"}]
    BY <1>28 DEF Due, TypeOK
  <2>2. CASE Proceeds(r)
    <3>1. maintenance' \in Maintenance
      BY <1>28, <2>2, Phases DEF Due, Proceeds, IInv
    <3>2. maintenance.component \in Components
      BY <2>2 DEF Proceeds, TypeOK, IInv, Maintenance
    <3>3. plan' \in Plan
      BY <1>28, <2>2, <3>2 DEF Due, Plan
    <3>4. known' \in Reports /\ result' \in Reports
      BY <1>28, <2>2, PersistedTypes DEF Due, Advance, Alive, ServiceRemembers
    <3> QED
      BY <1>28, <2>1, <2>2, <3>1, <3>3, <3>4
      DEF Due, Goto, program, schedules, world, trial, reports, TypeOK, Places
  <2>3. CASE ~Proceeds(r)
    BY <1>28, <2>1, <2>3 DEF Due, process, program, schedules, world, trial, reports, TypeOK
  <2> QED
    BY <2>2, <2>3
<1>29. CASE Cancel
  <2>1. maintenance.run \in Requests
    BY <1>29 DEF Cancel, IInv, TypeOK, Maintenance
  <2>2. known' \in Reports /\ result' \in Reports
    BY <1>29, PersistedTypes DEF Cancel, Alive, ServiceRemembers
  <2> QED
    BY <1>29, <2>1, <2>2 DEF Cancel, process, program, schedules, world, trial, reports, IInv, TypeOK
<1>30. CASE Crash
  <2>1. ProcessTypes'
    BY <1>30, ExitTypes DEF Crash, Off
  <2>2. torn' \subseteq {"swap", "restore", "record"}
    BY <1>30 DEF Crash, Window, TypeOK
  <2>3. faults' \in 0..MaxFaults
    BY <1>30, UpdateAssumption DEF Crash, Fault, TypeOK
  <2> QED
    BY <1>30, <2>1, <2>2, <2>3 DEF Crash, world, trial, reports, schedules, program, TypeOK, ProcessTypes
<1>31. CASE ServeFails
  <2>1. faults' \in 0..MaxFaults
    BY <1>31, UpdateAssumption DEF ServeFails, Fault, TypeOK
  <2>2. ProcessTypes' /\ ProgramTypes'
    <3>1. CASE confirm = "server" /\ settled = "no"
      BY <1>31, <3>1, RollBackTypes DEF ServeFails, Failed
    <3>2. CASE confirm = "schedules" /\ settled = "no"
      <4>1. Goto("reverting") /\ UNCHANGED <<control, program, reports, healthy>>
        BY <1>31, <3>2 DEF ServeFails, Failed
      <4> QED
        BY <4>1 DEF Goto, control, program, reports, TypeOK, ProcessTypes, ProgramTypes, Places
    <3>3. CASE ~(confirm = "server" /\ settled = "no") /\ ~(confirm = "schedules" /\ settled = "no")
      <4>1. Exit(Ended) /\ UNCHANGED <<program, result, healthy>>
        BY <1>31, <3>3 DEF ServeFails, Failed
      <4>2. ProcessTypes'
        BY <4>1, ExitTypes, EndedIsOff
      <4> QED
        BY <4>1, <4>2 DEF program, TypeOK, ProgramTypes
    <3> QED
      BY <3>1, <3>2, <3>3
  <2> QED
    BY <1>31, <2>1, <2>2 DEF ServeFails, Failed, world, trial, reports, schedules, TypeOK, ProcessTypes,
      ProgramTypes
<1>32. CASE CountFails
  <2>1. ProcessTypes'
    BY <1>32, ExitTypes, EndedIsOff DEF CountFails, Off
  <2>3. faults' \in 0..MaxFaults
    BY <1>32, UpdateAssumption DEF CountFails, Fault, TypeOK
  <2> QED
    BY <1>32, <2>1, <2>3 DEF CountFails, world, trial, reports, schedules, program, TypeOK, ProcessTypes
<1>33. CASE RevertFails
  <2>1. ProcessTypes'
    BY <1>33, ExitTypes DEF RevertFails, Off
  <2>3. faults' \in 0..MaxFaults
    BY <1>33, UpdateAssumption DEF RevertFails, Fault, TypeOK
  <2> QED
    BY <1>33, <2>1, <2>3 DEF RevertFails, world, trial, reports, schedules, program, TypeOK, ProcessTypes
<1>34. CASE SwitchRefused
  <2>0. plan \in Plan
    BY <1>34, <1>0 DEF SwitchRefused, PlansLeadToSwitches, Swapping, TypeOK
  <2>1. ProcessTypes' /\ result' \in Reports
    BY <1>34, <2>0, SwitchFailsTypes DEF SwitchRefused
  <2>2. faults' \in 0..MaxFaults
    BY <1>34, UpdateAssumption DEF SwitchRefused, Fault, TypeOK
  <2> QED
    <3>1. UNCHANGED <<program, schedules, world, trial, torn>>
      BY <1>34 DEF SwitchRefused
    <3> QED
      BY <2>1, <2>2, <3>1 DEF program, schedules, world, trial, ProcessTypes
<1>35. CASE SwapFails
  <2>0. plan \in Plan
    BY <1>35, <1>0 DEF SwapFails, PlansLeadToSwitches, Swapping, TypeOK
  <2>1. ProcessTypes' /\ result' \in Reports
    BY <1>35, <2>0, SwitchFailsTypes DEF SwapFails
  <2>2. faults' \in 0..MaxFaults
    BY <1>35, UpdateAssumption DEF SwapFails, Fault, TypeOK
  <2>3. installed' \in [Names -> Owned]
    BY <1>35 DEF SwapFails, Undo, TypeOK, Owned
  <2>4. rollback' \in [Names -> Owned]
    BY <1>35 DEF SwapFails, Undo, TypeOK, Owned
  <2>5. torn' \subseteq {"swap", "restore", "record"}
    <3>1. torn' = torn \/ torn' = torn \cup {"swap"}
      BY <1>35 DEF SwapFails, Undo, Tear
    <3> QED
      BY <1>0, <3>1, TearTypes
  <2>6. UNCHANGED <<pending, saves, schedules, world, trial>>
    BY <1>35 DEF SwapFails
  <2> QED
    BY <2>1, <2>2, <2>3, <2>4, <2>5, <2>6 DEF schedules, world, trial, ProcessTypes
<1>36. CASE RecordFails
  <2>1. failed' \in BOOLEAN /\ stopping' \in BOOLEAN
    BY <1>36 DEF RecordFails, TypeOK
  <2>2. faults' \in 0..MaxFaults
    BY <1>36, UpdateAssumption DEF RecordFails, Fault, TypeOK
  <2>3. step' \in 1..(Len(Entries) + 1) /\ at' \in Places
    BY <1>36, EntriesExist DEF RecordFails, Places
  <2> QED
    BY <1>36, <2>1, <2>2, <2>3 DEF RecordFails, world, trial, reports, schedules, program, control, TypeOK
<1>37. CASE SelectFails
  <2>0. plan \in Plan
    BY <1>37, <1>0 DEF SelectFails, PlansLeadToSwitches, Swapping, TypeOK
  <2>1. ProcessTypes' /\ result' \in Reports
    BY <1>37, <2>0, SwitchFailsTypes DEF SelectFails
  <2>2. faults' \in 0..MaxFaults
    BY <1>37, UpdateAssumption DEF SelectFails, Fault, TypeOK
  <2> QED
    <3>1. UNCHANGED <<program, selection, world, trial, torn>>
      BY <1>37 DEF SelectFails
    <3>2. schedulePending' \in {None, schedulePending}
      BY <1>37 DEF SelectFails
    <3> QED
      BY <2>1, <2>2, <3>1, <3>2 DEF program, world, trial, ProcessTypes
<1>38. CASE Signal
  BY <1>38 DEF Signal, program, schedules, control, world, trial, reports
<1>39. CASE OperatorStarts
  BY <1>39 DEF OperatorStarts, Goto, Fault, program, schedules, control, world, trial, reports
<1>40. CASE Persist
  <2>1. known' \in Reports /\ result' \in Reports
    BY <1>40, PersistedTypes DEF Persist
  <2> QED
    BY <1>40, <2>1 DEF Persist, program, schedules, control, process, world, trial
<1> HIDE UpdateAssumption, NoneAssumption, EntriesExist DEF IInv, StepsAreEntries, TypeOK,
      Owned, Mark, ScheduleMark, Components, Outcomes, Places
<1> QED
  BY <1>1, <1>2, <1>3, <1>4, <1>5, <1>6, <1>7, <1>8, <1>9, <1>10, <1>11, <1>12, <1>13,
      <1>14, <1>15, <1>16, <1>17, <1>18, <1>19, <1>20, <1>21, <1>22, <1>23, <1>24, <1>25,
      <1>26, <1>27, <1>28, <1>29, <1>30, <1>31, <1>32, <1>33, <1>34, <1>35, <1>36, <1>37,
      <1>38, <1>39, <1>40 DEF Next, Own, Startup, Restore, Switch, Maintain, Fail

-----------------------------------------------------------------------------
(* The maintenance, the trial and the records *)

LEMMA PlannedMaintenance ==
  ASSUME TypeOK, PlanIsCurrent, plan # None
  PROVE  /\ maintenance # None
         /\ maintenance.component = plan.component
         /\ plan.component \in Components
<1>1. plan \in Plan
  BY DEF TypeOK
<1>2. plan.run \in Requests /\ plan.component \in Components
  BY <1>1 DEF Plan
<1>3. maintenance = [run |-> plan.run, component |-> plan.component, phase |-> "closing"]
  BY DEF PlanIsCurrent
<1>4. maintenance \in Maintenance
  BY <1>2, <1>3 DEF Maintenance
<1> QED
  BY <1>2, <1>3, <1>4, NoneAssumption

\* The memory of the service lives as long as the service.
LEMMA ServiceRemembersStep ==
  ASSUME IInv, Next
  PROVE  ServiceRemembers'
<1> SUFFICES ASSUME at' \in {"serving", "draining"} PROVE known' # None
  BY DEF ServiceRemembers
<1>1. CASE Opened
  BY <1>1, NoneAssumption DEF Opened, IInv, TypeOK
<1>2. CASE Settle
  <2>1. known \in Reports
    BY <1>2 DEF Settle, IInv, ServiceRemembers, TypeOK
  <2>2. known' \in Reports
    <3>1. result' \in Reports
      BY <1>2, ReportTypes, OutcomesReported DEF Settle, IInv, TypeOK, Components
    <3>2. result'["schedules"] \in Outcomes
      BY <3>1, OutcomesReported DEF Reports
    <3> QED
      BY <1>2, <2>1, <3>2 DEF Settle, Reports
  <2> QED
    BY <2>2, NoneAssumption
<1>3. CASE Boot \/ Startup \/ Restore
  BY <1>3 DEF Boot, Startup, Restore, ForgetSchedules, JudgeSchedules, StartPlainly, CountStart,
    GiveUp, RollBack, RemoveInstalled, BringBack, Restored, Unmark, Announce, Revert, Reverted,
    Goto, Proceed, Exit, Ended, process
<1>4. CASE Switch
  BY <1>4 DEF Switch, BeginSwap, MoveAside, Place, Record, RecordSchedules, SelectSchedules,
    Walk, Goto, Exit, Ended
<1>5. CASE Migrate \/ Confirm(TRUE) \/ Confirm(FALSE) \/ Drained
  BY <1>5 DEF Migrate, Confirm, Drained, Goto, Exit, Ended, process, reports, IInv, ServiceRemembers
<1>6. CASE Fail
  BY <1>5, <1>6 DEF Fail, Crash, ServeFails, Failed, RollBack, CountFails, RevertFails,
    RemoveInstalled, BringBack, Unmark, StartPlainly, SwitchRefused, SwapFails, RecordFails,
    SelectFails, SwitchFails, Goto, Proceed, Exit, Ended
<1>7. CASE \E r \in Requests : PrepareFails(r)
  <2> PICK r \in Requests : PrepareFails(r)
    BY <1>7
  <2>1. known # None /\ known \in Reports
    BY DEF PrepareFails, Alive, IInv, ServiceRemembers, TypeOK
  <2>2. CASE r \in cancelled
    BY <2>1, <2>2 DEF PrepareFails, reports
  <2>3. CASE r \notin cancelled
    <3>1. maintenance # None /\ maintenance \in Maintenance
      BY <2>3 DEF PrepareFails, IInv, RunsOwnMaintenance, TypeOK
    <3>2. maintenance.component \in Components
      BY <3>1 DEF Maintenance
    <3>3. known' \in Reports
      BY <2>1, <2>3, <3>2, OutcomesReported DEF PrepareFails, Reports
    <3> QED
      BY <3>3, NoneAssumption
  <2> QED
    BY <2>2, <2>3
<1>8. CASE \/ \E r \in Requests : (\E c \in Components : Apply(r, c)) \/ Prepared(r) \/ Due(r)
           \/ Cancel \/ Persist
  BY <1>8 DEF Apply, Prepared, Due, Advance, Cancel, Persist, Alive, process, reports, IInv,
    ServiceRemembers
<1>9. CASE Signal \/ OperatorStarts
  BY <1>9 DEF Signal, OperatorStarts, Goto, reports, IInv, ServiceRemembers
<1> QED
  BY <1>1, <1>2, <1>3, <1>4, <1>5, <1>6, <1>7, <1>8, <1>9 DEF Next, Own, Maintain

\* Every action keeps the step inside the package.
LEMMA StepsAreEntriesStep ==
  ASSUME IInv, Next
  PROVE  StepsAreEntries'
<1> USE UpdateAssumption, NoneAssumption, EntriesExist DEF IInv, StepsAreEntries, TypeOK
<1>1. CASE Boot
  BY <1>1 DEF Boot, program, schedules, control, world, trial
<1>2. CASE ForgetSchedules
  BY <1>2 DEF ForgetSchedules, program, control, process, world, trial
<1>3. CASE JudgeSchedules
  BY <1>3 DEF JudgeSchedules, Goto, Proceed, program, schedules, control, world, trial
<1>4. ASSUME NEW ok \in BOOLEAN, StartPlainly(ok) PROVE StepsAreEntries'
  BY <1>4 DEF StartPlainly, Fault, Tear, Proceed, RunsTarget, schedules, control, world, trial
<1>5. CASE CountStart
  BY <1>5 DEF CountStart, Proceed, Acceptable, RunsTarget, schedules, control, world, trial
<1>6. CASE GiveUp
  BY <1>6 DEF GiveUp, Exit, RollBack, Acceptable, RunsTarget, program, schedules, control,
      world, trial
<1>7. ASSUME NEW ok \in BOOLEAN, RemoveInstalled(ok) PROVE StepsAreEntries'
  BY <1>7 DEF RemoveInstalled, Fault, Entry, schedules, control, world, trial
<1>8. ASSUME NEW ok \in BOOLEAN, BringBack(ok) PROVE StepsAreEntries'
  BY <1>8 DEF BringBack, Fault, Entry, schedules, control, world, trial
<1>9. CASE Restored
  BY <1>9 DEF Restored, Exit, Goto, Ended, schedules, control, world, trial
<1>10. ASSUME NEW ok \in BOOLEAN, Unmark(ok) PROVE StepsAreEntries'
  BY <1>10 DEF Unmark, Fault, Window, Goto, schedules, control, world, trial
<1>11. CASE Announce
  BY <1>11 DEF Announce, Exit, Ended, schedules, world, trial
<1>12. CASE Revert
  BY <1>12 DEF Revert, Goto, program, control, world, trial
<1>13. CASE Reverted
  BY <1>13 DEF Reverted, Exit, Ended, program, world, trial
<1>14. CASE BeginSwap
  BY <1>14 DEF BeginSwap, Goto, schedules, control, world, trial
<1>15. CASE MoveAside
  BY <1>15 DEF MoveAside, Walk, Entry, schedules, control, world, trial
<1>16. CASE Place
  BY <1>16 DEF Place, Walk, Entry, schedules, control, world, trial
<1>17. CASE Record
  BY <1>17 DEF Record, Exit, Ended, schedules, world, trial
<1>18. CASE RecordSchedules
  BY <1>18 DEF RecordSchedules, Goto, program, control, world, trial
<1>19. CASE SelectSchedules
  BY <1>19 DEF SelectSchedules, Exit, Ended, program, world, trial
<1>20. CASE Migrate
  BY <1>20 DEF Migrate, schedules, control, process, world, trial
<1>21. CASE Opened
  BY <1>21 DEF Opened, Goto, program, schedules, control, world, trial
<1>22. CASE Settle
  BY <1>22 DEF Settle, control, world, trial
<1>23. ASSUME NEW ok \in BOOLEAN, Confirm(ok) PROVE StepsAreEntries'
  BY <1>23 DEF Confirm, Unrecord, Fault, Tear, control, world, trial
<1>24. CASE Drained
  BY <1>24 DEF Drained, Exit, Goto, Window, Ended, program, schedules, control, world, trial
<1>25. ASSUME NEW r \in Requests, NEW c \in Components, Apply(r, c) PROVE StepsAreEntries'
  BY <1>25 DEF Apply, Alive, program, schedules, process, world, trial
<1>26. ASSUME NEW r \in Requests, Prepared(r) PROVE StepsAreEntries'
  BY <1>26 DEF Prepared, Advance, Proceeds, Alive, program, schedules, process, world, trial
<1>27. ASSUME NEW r \in Requests, PrepareFails(r) PROVE StepsAreEntries'
  BY <1>27 DEF PrepareFails, Alive, program, schedules, process, world, trial
<1>28. ASSUME NEW r \in Requests, Due(r) PROVE StepsAreEntries'
  BY <1>28 DEF Due, Goto, Advance, Proceeds, Alive, program, schedules, process, world, trial
<1>29. CASE Cancel
  BY <1>29 DEF Cancel, Alive, program, schedules, process, world, trial
<1>30. CASE Crash
  BY <1>30 DEF Crash, Exit, Fault, Window, Running, program, schedules, world, trial
<1>31. CASE ServeFails
  BY <1>31 DEF ServeFails, Exit, Goto, Fault, RollBack, Failed, Ended, program, schedules,
      control, world, trial
<1>32. CASE CountFails
  BY <1>32 DEF CountFails, Exit, Fault, Ended, RunsTarget, program, schedules, world, trial
<1>33. CASE RevertFails
  BY <1>33 DEF RevertFails, Exit, Fault, program, schedules, world, trial
<1>34. CASE SwitchRefused
  BY <1>34 DEF SwitchRefused, Exit, Fault, SwitchFails, Ended, world, trial
<1>35. CASE SwapFails
  BY <1>35 DEF SwapFails, Exit, Fault, SwitchFails, Undo, Ended, world, trial
<1>36. CASE RecordFails
  BY <1>36 DEF RecordFails, Fault, program, schedules, control, world, trial
<1>37. CASE SelectFails
  BY <1>37 DEF SelectFails, Exit, Fault, SwitchFails, Ended, world, trial
<1>38. CASE Signal
  BY <1>38 DEF Signal, program, schedules, control, world, trial
<1>39. CASE OperatorStarts
  BY <1>39 DEF OperatorStarts, Goto, Fault, program, schedules, control, world, trial
<1>40. CASE Persist
  BY <1>40 DEF Persist, program, schedules, control, process, world, trial
<1> HIDE UpdateAssumption, NoneAssumption, EntriesExist DEF IInv, StepsAreEntries, TypeOK
<1> QED
  BY <1>1, <1>2, <1>3, <1>4, <1>5, <1>6, <1>7, <1>8, <1>9, <1>10, <1>11, <1>12, <1>13,
      <1>14, <1>15, <1>16, <1>17, <1>18, <1>19, <1>20, <1>21, <1>22, <1>23, <1>24, <1>25,
      <1>26, <1>27, <1>28, <1>29, <1>30, <1>31, <1>32, <1>33, <1>34, <1>35, <1>36, <1>37,
      <1>38, <1>39, <1>40 DEF Next, Own, Startup, Restore, Switch, Maintain, Fail

\* Every action keeps the maintenance with the run that owns it.
LEMMA RunsOwnMaintenanceStep ==
  ASSUME IInv, Next
  PROVE  RunsOwnMaintenance'
<1> USE UpdateAssumption, NoneAssumption DEF IInv, RunsOwnMaintenance, PlanIsCurrent,
      TypeOK, Maintenance, Plan, Components, Off
<1>1. CASE Boot
  BY <1>1 DEF Boot, program, schedules, control, world, trial
<1>2. CASE ForgetSchedules
  BY <1>2 DEF ForgetSchedules, program, control, process, world, trial
<1>3. CASE JudgeSchedules
  BY <1>3 DEF JudgeSchedules, Goto, Proceed, program, schedules, control, world, trial
<1>4. ASSUME NEW ok \in BOOLEAN, StartPlainly(ok) PROVE RunsOwnMaintenance'
  BY <1>4 DEF StartPlainly, Fault, Tear, Proceed, RunsTarget, schedules, control, world, trial
<1>5. CASE CountStart
  BY <1>5 DEF CountStart, Proceed, Acceptable, RunsTarget, schedules, control, world, trial
<1>6. CASE GiveUp
  BY <1>6 DEF GiveUp, Exit, RollBack, Acceptable, RunsTarget, program, schedules, control,
      world, trial
<1>7. ASSUME NEW ok \in BOOLEAN, RemoveInstalled(ok) PROVE RunsOwnMaintenance'
  BY <1>7 DEF RemoveInstalled, Fault, Entry, schedules, control, world, trial
<1>8. ASSUME NEW ok \in BOOLEAN, BringBack(ok) PROVE RunsOwnMaintenance'
  BY <1>8 DEF BringBack, Fault, Entry, schedules, control, world, trial
<1>9. CASE Restored
  BY <1>9 DEF Restored, Exit, Goto, Ended, schedules, control, world, trial
<1>10. ASSUME NEW ok \in BOOLEAN, Unmark(ok) PROVE RunsOwnMaintenance'
  BY <1>10 DEF Unmark, Fault, Window, Goto, schedules, control, world, trial
<1>11. CASE Announce
  BY <1>11 DEF Announce, Exit, Ended, schedules, world, trial
<1>12. CASE Revert
  BY <1>12 DEF Revert, Goto, program, control, world, trial
<1>13. CASE Reverted
  BY <1>13 DEF Reverted, Exit, Ended, program, world, trial
<1>14. CASE BeginSwap
  BY <1>14 DEF BeginSwap, Goto, schedules, control, world, trial
<1>15. CASE MoveAside
  BY <1>15 DEF MoveAside, Walk, Entry, schedules, control, world, trial
<1>16. CASE Place
  BY <1>16 DEF Place, Walk, Entry, schedules, control, world, trial
<1>17. CASE Record
  BY <1>17 DEF Record, Exit, Ended, schedules, world, trial
<1>18. CASE RecordSchedules
  BY <1>18 DEF RecordSchedules, Goto, program, control, world, trial
<1>19. CASE SelectSchedules
  BY <1>19 DEF SelectSchedules, Exit, Ended, program, world, trial
<1>20. CASE Migrate
  BY <1>20 DEF Migrate, schedules, control, process, world, trial
<1>21. CASE Opened
  BY <1>21 DEF Opened, Goto, program, schedules, control, world, trial
<1>22. CASE Settle
  BY <1>22 DEF Settle, control, world, trial
<1>23. ASSUME NEW ok \in BOOLEAN, Confirm(ok) PROVE RunsOwnMaintenance'
  BY <1>23 DEF Confirm, Unrecord, Fault, Tear, control, world, trial
<1>24. CASE Drained
  <2>1. CASE plan = None
    BY <1>24, <2>1, NoneAssumption
    DEF Drained, Exit, Ended, IInv, TypeOK, RunsOwnMaintenance, PlanIsCurrent, Off
  <2>2. CASE plan # None
    BY <1>24, <2>2, NoneAssumption
    DEF Drained, Goto, control, IInv, TypeOK, RunsOwnMaintenance, PlanIsCurrent, Off
  <2> QED
    BY <2>1, <2>2
<1>25. ASSUME NEW r \in Requests, NEW c \in Components, Apply(r, c) PROVE RunsOwnMaintenance'
  BY <1>25 DEF Apply, Alive, program, schedules, process, world, trial
<1>26. ASSUME NEW r \in Requests, Prepared(r) PROVE RunsOwnMaintenance'
  BY <1>26 DEF Prepared, Advance, Proceeds, Alive, program, schedules, process, world, trial
<1>27. ASSUME NEW r \in Requests, PrepareFails(r) PROVE RunsOwnMaintenance'
  BY <1>27 DEF PrepareFails, Alive, program, schedules, process, world, trial
<1>28. ASSUME NEW r \in Requests, Due(r) PROVE RunsOwnMaintenance'
  BY <1>28 DEF Due, Goto, Advance, Proceeds, Alive, program, schedules, process, world, trial
<1>29. CASE Cancel
  BY <1>29 DEF Cancel, Alive, program, schedules, process, world, trial
<1>30. CASE Crash
  BY <1>30 DEF Crash, Exit, Fault, Window, Running, program, schedules, world, trial
<1>31. CASE ServeFails
  BY <1>31 DEF ServeFails, Exit, Goto, Fault, RollBack, Failed, Ended, program, schedules,
      control, world, trial
<1>32. CASE CountFails
  BY <1>32 DEF CountFails, Exit, Fault, Ended, RunsTarget, program, schedules, world, trial
<1>33. CASE RevertFails
  BY <1>33 DEF RevertFails, Exit, Fault, program, schedules, world, trial
<1>34. CASE SwitchRefused
  BY <1>34 DEF SwitchRefused, Exit, Fault, SwitchFails, Ended, world, trial
<1>35. CASE SwapFails
  BY <1>35 DEF SwapFails, Exit, Fault, SwitchFails, Undo, Ended, world, trial
<1>36. CASE RecordFails
  BY <1>36 DEF RecordFails, Fault, program, schedules, control, world, trial
<1>37. CASE SelectFails
  BY <1>37 DEF SelectFails, Exit, Fault, SwitchFails, Ended, world, trial
<1>38. CASE Signal
  BY <1>38 DEF Signal, program, schedules, control, world, trial
<1>39. CASE OperatorStarts
  BY <1>39 DEF OperatorStarts, Goto, Fault, program, schedules, control, world, trial
<1>40. CASE Persist
  BY <1>40 DEF Persist, program, schedules, control, process, world, trial
<1> HIDE UpdateAssumption, NoneAssumption DEF IInv, RunsOwnMaintenance, PlanIsCurrent,
      TypeOK, Maintenance, Plan, Components, Off
<1> QED
  BY <1>1, <1>2, <1>3, <1>4, <1>5, <1>6, <1>7, <1>8, <1>9, <1>10, <1>11, <1>12, <1>13,
      <1>14, <1>15, <1>16, <1>17, <1>18, <1>19, <1>20, <1>21, <1>22, <1>23, <1>24, <1>25,
      <1>26, <1>27, <1>28, <1>29, <1>30, <1>31, <1>32, <1>33, <1>34, <1>35, <1>36, <1>37,
      <1>38, <1>39, <1>40 DEF Next, Own, Startup, Restore, Switch, Maintain, Fail

\* Every switch still follows from its plan.
LEMMA PlansLeadToSwitchesStep ==
  ASSUME IInv, Next
  PROVE  PlansLeadToSwitches'
<1> USE UpdateAssumption, NoneAssumption DEF IInv, PlansLeadToSwitches, RunsOwnMaintenance,
      PlanIsCurrent, TrialsAreRecorded, SelectionIsRecorded, TypeOK, Maintenance, Plan,
      Components, Off, Swapping
<1>1. CASE Boot
  BY <1>1 DEF Boot, program, schedules, control, world, trial
<1>2. CASE ForgetSchedules
  BY <1>2 DEF ForgetSchedules, program, control, process, world, trial
<1>3. CASE JudgeSchedules
  BY <1>3 DEF JudgeSchedules, Goto, Proceed, program, schedules, control, world, trial
<1>4. ASSUME NEW ok \in BOOLEAN, StartPlainly(ok) PROVE PlansLeadToSwitches'
  BY <1>4 DEF StartPlainly, Fault, Tear, Proceed, RunsTarget, schedules, control, world, trial
<1>5. CASE CountStart
  BY <1>5 DEF CountStart, Proceed, Acceptable, RunsTarget, schedules, control, world, trial
<1>6. CASE GiveUp
  BY <1>6 DEF GiveUp, Exit, RollBack, Acceptable, RunsTarget, program, schedules, control,
      world, trial
<1>7. ASSUME NEW ok \in BOOLEAN, RemoveInstalled(ok) PROVE PlansLeadToSwitches'
  BY <1>7 DEF RemoveInstalled, Fault, Entry, schedules, control, world, trial
<1>8. ASSUME NEW ok \in BOOLEAN, BringBack(ok) PROVE PlansLeadToSwitches'
  BY <1>8 DEF BringBack, Fault, Entry, schedules, control, world, trial
<1>9. CASE Restored
  BY <1>9 DEF Restored, Exit, Goto, Ended, program, schedules, control, world, trial
<1>10. ASSUME NEW ok \in BOOLEAN, Unmark(ok) PROVE PlansLeadToSwitches'
  BY <1>10 DEF Unmark, Fault, Window, Goto, schedules, control, world, trial
<1>11. CASE Announce
  BY <1>11 DEF Announce, Exit, Ended, program, schedules, world, trial
<1>12. CASE Revert
  BY <1>12 DEF Revert, Goto, program, control, world, trial
<1>13. CASE Reverted
  BY <1>13 DEF Reverted, Exit, Ended, program, world, trial
<1>14. CASE BeginSwap
  BY <1>14 DEF BeginSwap, Goto, schedules, control, world, trial
<1>15. CASE MoveAside
  BY <1>15 DEF MoveAside, Walk, Entry, schedules, control, world, trial
<1>16. CASE Place
  BY <1>16 DEF Place, Walk, Entry, schedules, control, world, trial
<1>17. CASE Record
  BY <1>17 DEF Record, Exit, Ended, schedules, world, trial
<1>18. CASE RecordSchedules
  BY <1>18 DEF RecordSchedules, Goto, program, control, world, trial
<1>19. CASE SelectSchedules
  BY <1>19 DEF SelectSchedules, Exit, Ended, program, world, trial
<1>20. CASE Migrate
  BY <1>20 DEF Migrate, schedules, control, process, world, trial
<1>21. CASE Opened
  BY <1>21 DEF Opened, Goto, program, schedules, control, world, trial
<1>22. CASE Settle
  BY <1>22 DEF Settle, program, schedules, control, world, trial
<1>23. ASSUME NEW ok \in BOOLEAN, Confirm(ok) PROVE PlansLeadToSwitches'
  BY <1>23 DEF Confirm, Unrecord, Fault, Tear, control, world, trial
<1>24. CASE Drained
  BY <1>24 DEF Drained, Exit, Goto, Window, Ended, program, schedules, control, world, trial
<1>25. ASSUME NEW r \in Requests, NEW c \in Components, Apply(r, c) PROVE PlansLeadToSwitches'
  BY <1>25 DEF Apply, Alive, program, schedules, process, world, trial
<1>26. ASSUME NEW r \in Requests, Prepared(r) PROVE PlansLeadToSwitches'
  BY <1>26 DEF Prepared, Advance, Proceeds, Alive, program, schedules, process, world, trial
<1>27. ASSUME NEW r \in Requests, PrepareFails(r) PROVE PlansLeadToSwitches'
  BY <1>27 DEF PrepareFails, Alive, program, schedules, process, world, trial
<1>28. ASSUME NEW r \in Requests, Due(r) PROVE PlansLeadToSwitches'
  BY <1>28 DEF Due, Goto, Advance, Proceeds, Alive, program, schedules, process, world, trial
<1>29. CASE Cancel
  BY <1>29 DEF Cancel, Alive, program, schedules, process, world, trial
<1>30. CASE Crash
  BY <1>30 DEF Crash, Exit, Fault, Window, Running, program, schedules, world, trial
<1>31. CASE ServeFails
  BY <1>31 DEF ServeFails, Exit, Goto, Fault, RollBack, Failed, Ended, program, schedules,
      control, world, trial
<1>32. CASE CountFails
  BY <1>32 DEF CountFails, Exit, Fault, Ended, RunsTarget, program, schedules, world, trial
<1>33. CASE RevertFails
  BY <1>33 DEF RevertFails, Exit, Fault, program, schedules, world, trial
<1>34. CASE SwitchRefused
  BY <1>34 DEF SwitchRefused, Exit, Fault, SwitchFails, Ended, program, schedules, world, trial
<1>35. CASE SwapFails
  BY <1>35 DEF SwapFails, Exit, Fault, SwitchFails, Undo, Tear, Ended, schedules, world, trial
<1>36. CASE RecordFails
  BY <1>36 DEF RecordFails, Fault, program, schedules, control, world, trial
<1>37. CASE SelectFails
  BY <1>37 DEF SelectFails, Exit, Fault, SwitchFails, Ended, program, world, trial
<1>38. CASE Signal
  BY <1>38 DEF Signal, program, schedules, control, world, trial
<1>39. CASE OperatorStarts
  BY <1>39 DEF OperatorStarts, Goto, Fault, program, schedules, control, world, trial
<1>40. CASE Persist
  BY <1>40 DEF Persist, program, schedules, control, process, world, trial
<1> HIDE UpdateAssumption, NoneAssumption DEF IInv, PlansLeadToSwitches, RunsOwnMaintenance,
      PlanIsCurrent, TrialsAreRecorded, SelectionIsRecorded, TypeOK, Maintenance, Plan,
      Components, Off, Swapping
<1> QED
  BY <1>1, <1>2, <1>3, <1>4, <1>5, <1>6, <1>7, <1>8, <1>9, <1>10, <1>11, <1>12, <1>13,
      <1>14, <1>15, <1>16, <1>17, <1>18, <1>19, <1>20, <1>21, <1>22, <1>23, <1>24, <1>25,
      <1>26, <1>27, <1>28, <1>29, <1>30, <1>31, <1>32, <1>33, <1>34, <1>35, <1>36, <1>37,
      <1>38, <1>39, <1>40 DEF Next, Own, Startup, Restore, Switch, Maintain, Fail

\* Every process on trial still has its record.
LEMMA TrialsAreRecordedStep ==
  ASSUME IInv, Next
  PROVE  TrialsAreRecorded'
<1> USE UpdateAssumption, NoneAssumption DEF IInv, TrialsAreRecorded, PlansLeadToSwitches,
      RunsOwnMaintenance, SelectionIsRecorded, RunsTarget, TypeOK, Components, Off,
      Swapping, Mark, ScheduleMark
<1>1. CASE Boot
  BY <1>1 DEF Boot, program, schedules, control, world, trial
<1>2. CASE ForgetSchedules
  BY <1>2 DEF ForgetSchedules, program, control, process, world, trial
<1>3. CASE JudgeSchedules
  <2>1. at = "starting" /\ confirm = None /\ settled = "no" /\ settled' = "no"
    BY <1>3 DEF JudgeSchedules, Proceed, Goto, IInv, TrialsAreRecorded
  <2>2. CASE at' = "opening"
    BY <1>3, <2>1, <2>2, NoneAssumption
    DEF JudgeSchedules, Proceed, Goto, IInv, TrialsAreRecorded, TypeOK, ScheduleMark, Off
  <2>3. CASE at' = "reverting"
    BY <2>3 DEF TrialsAreRecorded, Off
  <2> QED
    BY <1>3, <2>2, <2>3 DEF JudgeSchedules, Proceed, Goto
<1>4. ASSUME NEW ok \in BOOLEAN, StartPlainly(ok) PROVE TrialsAreRecorded'
  BY <1>4 DEF StartPlainly, Fault, Tear, Proceed, schedules, control, world, trial
<1>5. CASE CountStart
  BY <1>5 DEF CountStart, Proceed, Acceptable, schedules, control, world, trial
<1>6. CASE GiveUp
  BY <1>6 DEF GiveUp, Exit, RollBack, Acceptable, program, schedules, control, world, trial
<1>7. ASSUME NEW ok \in BOOLEAN, RemoveInstalled(ok) PROVE TrialsAreRecorded'
  BY <1>7 DEF RemoveInstalled, Fault, Entry, schedules, control, world, trial
<1>8. ASSUME NEW ok \in BOOLEAN, BringBack(ok) PROVE TrialsAreRecorded'
  BY <1>8 DEF BringBack, Fault, Entry, schedules, control, world, trial
<1>9. CASE Restored
  BY <1>9 DEF Restored, Exit, Goto, Ended, program, schedules, control, world, trial
<1>10. ASSUME NEW ok \in BOOLEAN, Unmark(ok) PROVE TrialsAreRecorded'
  BY <1>10 DEF Unmark, Fault, Window, Goto, schedules, control, world, trial
<1>11. CASE Announce
  BY <1>11 DEF Announce, Exit, Ended, program, schedules, world, trial
<1>12. CASE Revert
  BY <1>12 DEF Revert, Goto, program, control, world, trial
<1>13. CASE Reverted
  BY <1>13 DEF Reverted, Exit, Ended, program, world, trial
<1>14. CASE BeginSwap
  BY <1>14 DEF BeginSwap, Goto, schedules, control, world, trial
<1>15. CASE MoveAside
  BY <1>15 DEF MoveAside, Walk, Entry, schedules, control, world, trial
<1>16. CASE Place
  BY <1>16 DEF Place, Walk, Entry, schedules, control, world, trial
<1>17. CASE Record
  BY <1>17 DEF Record, Exit, Ended, schedules, world, trial
<1>18. CASE RecordSchedules
  BY <1>18 DEF RecordSchedules, Goto, program, control, world, trial
<1>19. CASE SelectSchedules
  BY <1>19 DEF SelectSchedules, Exit, Ended, program, world, trial
<1>20. CASE Migrate
  BY <1>20 DEF Migrate, schedules, control, process, world, trial
<1>21. CASE Opened
  BY <1>21 DEF Opened, Goto, program, schedules, control, world, trial
<1>22. CASE Settle
  BY <1>22 DEF Settle, program, schedules, control, world, trial
<1>23. ASSUME NEW ok \in BOOLEAN, Confirm(ok) PROVE TrialsAreRecorded'
  BY <1>23 DEF Confirm, Unrecord, Fault, Tear, control, world, trial
<1>24. CASE Drained
  BY <1>24 DEF Drained, Exit, Goto, Window, Ended, program, schedules, control, world, trial
<1>25. ASSUME NEW r \in Requests, NEW c \in Components, Apply(r, c) PROVE TrialsAreRecorded'
  BY <1>25 DEF Apply, Alive, program, schedules, process, world, trial
<1>26. ASSUME NEW r \in Requests, Prepared(r) PROVE TrialsAreRecorded'
  BY <1>26 DEF Prepared, Advance, Proceeds, Alive, program, schedules, process, world, trial
<1>27. ASSUME NEW r \in Requests, PrepareFails(r) PROVE TrialsAreRecorded'
  BY <1>27 DEF PrepareFails, Alive, program, schedules, process, world, trial
<1>28. ASSUME NEW r \in Requests, Due(r) PROVE TrialsAreRecorded'
  BY <1>28 DEF Due, Goto, Advance, Proceeds, Alive, program, schedules, process, world, trial
<1>29. CASE Cancel
  BY <1>29 DEF Cancel, Alive, program, schedules, process, world, trial
<1>30. CASE Crash
  BY <1>30 DEF Crash, Exit, Fault, Window, Running, program, schedules, world, trial
<1>31. CASE ServeFails
  BY <1>31 DEF ServeFails, Exit, Goto, Fault, RollBack, Failed, Ended, program, schedules,
      control, world, trial
<1>32. CASE CountFails
  BY <1>32 DEF CountFails, Exit, Fault, Ended, program, schedules, world, trial
<1>33. CASE RevertFails
  BY <1>33 DEF RevertFails, Exit, Fault, program, schedules, world, trial
<1>34. CASE SwitchRefused
  BY <1>34 DEF SwitchRefused, Exit, Fault, SwitchFails, Ended, program, schedules, world, trial
<1>35. CASE SwapFails
  BY <1>35 DEF SwapFails, Exit, Fault, SwitchFails, Undo, Tear, Ended, schedules, world, trial
<1>36. CASE RecordFails
  BY <1>36 DEF RecordFails, Fault, program, schedules, control, world, trial
<1>37. CASE SelectFails
  BY <1>37 DEF SelectFails, Exit, Fault, SwitchFails, Ended, program, world, trial
<1>38. CASE Signal
  BY <1>38 DEF Signal, program, schedules, control, world, trial
<1>39. CASE OperatorStarts
  BY <1>39 DEF OperatorStarts, Goto, Fault, program, schedules, control, world, trial
<1>40. CASE Persist
  BY <1>40 DEF Persist, program, schedules, control, process, world, trial
<1> HIDE UpdateAssumption, NoneAssumption DEF IInv, TrialsAreRecorded, PlansLeadToSwitches,
      RunsOwnMaintenance, SelectionIsRecorded, RunsTarget, TypeOK, Components, Off,
      Swapping, Mark, ScheduleMark
<1> QED
  BY <1>1, <1>2, <1>3, <1>4, <1>5, <1>6, <1>7, <1>8, <1>9, <1>10, <1>11, <1>12, <1>13,
      <1>14, <1>15, <1>16, <1>17, <1>18, <1>19, <1>20, <1>21, <1>22, <1>23, <1>24, <1>25,
      <1>26, <1>27, <1>28, <1>29, <1>30, <1>31, <1>32, <1>33, <1>34, <1>35, <1>36, <1>37,
      <1>38, <1>39, <1>40 DEF Next, Own, Startup, Restore, Switch, Maintain, Fail

\* The record of the schedules still keeps the selection to go back to.
LEMMA SelectionIsRecordedStep ==
  ASSUME IInv, Next
  PROVE  SelectionIsRecorded'
<1> USE UpdateAssumption, NoneAssumption DEF IInv, SelectionIsRecorded, SchedulesAreJudged,
      RunsOwnMaintenance, PlanIsCurrent, PlansLeadToSwitches, TrialsAreRecorded, TypeOK,
      Components, Off, Swapping, ScheduleMark, Owned
<1>1. CASE Boot
  BY <1>1 DEF Boot, program, schedules, control, world, trial
<1>2. CASE ForgetSchedules
  BY <1>2 DEF ForgetSchedules, program, control, process, world, trial
<1>3. CASE JudgeSchedules
  BY <1>3 DEF JudgeSchedules, Goto, Proceed, program, schedules, control, world, trial
<1>4. ASSUME NEW ok \in BOOLEAN, StartPlainly(ok) PROVE SelectionIsRecorded'
  BY <1>4 DEF StartPlainly, Fault, Tear, Proceed, RunsTarget, schedules, control, world, trial
<1>5. CASE CountStart
  BY <1>5 DEF CountStart, Proceed, Acceptable, RunsTarget, schedules, control, world, trial
<1>6. CASE GiveUp
  BY <1>6 DEF GiveUp, Exit, RollBack, Acceptable, RunsTarget, program, schedules, control,
      world, trial
<1>7. ASSUME NEW ok \in BOOLEAN, RemoveInstalled(ok) PROVE SelectionIsRecorded'
  BY <1>7 DEF RemoveInstalled, Fault, Entry, schedules, control, world, trial
<1>8. ASSUME NEW ok \in BOOLEAN, BringBack(ok) PROVE SelectionIsRecorded'
  BY <1>8 DEF BringBack, Fault, Entry, schedules, control, world, trial
<1>9. CASE Restored
  BY <1>9 DEF Restored, Exit, Goto, Ended, program, schedules, control, world, trial
<1>10. ASSUME NEW ok \in BOOLEAN, Unmark(ok) PROVE SelectionIsRecorded'
  BY <1>10 DEF Unmark, Fault, Window, Goto, schedules, control, world, trial
<1>11. CASE Announce
  BY <1>11 DEF Announce, Exit, Ended, program, schedules, world, trial
<1>12. CASE Revert
  BY <1>12 DEF Revert, Goto, program, control, world, trial
<1>13. CASE Reverted
  BY <1>13 DEF Reverted, Exit, Ended, program, world, trial
<1>14. CASE BeginSwap
  BY <1>14 DEF BeginSwap, Goto, schedules, control, world, trial
<1>15. CASE MoveAside
  BY <1>15 DEF MoveAside, Walk, Entry, schedules, control, world, trial
<1>16. CASE Place
  BY <1>16 DEF Place, Walk, Entry, schedules, control, world, trial
<1>17. CASE Record
  <2>1. plan # None
    BY <1>17 DEF Record, IInv, PlansLeadToSwitches, Swapping
  <2>2. /\ maintenance # None
        /\ maintenance.component = plan.component
    BY <2>1, PlannedMaintenance DEF IInv, RunsOwnMaintenance
  <2>3. pending = None /\ (at # "reporting" => schedulePending = None)
    BY <2>2 DEF IInv, PlansLeadToSwitches
  <2>4. plan.component = "schedules" => selection # "new" /\ selection = origin
    BY <2>2, NoneAssumption DEF IInv, PlansLeadToSwitches, TypeOK
  <2> QED
    BY <1>17, <2>3 DEF Record, Exit, Ended, schedules, world, trial, IInv, SelectionIsRecorded,
      SchedulesAreJudged, TypeOK
<1>18. CASE RecordSchedules
  <2>1. plan # None
    BY <1>18 DEF RecordSchedules, IInv, PlansLeadToSwitches, Swapping
  <2>2. /\ maintenance # None
        /\ maintenance.component = plan.component
    BY <2>1, PlannedMaintenance DEF IInv, RunsOwnMaintenance
  <2>3. pending = None /\ (at # "reporting" => schedulePending = None)
    BY <2>2 DEF IInv, PlansLeadToSwitches
  <2>4. plan.component = "schedules" => selection # "new" /\ selection = origin
    BY <2>2, NoneAssumption DEF IInv, PlansLeadToSwitches, TypeOK
  <2>5. plan.component = "schedules"
    BY <1>18 DEF RecordSchedules, IInv, PlansLeadToSwitches
  <2> QED
    BY <1>18, <2>3, <2>4, <2>5, NoneAssumption DEF RecordSchedules, Goto, program, world, trial,
      ScheduleMark, IInv, SelectionIsRecorded, SchedulesAreJudged, TypeOK
<1>19. CASE SelectSchedules
  BY <1>19 DEF SelectSchedules, Exit, Ended, program, world, trial
<1>20. CASE Migrate
  BY <1>20 DEF Migrate, schedules, control, process, world, trial
<1>21. CASE Opened
  BY <1>21 DEF Opened, Goto, program, schedules, control, world, trial
<1>22. CASE Settle
  BY <1>22 DEF Settle, program, schedules, control, world, trial
<1>23. ASSUME NEW ok \in BOOLEAN, Confirm(ok) PROVE SelectionIsRecorded'
  BY <1>23 DEF Confirm, Unrecord, Fault, Tear, control, world, trial
<1>24. CASE Drained
  BY <1>24 DEF Drained, Exit, Goto, Window, Ended, program, schedules, control, world, trial
<1>25. ASSUME NEW r \in Requests, NEW c \in Components, Apply(r, c) PROVE SelectionIsRecorded'
  BY <1>25 DEF Apply, Alive, program, schedules, process, world, trial
<1>26. ASSUME NEW r \in Requests, Prepared(r) PROVE SelectionIsRecorded'
  BY <1>26 DEF Prepared, Advance, Proceeds, Alive, program, schedules, process, world, trial
<1>27. ASSUME NEW r \in Requests, PrepareFails(r) PROVE SelectionIsRecorded'
  BY <1>27 DEF PrepareFails, Alive, program, schedules, process, world, trial
<1>28. ASSUME NEW r \in Requests, Due(r) PROVE SelectionIsRecorded'
  BY <1>28 DEF Due, Goto, Advance, Proceeds, Alive, program, schedules, process, world, trial
<1>29. CASE Cancel
  BY <1>29 DEF Cancel, Alive, program, schedules, process, world, trial
<1>30. CASE Crash
  BY <1>30 DEF Crash, Exit, Fault, Window, Running, program, schedules, world, trial
<1>31. CASE ServeFails
  BY <1>31 DEF ServeFails, Exit, Goto, Fault, RollBack, Failed, Ended, program, schedules,
      control, world, trial
<1>32. CASE CountFails
  BY <1>32 DEF CountFails, Exit, Fault, Ended, RunsTarget, program, schedules, world, trial
<1>33. CASE RevertFails
  BY <1>33 DEF RevertFails, Exit, Fault, program, schedules, world, trial
<1>34. CASE SwitchRefused
  <2>0. plan # None
    BY <1>34 DEF SwitchRefused, IInv, PlansLeadToSwitches, Swapping
  <2>2. /\ maintenance # None
        /\ maintenance.component = plan.component
    BY <2>0, PlannedMaintenance DEF IInv, RunsOwnMaintenance
  <2>3. pending = None /\ (at # "reporting" => schedulePending = None)
    BY <2>2 DEF IInv, PlansLeadToSwitches
  <2>4. plan.component = "schedules" => selection # "new" /\ selection = origin
    BY <2>2, NoneAssumption DEF IInv, PlansLeadToSwitches, TypeOK
  <2>5. at # "reporting" /\ plan \in Plan
    BY <1>34, <2>0 DEF SwitchRefused, IInv, TypeOK
  <2>6. plan.component \in Components
    BY <2>5 DEF Plan
  <2> QED
    BY <1>34, <2>3, <2>4, <2>5, <2>6 DEF SwitchRefused, SwitchFails, Exit, Ended, program, schedules, world, trial,
      Components, IInv, SelectionIsRecorded, SchedulesAreJudged, TypeOK
<1>35. CASE SwapFails
  BY <1>35 DEF SwapFails, Exit, Fault, SwitchFails, Undo, Tear, Ended, schedules, world, trial
<1>36. CASE RecordFails
  BY <1>36 DEF RecordFails, Fault, program, schedules, control, world, trial
<1>37. CASE SelectFails
  <2>1. plan # None
    BY <1>37 DEF SelectFails, IInv, PlansLeadToSwitches, Swapping
  <2>2. /\ maintenance # None
        /\ maintenance.component = plan.component
    BY <2>1, PlannedMaintenance DEF IInv, RunsOwnMaintenance
  <2>3. pending = None /\ (at # "reporting" => schedulePending = None)
    BY <2>2 DEF IInv, PlansLeadToSwitches
  <2>4. plan.component = "schedules" => selection # "new" /\ selection = origin
    BY <2>2, NoneAssumption DEF IInv, PlansLeadToSwitches, TypeOK
  <2>5. plan.component = "schedules"
    BY <1>37 DEF SelectFails, IInv, PlansLeadToSwitches
  <2> QED
    BY <1>37, <2>3, <2>4, <2>5 DEF SelectFails, SwitchFails, Exit, Ended, program, world, trial, IInv,
      SelectionIsRecorded, SchedulesAreJudged, TypeOK
<1>38. CASE Signal
  BY <1>38 DEF Signal, program, schedules, control, world, trial
<1>39. CASE OperatorStarts
  BY <1>39 DEF OperatorStarts, Goto, Fault, program, schedules, control, world, trial
<1>40. CASE Persist
  BY <1>40 DEF Persist, program, schedules, control, process, world, trial
<1> HIDE UpdateAssumption, NoneAssumption DEF IInv, SelectionIsRecorded, SchedulesAreJudged,
      RunsOwnMaintenance, PlanIsCurrent, PlansLeadToSwitches, TrialsAreRecorded, TypeOK,
      Components, Off, Swapping, ScheduleMark, Owned
<1> QED
  BY <1>1, <1>2, <1>3, <1>4, <1>5, <1>6, <1>7, <1>8, <1>9, <1>10, <1>11, <1>12, <1>13,
      <1>14, <1>15, <1>16, <1>17, <1>18, <1>19, <1>20, <1>21, <1>22, <1>23, <1>24, <1>25,
      <1>26, <1>27, <1>28, <1>29, <1>30, <1>31, <1>32, <1>33, <1>34, <1>35, <1>36, <1>37,
      <1>38, <1>39, <1>40 DEF Next, Own, Startup, Restore, Switch, Maintain, Fail

\* Migrated saves still belong to the program that is installed.
LEMMA SavesFollowProgramStep ==
  ASSUME IInv, Next
  PROVE  SavesFollowProgram'
<1> USE UpdateAssumption, NoneAssumption, EntriesExist DEF IInv, SavesFollowProgram,
      PlansLeadToSwitches, TrialsAreRecorded, RunsOwnMaintenance, TypeOK, Components, Off,
      Swapping, Owned
<1>1. CASE Boot
  BY <1>1 DEF Boot, program, schedules, control, world, trial
<1>2. CASE ForgetSchedules
  BY <1>2 DEF ForgetSchedules, program, control, process, world, trial
<1>3. CASE JudgeSchedules
  BY <1>3 DEF JudgeSchedules, Goto, Proceed, program, schedules, control, world, trial
<1>4. ASSUME NEW ok \in BOOLEAN, StartPlainly(ok) PROVE SavesFollowProgram'
  BY <1>4 DEF StartPlainly, Fault, Tear, Proceed, RunsTarget, schedules, control, world, trial
<1>5. CASE CountStart
  BY <1>5 DEF CountStart, Proceed, Acceptable, RunsTarget, schedules, control, world, trial
<1>6. CASE GiveUp
  BY <1>6 DEF GiveUp, Exit, RollBack, Acceptable, RunsTarget, program, schedules, control,
      world, trial
<1>7. ASSUME NEW ok \in BOOLEAN, RemoveInstalled(ok) PROVE SavesFollowProgram'
  BY <1>7 DEF RemoveInstalled, Fault, Entry, schedules, control, world, trial
<1>8. ASSUME NEW ok \in BOOLEAN, BringBack(ok) PROVE SavesFollowProgram'
  BY <1>8 DEF BringBack, Fault, Entry, schedules, control, world, trial
<1>9. CASE Restored
  BY <1>9 DEF Restored, Exit, Goto, Ended, program, schedules, control, world, trial
<1>10. ASSUME NEW ok \in BOOLEAN, Unmark(ok) PROVE SavesFollowProgram'
  BY <1>10 DEF Unmark, Fault, Window, Goto, schedules, control, world, trial
<1>11. CASE Announce
  BY <1>11 DEF Announce, Exit, Ended, program, schedules, world, trial
<1>12. CASE Revert
  BY <1>12 DEF Revert, Goto, program, control, world, trial
<1>13. CASE Reverted
  BY <1>13 DEF Reverted, Exit, Ended, program, world, trial
<1>14. CASE BeginSwap
  <2>1. plan # None /\ plan.component = "server"
    BY <1>14 DEF BeginSwap, IInv, PlansLeadToSwitches, Swapping
  <2>2. maintenance # None /\ maintenance.component = "server"
    BY <2>1, PlannedMaintenance DEF IInv, RunsOwnMaintenance
  <2>3. exe = "old"
    BY <2>1, <2>2 DEF IInv, PlansLeadToSwitches
  <2> QED
    BY <1>14, <2>3 DEF BeginSwap, Goto, world, trial, IInv, SavesFollowProgram, TypeOK
<1>15. CASE MoveAside
  BY <1>15 DEF MoveAside, Walk, Entry, schedules, control, world, trial
<1>16. CASE Place
  BY <1>16 DEF Place, Walk, Entry, schedules, control, world, trial
<1>17. CASE Record
  BY <1>17 DEF Record, Exit, Ended, schedules, world, trial
<1>18. CASE RecordSchedules
  BY <1>18 DEF RecordSchedules, Goto, program, control, world, trial
<1>19. CASE SelectSchedules
  BY <1>19 DEF SelectSchedules, Exit, Ended, program, world, trial
<1>20. CASE Migrate
  BY <1>20 DEF Migrate, schedules, control, process, world, trial
<1>21. CASE Opened
  BY <1>21 DEF Opened, Goto, program, schedules, control, world, trial
<1>22. CASE Settle
  BY <1>22 DEF Settle, program, schedules, control, world, trial
<1>23. ASSUME NEW ok \in BOOLEAN, Confirm(ok) PROVE SavesFollowProgram'
  BY <1>23 DEF Confirm, Unrecord, Fault, Tear, control, world, trial
<1>24. CASE Drained
  BY <1>24 DEF Drained, Exit, Goto, Window, Ended, program, schedules, control, world, trial
<1>25. ASSUME NEW r \in Requests, NEW c \in Components, Apply(r, c) PROVE SavesFollowProgram'
  BY <1>25 DEF Apply, Alive, program, schedules, process, world, trial
<1>26. ASSUME NEW r \in Requests, Prepared(r) PROVE SavesFollowProgram'
  BY <1>26 DEF Prepared, Advance, Proceeds, Alive, program, schedules, process, world, trial
<1>27. ASSUME NEW r \in Requests, PrepareFails(r) PROVE SavesFollowProgram'
  BY <1>27 DEF PrepareFails, Alive, program, schedules, process, world, trial
<1>28. ASSUME NEW r \in Requests, Due(r) PROVE SavesFollowProgram'
  BY <1>28 DEF Due, Goto, Advance, Proceeds, Alive, program, schedules, process, world, trial
<1>29. CASE Cancel
  BY <1>29 DEF Cancel, Alive, program, schedules, process, world, trial
<1>30. CASE Crash
  BY <1>30 DEF Crash, Exit, Fault, Window, Running, program, schedules, world, trial
<1>31. CASE ServeFails
  BY <1>31 DEF ServeFails, Exit, Goto, Fault, RollBack, Failed, Ended, program, schedules,
      control, world, trial
<1>32. CASE CountFails
  BY <1>32 DEF CountFails, Exit, Fault, Ended, RunsTarget, program, schedules, world, trial
<1>33. CASE RevertFails
  BY <1>33 DEF RevertFails, Exit, Fault, program, schedules, world, trial
<1>34. CASE SwitchRefused
  BY <1>34 DEF SwitchRefused, Exit, Fault, SwitchFails, Ended, program, schedules, world, trial
<1>35. CASE SwapFails
  BY <1>35 DEF SwapFails, Exit, Fault, SwitchFails, Undo, Tear, Ended, schedules, world, trial
<1>36. CASE RecordFails
  BY <1>36 DEF RecordFails, Fault, program, schedules, control, world, trial
<1>37. CASE SelectFails
  BY <1>37 DEF SelectFails, Exit, Fault, SwitchFails, Ended, program, world, trial
<1>38. CASE Signal
  BY <1>38 DEF Signal, program, schedules, control, world, trial
<1>39. CASE OperatorStarts
  BY <1>39 DEF OperatorStarts, Goto, Fault, program, schedules, control, world, trial
<1>40. CASE Persist
  BY <1>40 DEF Persist, program, schedules, control, process, world, trial
<1> HIDE UpdateAssumption, NoneAssumption, EntriesExist DEF IInv, SavesFollowProgram,
      PlansLeadToSwitches, TrialsAreRecorded, RunsOwnMaintenance, TypeOK, Components, Off,
      Swapping, Owned
<1> QED
  BY <1>1, <1>2, <1>3, <1>4, <1>5, <1>6, <1>7, <1>8, <1>9, <1>10, <1>11, <1>12, <1>13,
      <1>14, <1>15, <1>16, <1>17, <1>18, <1>19, <1>20, <1>21, <1>22, <1>23, <1>24, <1>25,
      <1>26, <1>27, <1>28, <1>29, <1>30, <1>31, <1>32, <1>33, <1>34, <1>35, <1>36, <1>37,
      <1>38, <1>39, <1>40 DEF Next, Own, Startup, Restore, Switch, Maintain, Fail

\* Every start is still counted by the record.
LEMMA StartsAreCountedStep ==
  ASSUME IInv, Next
  PROVE  StartsAreCounted'
<1> USE UpdateAssumption, NoneAssumption DEF IInv, StartsAreCounted, TypeOK, Mark
<1>1. CASE Boot
  BY <1>1 DEF Boot, program, schedules, control, world, trial
<1>2. CASE ForgetSchedules
  BY <1>2 DEF ForgetSchedules, program, control, process, world, trial
<1>3. CASE JudgeSchedules
  BY <1>3 DEF JudgeSchedules, Goto, Proceed, program, schedules, control, world, trial
<1>4. ASSUME NEW ok \in BOOLEAN, StartPlainly(ok) PROVE StartsAreCounted'
  BY <1>4 DEF StartPlainly, Fault, Tear, Proceed, RunsTarget, schedules, control, world, trial
<1>5. CASE CountStart
  BY <1>5 DEF CountStart, Proceed, Acceptable, RunsTarget, schedules, control, world, trial
<1>6. CASE GiveUp
  BY <1>6 DEF GiveUp, Exit, RollBack, Acceptable, RunsTarget, program, schedules, control,
      world, trial
<1>7. ASSUME NEW ok \in BOOLEAN, RemoveInstalled(ok) PROVE StartsAreCounted'
  BY <1>7 DEF RemoveInstalled, Fault, Entry, schedules, control, world, trial
<1>8. ASSUME NEW ok \in BOOLEAN, BringBack(ok) PROVE StartsAreCounted'
  BY <1>8 DEF BringBack, Fault, Entry, schedules, control, world, trial
<1>9. CASE Restored
  BY <1>9 DEF Restored, Exit, Goto, Ended, program, schedules, control, world, trial
<1>10. ASSUME NEW ok \in BOOLEAN, Unmark(ok) PROVE StartsAreCounted'
  BY <1>10 DEF Unmark, Fault, Window, Goto, schedules, control, world, trial
<1>11. CASE Announce
  BY <1>11 DEF Announce, Exit, Ended, program, schedules, world, trial
<1>12. CASE Revert
  BY <1>12 DEF Revert, Goto, program, control, world, trial
<1>13. CASE Reverted
  BY <1>13 DEF Reverted, Exit, Ended, program, world, trial
<1>14. CASE BeginSwap
  BY <1>14 DEF BeginSwap, Goto, schedules, control, world, trial
<1>15. CASE MoveAside
  BY <1>15 DEF MoveAside, Walk, Entry, schedules, control, world, trial
<1>16. CASE Place
  BY <1>16 DEF Place, Walk, Entry, schedules, control, world, trial
<1>17. CASE Record
  BY <1>17 DEF Record, Exit, Ended, schedules, world, trial
<1>18. CASE RecordSchedules
  BY <1>18 DEF RecordSchedules, Goto, program, control, world, trial
<1>19. CASE SelectSchedules
  BY <1>19 DEF SelectSchedules, Exit, Ended, program, world, trial
<1>20. CASE Migrate
  BY <1>20 DEF Migrate, schedules, control, process, world, trial
<1>21. CASE Opened
  BY <1>21 DEF Opened, Goto, program, schedules, control, world, trial
<1>22. CASE Settle
  BY <1>22 DEF Settle, program, schedules, control, world, trial
<1>23. ASSUME NEW ok \in BOOLEAN, Confirm(ok) PROVE StartsAreCounted'
  BY <1>23 DEF Confirm, Unrecord, Fault, Tear, control, world, trial
<1>24. CASE Drained
  BY <1>24 DEF Drained, Exit, Goto, Window, Ended, program, schedules, control, world, trial
<1>25. ASSUME NEW r \in Requests, NEW c \in Components, Apply(r, c) PROVE StartsAreCounted'
  BY <1>25 DEF Apply, Alive, program, schedules, process, world, trial
<1>26. ASSUME NEW r \in Requests, Prepared(r) PROVE StartsAreCounted'
  BY <1>26 DEF Prepared, Advance, Proceeds, Alive, program, schedules, process, world, trial
<1>27. ASSUME NEW r \in Requests, PrepareFails(r) PROVE StartsAreCounted'
  BY <1>27 DEF PrepareFails, Alive, program, schedules, process, world, trial
<1>28. ASSUME NEW r \in Requests, Due(r) PROVE StartsAreCounted'
  BY <1>28 DEF Due, Goto, Advance, Proceeds, Alive, program, schedules, process, world, trial
<1>29. CASE Cancel
  BY <1>29 DEF Cancel, Alive, program, schedules, process, world, trial
<1>30. CASE Crash
  BY <1>30 DEF Crash, Exit, Fault, Window, Running, program, schedules, world, trial
<1>31. CASE ServeFails
  BY <1>31 DEF ServeFails, Exit, Goto, Fault, RollBack, Failed, Ended, program, schedules,
      control, world, trial
<1>32. CASE CountFails
  BY <1>32 DEF CountFails, Exit, Fault, Ended, RunsTarget, program, schedules, world, trial
<1>33. CASE RevertFails
  BY <1>33 DEF RevertFails, Exit, Fault, program, schedules, world, trial
<1>34. CASE SwitchRefused
  BY <1>34 DEF SwitchRefused, Exit, Fault, SwitchFails, Ended, program, schedules, world, trial
<1>35. CASE SwapFails
  BY <1>35 DEF SwapFails, Exit, Fault, SwitchFails, Undo, Tear, Ended, schedules, world, trial
<1>36. CASE RecordFails
  BY <1>36 DEF RecordFails, Fault, program, schedules, control, world, trial
<1>37. CASE SelectFails
  BY <1>37 DEF SelectFails, Exit, Fault, SwitchFails, Ended, program, world, trial
<1>38. CASE Signal
  BY <1>38 DEF Signal, program, schedules, control, world, trial
<1>39. CASE OperatorStarts
  BY <1>39 DEF OperatorStarts, Goto, Fault, program, schedules, control, world, trial
<1>40. CASE Persist
  BY <1>40 DEF Persist, program, schedules, control, process, world, trial
<1> HIDE UpdateAssumption, NoneAssumption DEF IInv, StartsAreCounted, TypeOK, Mark
<1> QED
  BY <1>1, <1>2, <1>3, <1>4, <1>5, <1>6, <1>7, <1>8, <1>9, <1>10, <1>11, <1>12, <1>13,
      <1>14, <1>15, <1>16, <1>17, <1>18, <1>19, <1>20, <1>21, <1>22, <1>23, <1>24, <1>25,
      <1>26, <1>27, <1>28, <1>29, <1>30, <1>31, <1>32, <1>33, <1>34, <1>35, <1>36, <1>37,
      <1>38, <1>39, <1>40 DEF Next, Own, Startup, Restore, Switch, Maintain, Fail

\* The new program still serves on trial only.
LEMMA NewIsOnTrialStep ==
  ASSUME IInv, Next
  PROVE  NewIsOnTrial'
<1> USE UpdateAssumption, NoneAssumption DEF IInv, NewIsOnTrial, SavesFollowProgram,
      InstallationIsKnown, Untorn, Known, Changing, TrialsAreRecorded, PlansLeadToSwitches,
      Settled, TypeOK, Components, Off, Swapping
<1>1. CASE Boot
  BY <1>1 DEF Boot, program, schedules, control, world, trial
<1>2. CASE ForgetSchedules
  BY <1>2 DEF ForgetSchedules, program, control, process, world, trial
<1>3. CASE JudgeSchedules
  <2> SUFFICES ASSUME at' = "opening", exe' = "new", Untorn'
               PROVE  confirm' = "server" \/ "server" \in healthy'
    BY <1>3 DEF JudgeSchedules, NewIsOnTrial, Proceed, Goto
  <2>1. exe = "new" /\ exe = installed[Program] /\ Untorn /\ healthy' = healthy /\ at = "starting"
    BY <1>3 DEF JudgeSchedules, Proceed, Goto, trial, IInv, SavesFollowProgram, Untorn
  <2>2. Settled
    BY <2>1 DEF IInv, InstallationIsKnown, Known, Changing
  <2>3. installed = New
    BY <2>1, <2>2, OriginalProgram DEF Settled
  <2>4. pending = None
    BY <1>3 DEF JudgeSchedules, IInv, SelectionIsRecorded
  <2> QED
    BY <2>1, <2>2, <2>3, <2>4, OriginalProgram DEF Settled
<1>4. ASSUME NEW ok \in BOOLEAN, StartPlainly(ok) PROVE NewIsOnTrial'
  <2> SUFFICES ASSUME at' = "opening", exe' = "new", Untorn'
               PROVE  confirm' = "server" \/ "server" \in healthy'
    BY <1>4 DEF StartPlainly, NewIsOnTrial, Proceed, Goto
  <2>1. exe = "new" /\ exe = installed[Program] /\ Untorn /\ healthy' = healthy /\ at = "starting"
    BY <1>4 DEF StartPlainly, Tear, Proceed, trial, IInv, SavesFollowProgram, Untorn
  <2>2. Settled
    BY <2>1 DEF IInv, InstallationIsKnown, Known, Changing
  <2>3. installed = New
    BY <2>1, <2>2, OriginalProgram DEF Settled
  <2>4. RunsTarget
    BY <2>3, OriginalProgram DEF RunsTarget
  <2>5. pending = None
    BY <1>4, <2>4 DEF StartPlainly
  <2> QED
    BY <2>1, <2>2, <2>3, <2>5, OriginalProgram DEF Settled
<1>5. CASE CountStart
  BY <1>5 DEF CountStart, Proceed, Acceptable, RunsTarget, schedules, control, world, trial
<1>6. CASE GiveUp
  BY <1>6 DEF GiveUp, Exit, RollBack, Acceptable, RunsTarget, program, schedules, control,
      world, trial
<1>7. ASSUME NEW ok \in BOOLEAN, RemoveInstalled(ok) PROVE NewIsOnTrial'
  BY <1>7 DEF RemoveInstalled, Fault, Entry, schedules, control, world, trial
<1>8. ASSUME NEW ok \in BOOLEAN, BringBack(ok) PROVE NewIsOnTrial'
  BY <1>8 DEF BringBack, Fault, Entry, schedules, control, world, trial
<1>9. CASE Restored
  BY <1>9 DEF Restored, Exit, Goto, Ended, program, schedules, control, world, trial
<1>10. ASSUME NEW ok \in BOOLEAN, Unmark(ok) PROVE NewIsOnTrial'
  BY <1>10 DEF Unmark, Fault, Window, Goto, schedules, control, world, trial
<1>11. CASE Announce
  BY <1>11 DEF Announce, Exit, Ended, program, schedules, world, trial
<1>12. CASE Revert
  BY <1>12 DEF Revert, Goto, program, control, world, trial
<1>13. CASE Reverted
  BY <1>13 DEF Reverted, Exit, Ended, program, world, trial
<1>14. CASE BeginSwap
  BY <1>14 DEF BeginSwap, Goto, schedules, control, world, trial
<1>15. CASE MoveAside
  BY <1>15 DEF MoveAside, Walk, Entry, schedules, control, world, trial
<1>16. CASE Place
  BY <1>16 DEF Place, Walk, Entry, schedules, control, world, trial
<1>17. CASE Record
  BY <1>17 DEF Record, Exit, Ended, schedules, world, trial
<1>18. CASE RecordSchedules
  BY <1>18 DEF RecordSchedules, Goto, program, control, world, trial
<1>19. CASE SelectSchedules
  BY <1>19 DEF SelectSchedules, Exit, Ended, program, world, trial
<1>20. CASE Migrate
  BY <1>20 DEF Migrate, schedules, control, process, world, trial
<1>21. CASE Opened
  BY <1>21 DEF Opened, Goto, program, schedules, control, world, trial
<1>22. CASE Settle
  BY <1>22 DEF Settle, program, schedules, control, world, trial
<1>23. ASSUME NEW ok \in BOOLEAN, Confirm(ok) PROVE NewIsOnTrial'
  BY <1>23 DEF Confirm, Unrecord, Fault, Tear, control, world, trial
<1>24. CASE Drained
  BY <1>24 DEF Drained, Exit, Goto, Window, Ended, program, schedules, control, world, trial
<1>25. ASSUME NEW r \in Requests, NEW c \in Components, Apply(r, c) PROVE NewIsOnTrial'
  BY <1>25 DEF Apply, Alive, program, schedules, process, world, trial
<1>26. ASSUME NEW r \in Requests, Prepared(r) PROVE NewIsOnTrial'
  BY <1>26 DEF Prepared, Advance, Proceeds, Alive, program, schedules, process, world, trial
<1>27. ASSUME NEW r \in Requests, PrepareFails(r) PROVE NewIsOnTrial'
  BY <1>27 DEF PrepareFails, Alive, program, schedules, process, world, trial
<1>28. ASSUME NEW r \in Requests, Due(r) PROVE NewIsOnTrial'
  BY <1>28 DEF Due, Goto, Advance, Proceeds, Alive, program, schedules, process, world, trial
<1>29. CASE Cancel
  BY <1>29 DEF Cancel, Alive, program, schedules, process, world, trial
<1>30. CASE Crash
  BY <1>30 DEF Crash, Exit, Fault, Window, Running, program, schedules, world, trial
<1>31. CASE ServeFails
  BY <1>31 DEF ServeFails, Exit, Goto, Fault, RollBack, Failed, Ended, program, schedules,
      control, world, trial
<1>32. CASE CountFails
  BY <1>32 DEF CountFails, Exit, Fault, Ended, RunsTarget, program, schedules, world, trial
<1>33. CASE RevertFails
  BY <1>33 DEF RevertFails, Exit, Fault, program, schedules, world, trial
<1>34. CASE SwitchRefused
  BY <1>34 DEF SwitchRefused, Exit, Fault, SwitchFails, Ended, program, schedules, world, trial
<1>35. CASE SwapFails
  BY <1>35 DEF SwapFails, Exit, Fault, SwitchFails, Undo, Tear, Ended, schedules, world, trial
<1>36. CASE RecordFails
  BY <1>36 DEF RecordFails, Fault, program, schedules, control, world, trial
<1>37. CASE SelectFails
  BY <1>37 DEF SelectFails, Exit, Fault, SwitchFails, Ended, program, world, trial
<1>38. CASE Signal
  BY <1>38 DEF Signal, program, schedules, control, world, trial
<1>39. CASE OperatorStarts
  BY <1>39 DEF OperatorStarts, Goto, Fault, program, schedules, control, world, trial
<1>40. CASE Persist
  BY <1>40 DEF Persist, program, schedules, control, process, world, trial
<1> HIDE UpdateAssumption, NoneAssumption DEF IInv, NewIsOnTrial, SavesFollowProgram,
      InstallationIsKnown, Untorn, Known, Changing, TrialsAreRecorded, PlansLeadToSwitches,
      Settled, TypeOK, Components, Off, Swapping
<1> QED
  BY <1>1, <1>2, <1>3, <1>4, <1>5, <1>6, <1>7, <1>8, <1>9, <1>10, <1>11, <1>12, <1>13,
      <1>14, <1>15, <1>16, <1>17, <1>18, <1>19, <1>20, <1>21, <1>22, <1>23, <1>24, <1>25,
      <1>26, <1>27, <1>28, <1>29, <1>30, <1>31, <1>32, <1>33, <1>34, <1>35, <1>36, <1>37,
      <1>38, <1>39, <1>40 DEF Next, Own, Startup, Restore, Switch, Maintain, Fail

-----------------------------------------------------------------------------
(* The installation *)

\* A step that touches neither the installation nor the record.
LEMMA SettledStays ==
  ASSUME IInv, Untorn', torn \subseteq torn', at \notin Changing, at' \notin Changing,
         UNCHANGED <<installed, rollback, release>>,
         pending' # None => pending # None,
         "server" \in healthy' => "server" \in healthy \/ installed = New,
         pending' = None /\ "server" \notin healthy' =>
           installed = Original \/ (pending = None /\ "server" \notin healthy)
  PROVE  Known'
<1>1. Settled
  BY DEF Untorn, IInv, InstallationIsKnown, Known
<1>2. Settled'
  BY <1>1 DEF Settled, RunsTarget
<1> QED
  BY <1>2 DEF Known, Changing

\* The old program runs where a maintenance of the program is due.
LEMMA OldIsInstalled ==
  ASSUME IInv, Untorn, at \in {"switching", "serving"} , maintenance # None,
         maintenance.component = "server"
  PROVE  installed = Original /\ "server" \notin healthy
<1>1. exe = "old" /\ exe = installed[Program]
  BY DEF IInv, PlansLeadToSwitches, SavesFollowProgram
<1>2. Settled
  BY DEF IInv, InstallationIsKnown, Known, Changing
<1> QED
  BY <1>1, <1>2, OriginalProgram DEF Settled

\* A swap runs under its plan: no record exists yet.
LEMMA SwapIsPlanned ==
  ASSUME IInv, at \in Swapping
  PROVE  pending = None /\ maintenance # None /\ maintenance.component = "server"
<1>1. plan # None /\ plan.component = "server"
  BY DEF IInv, PlansLeadToSwitches
<1>2. maintenance # None /\ maintenance.component = "server"
  BY <1>1, PlannedMaintenance DEF IInv, RunsOwnMaintenance
<1> QED
  BY <1>2 DEF IInv, PlansLeadToSwitches

\* A rollback starts from the new program with the old one set aside.
LEMMA RollBackBegins ==
  ASSUME IInv, Untorn, Untorn', pending # None, RunsTarget, at \notin Changing,
         UNCHANGED release, RollBack
  PROVE  Known'
<1>1. installed = New /\ rollback = Original
  BY DEF IInv, InstallationIsKnown, Known, Settled
<1>2. CASE release.irreversible
  <2>1. at' = "held" /\ UNCHANGED <<installed, rollback, pending, healthy>>
    BY <1>2 DEF RollBack, Exit, program
  <2> QED
    BY <1>1, <2>1 DEF Known, Changing, Settled
<1>3. CASE ~release.irreversible
  <2>1. at' = "removing" /\ step' = 1 /\ rollback' = Original /\ "server" \notin healthy'
    BY <1>1, <1>3 DEF RollBack, program
  <2>2. Restoring'
    BY <2>1, UpdateAssumption, EntriesExist DEF Restoring
  <2> QED
    BY <2>1, <2>2 DEF Known, Changing
<1> QED
  BY <1>2, <1>3

\* What is installed stays known through every step of a swap and a restore.
LEMMA KnownStep ==
  ASSUME IInv, Next, Untorn'
  PROVE  Known'
<1>0. TypeOK /\ StepsAreEntries
  BY DEF IInv
<1> USE SettledStays DEF IInv, Untorn, Changing
<1>1. CASE Boot
  BY <1>1 DEF Boot, program, schedules, control, world, trial
<1>2. CASE ForgetSchedules
  BY <1>2 DEF ForgetSchedules, program, control, process, world, trial
<1>3. CASE JudgeSchedules
  BY <1>3 DEF JudgeSchedules, Goto, Proceed, program, schedules, control, world, trial
<1>4. ASSUME NEW ok \in BOOLEAN, StartPlainly(ok) PROVE Known'
  <2>1. Settled
    BY <1>4 DEF StartPlainly, Fault, Tear, Proceed, Untorn, IInv, InstallationIsKnown, Known, Changing
  <2>2. installed = Original \/ pending = None
    BY <1>4, <2>1, OriginalProgram DEF StartPlainly, Settled, RunsTarget
  <2>3. pending' \in {None, pending} /\ torn \subseteq torn'
    BY <1>4 DEF StartPlainly, Tear
  <2> QED
    BY <1>4, <2>2, <2>3, SettledStays DEF StartPlainly, Proceed, Changing, world, trial
<1>5. CASE CountStart
  <2>1. pending' # None
    <3>1. pending \in Mark /\ pending' = [pending EXCEPT !.attempts = @ + 1]
      BY <1>5, <1>0 DEF CountStart, TypeOK
    <3>2. pending' \in Mark
      BY <3>1 DEF Mark
    <3> QED
      BY <3>2, NoneAssumption
  <2> QED
    BY <1>5, <2>1, SettledStays DEF CountStart, Proceed, Untorn, Changing, world, trial
<1>6. CASE GiveUp
  BY <1>6, RollBackBegins DEF GiveUp, Untorn, Changing, world, trial
<1>7. ASSUME NEW ok \in BOOLEAN, RemoveInstalled(ok) PROVE Known'
  <2>0. "server" \notin healthy'
    BY <1>7 DEF RemoveInstalled, trial, Untorn, IInv, InstallationIsKnown, Known, Changing
  <2>1. at' = "bringing" /\ UNCHANGED <<step, rollback, torn>> /\ step \in 1..Len(Entries)
    BY <1>7, <1>0, EntriesExist DEF RemoveInstalled, TypeOK
  <2>2. CASE failed' = TRUE
    BY <2>0, <2>1, <2>2 DEF Known, Changing
  <2>3. CASE failed' # TRUE
    <3>1. ~failed /\ installed' = [installed EXCEPT ![Entries[step]] = None]
      BY <1>7, <1>0, <2>3 DEF RemoveInstalled, Entry, TypeOK
    <3>2. Restoring
      BY <1>7, <2>1, <3>1 DEF RemoveInstalled, Untorn, IInv, InstallationIsKnown, Known
    <3>3. installed \in [Names -> Owned] /\ Entries[step] \in Names
      BY <1>0, <2>1 DEF TypeOK, Names
    <3>4. ASSUME NEW i \in 1..Len(Entries), i < step
          PROVE  installed'[Entries[i]] = Original[Entries[i]]
      <4>1. Entries[i] # Entries[step] /\ Entries[i] \in Names
        BY <2>1, <3>4, UpdateAssumption DEF Names
      <4> QED
        BY <3>1, <3>2, <3>3, <3>4, <4>1 DEF Restoring
    <3>5. Restoring'
      BY <2>1, <3>1, <3>2, <3>3, <3>4 DEF Restoring, Entry
    <3> QED
      BY <2>0, <2>1, <3>5 DEF Known, Changing
  <2> QED
    BY <2>2, <2>3
<1>8. ASSUME NEW ok \in BOOLEAN, BringBack(ok) PROVE Known'
  <2>0. "server" \notin healthy'
    BY <1>8 DEF BringBack, trial, Untorn, IInv, InstallationIsKnown, Known, Changing
  <2>1. at' = "removing" /\ UNCHANGED torn /\ step' = step + 1 /\ step \in 1..Len(Entries)
    BY <1>8, <1>0, EntriesExist DEF BringBack, TypeOK, StepsAreEntries
  <2>2. CASE failed' = TRUE
    BY <2>0, <2>1, <2>2 DEF Known, Changing
  <2>3. CASE failed' # TRUE
    <3>1. /\ ~failed
          /\ rollback' = [rollback EXCEPT ![Entries[step]] = None]
          /\ installed' = IF rollback[Entries[step]] = None THEN installed
                          ELSE [installed EXCEPT ![Entries[step]] = rollback[Entries[step]]]
      BY <1>8, <1>0, <2>3 DEF BringBack, Entry, TypeOK
    <3>2. Restoring
      BY <1>8, <2>1, <3>1 DEF BringBack, Untorn, IInv, InstallationIsKnown, Known
    <3>3. /\ installed \in [Names -> Owned] /\ rollback \in [Names -> Owned]
          /\ Entries[step] \in Names
      BY <1>0, <2>1 DEF TypeOK, Names
    <3>4. rollback[Entries[step]] = Original[Entries[step]] /\ installed[Entries[step]] = None
      BY <1>8, <2>1, <3>2, EntriesExist DEF BringBack, Restoring, Entry
    <3>5. installed'[Entries[step]] = Original[Entries[step]]
      BY <3>1, <3>3, <3>4
    <3>6. ASSUME NEW i \in 1..Len(Entries), i # step
          PROVE  installed'[Entries[i]] = installed[Entries[i]] /\ rollback'[Entries[i]] = rollback[Entries[i]]
      <4>1. Entries[i] # Entries[step] /\ Entries[i] \in Names
        BY <2>1, <3>6, UpdateAssumption DEF Names
      <4> QED
        BY <3>1, <3>3, <4>1
    <3>7. ASSUME NEW i \in 1..Len(Entries)
          PROVE  /\ i < step + 1 => installed'[Entries[i]] = Original[Entries[i]]
                 /\ i >= step + 1 => rollback'[Entries[i]] = Original[Entries[i]]
      <4>1. CASE i = step
        BY <2>1, <3>5, <4>1, EntriesExist
      <4>2. CASE i < step
        BY <2>1, <3>2, <3>6, <4>2, EntriesExist DEF Restoring
      <4>3. CASE i > step
        BY <2>1, <3>2, <3>6, <4>3, EntriesExist DEF Restoring
      <4> QED
        BY <2>1, <4>1, <4>2, <4>3, EntriesExist
    <3>8. Restoring'
      BY <2>1, <3>7 DEF Restoring
    <3> QED
      BY <2>0, <2>1, <3>8 DEF Known, Changing
  <2> QED
    BY <2>2, <2>3
<1>9. CASE Restored
  <2>1. ~failed
    BY <1>9, <1>0 DEF Restored, Untorn, TypeOK
  <2>2. Untorn /\ Restoring
    BY <1>9, <2>1 DEF Restored, Untorn, IInv, InstallationIsKnown, Known
  <2>3. installed = Original
    <3>1. ASSUME NEW i \in 1..Len(Entries)
          PROVE  installed[Entries[i]] = Original[Entries[i]]
      <4>1. i < step
        BY <1>9, <1>0, EntriesExist DEF Restored, TypeOK
      <4> QED
        BY <2>2, <4>1 DEF Restoring
    <3>2. ASSUME NEW n \in Names PROVE installed[n] = Original[n]
      BY <3>1 DEF Names
    <3> QED
      BY <1>0, <3>2 DEF TypeOK, Original
  <2>4. UNCHANGED <<installed, pending, healthy>> /\ "server" \notin healthy
    BY <1>9, <2>2 DEF Restored, program, trial, IInv, InstallationIsKnown, Known, Changing
  <2>5. CASE pending = None
    <3>1. at' \notin Changing
      BY <1>9, <2>5 DEF Restored, Exit, Ended, Changing
    <3> QED
      BY <2>3, <2>4, <2>5, <3>1 DEF Known, Changing, Settled
  <2>6. CASE pending # None
    <3>1. at' = "unmarking"
      BY <1>9, <2>1, <2>6 DEF Restored, Goto
    <3> QED
      BY <2>3, <2>4, <3>1 DEF Known, Changing
  <2> QED
    BY <2>5, <2>6
<1>10. ASSUME NEW ok \in BOOLEAN, Unmark(ok) PROVE Known'
  <2>1. Untorn /\ installed' = Original /\ at' = "announcing" /\ "server" \notin healthy'
    BY <1>10 DEF Unmark, Goto, trial, Untorn, IInv, InstallationIsKnown, Known, Changing
  <2>2. pending' = None \/ ~release.sameVersion
    BY <1>10 DEF Unmark, Window, Untorn
  <2> QED
    BY <1>10, <2>1, <2>2 DEF Unmark, world, Known, Changing
<1>11. CASE Announce
  <2>1. installed' = Original /\ at' \notin Changing /\ "server" \notin healthy'
        /\ (pending' = None \/ ~release'.sameVersion)
    BY <1>11 DEF Announce, Exit, Ended, program, world, trial, Untorn, IInv, InstallationIsKnown,
      Known, Changing
  <2>2. pending' # None => ~RunsTarget'
    BY <2>1, OriginalProgram DEF RunsTarget
  <2> QED
    BY <2>1, <2>2 DEF Known, Changing, Settled
<1>12. CASE Revert
  BY <1>12 DEF Revert, Goto, program, control, world, trial
<1>13. CASE Reverted
  BY <1>13 DEF Reverted, Exit, Ended, program, world, trial
<1>14. CASE BeginSwap
  <2>1. installed' = Original /\ "server" \notin healthy'
    BY <1>14, SwapIsPlanned, OldIsInstalled DEF BeginSwap, trial, Untorn, Swapping
  <2>2. at' = "aside" /\ step' = 1 /\ rollback' = [n \in Names |-> None]
    BY <1>14, <1>0 DEF BeginSwap, Goto, StepsAreEntries
  <2>3. Aside'
    <3>1. ASSUME NEW i \in 1..Len(Entries)
          PROVE  Entries[i] \in Names /\ ~(i < 1)
      BY EntriesExist DEF Names
    <3>2. ASSUME NEW i \in 1..Len(Entries)
          PROVE  installed'[Entries[i]] = Original[Entries[i]] /\ rollback'[Entries[i]] = None
      BY <2>1, <2>2, <3>1
    <3> QED
      BY <2>2, <3>1, <3>2 DEF Aside
  <2> QED
    BY <2>1, <2>2, <2>3 DEF Known, Changing
<1>15. CASE MoveAside
  <2>0. "server" \notin healthy'
    BY <1>15 DEF MoveAside, trial, Untorn, IInv, InstallationIsKnown, Known, Changing
  <2>1. Aside /\ step \in 1..Len(Entries)
    BY <1>15, <1>0, EntriesExist DEF MoveAside, Untorn, IInv, InstallationIsKnown, Known,
      StepsAreEntries, TypeOK
  <2>2. /\ rollback' = [rollback EXCEPT ![Entries[step]] = installed[Entries[step]]]
        /\ installed' = [installed EXCEPT ![Entries[step]] = None]
        /\ installed \in [Names -> Owned] /\ rollback \in [Names -> Owned]
    BY <1>15, <1>0 DEF MoveAside, Entry, TypeOK
  <2>3. ASSUME NEW i \in 1..Len(Entries)
        PROVE  /\ Entries[i] \in Names
               /\ installed'[Entries[i]] = IF i < step + 1 THEN None ELSE Original[Entries[i]]
               /\ rollback'[Entries[i]] = IF i < step + 1 THEN Original[Entries[i]] ELSE None
    <3>1. Entries[i] \in Names /\ Entries[step] \in Names
      BY <2>1 DEF Names
    <3>2. CASE i = step
      BY <2>1, <2>2, <3>1, <3>2 DEF Aside
    <3>3. CASE i # step
      <4>1. Entries[i] # Entries[step]
        BY <2>1, <3>3, UpdateAssumption
      <4>2. installed'[Entries[i]] = installed[Entries[i]] /\ rollback'[Entries[i]] = rollback[Entries[i]]
        BY <2>2, <3>1, <4>1
      <4>3. i < step + 1 <=> i < step
        BY <2>1, <3>3, EntriesExist
      <4> QED
        BY <2>1, <3>1, <4>2, <4>3 DEF Aside
    <3> QED
      BY <3>2, <3>3
  <2>4. CASE step = Len(Entries)
    <3>1. at' = "placing" /\ step' = 1
      BY <1>15, <2>4 DEF MoveAside, Walk
    <3>2. ASSUME NEW i \in 1..Len(Entries)
          PROVE  installed'[Entries[i]] = None /\ rollback'[Entries[i]] = Original[Entries[i]]
      <4>1. i < step + 1
        BY <2>4, EntriesExist
      <4> QED
        BY <2>3, <4>1
    <3>3. rollback' = Original
      BY <2>2, <3>2 DEF Original, Names
    <3>4. Placing'
      BY <3>1, <3>2, <3>3, EntriesExist DEF Placing
    <3> QED
      BY <2>0, <3>1, <3>4 DEF Known, Changing
  <2>5. CASE step # Len(Entries)
    <3>1. at' = "aside" /\ step' = step + 1
      BY <1>15, <2>5 DEF MoveAside, Walk
    <3>2. Aside'
      BY <2>3, <3>1 DEF Aside
    <3> QED
      BY <2>0, <3>1, <3>2 DEF Known, Changing
  <2> QED
    BY <2>4, <2>5
<1>16. CASE Place
  <2>0. "server" \notin healthy'
    BY <1>16 DEF Place, trial, Untorn, IInv, InstallationIsKnown, Known, Changing
  <2>1. Placing /\ step \in 1..Len(Entries)
    BY <1>16, <1>0, EntriesExist DEF Place, Untorn, IInv, InstallationIsKnown, Known,
      StepsAreEntries, TypeOK
  <2>2. /\ installed' = [installed EXCEPT ![Entries[step]] = "new"]
        /\ installed \in [Names -> Owned] /\ rollback' = Original
    BY <1>16, <1>0, <2>1 DEF Place, Entry, TypeOK, Placing
  <2>3. ASSUME NEW i \in 1..Len(Entries)
        PROVE  installed'[Entries[i]] = IF i < step + 1 THEN "new" ELSE None
    <3>1. Entries[i] \in Names /\ Entries[step] \in Names
      BY <2>1 DEF Names
    <3>2. CASE i = step
      BY <2>1, <2>2, <3>1, <3>2 DEF Placing
    <3>3. CASE i # step
      <4>1. Entries[i] # Entries[step]
        BY <2>1, <3>3, UpdateAssumption
      <4>2. installed'[Entries[i]] = installed[Entries[i]]
        BY <2>2, <3>1, <4>1
      <4>3. i < step + 1 <=> i < step
        BY <2>1, <3>3, EntriesExist
      <4> QED
        BY <2>1, <4>2, <4>3 DEF Placing
    <3> QED
      BY <3>2, <3>3
  <2>4. CASE step = Len(Entries)
    <3>1. at' = "recording"
      BY <1>16, <2>4 DEF Place, Walk
    <3>2. ASSUME NEW i \in 1..Len(Entries)
          PROVE  installed'[Entries[i]] = "new"
      <4>1. i < step + 1
        BY <2>4, EntriesExist
      <4> QED
        BY <2>3, <4>1
    <3>3. installed' = New
      BY <2>2, <3>2 DEF New, Names
    <3> QED
      BY <2>0, <2>2, <3>1, <3>3 DEF Known, Changing
  <2>5. CASE step # Len(Entries)
    <3>1. at' = "placing" /\ step' = step + 1
      BY <1>16, <2>5 DEF Place, Walk
    <3>2. Placing'
      BY <2>2, <2>3, <3>1 DEF Placing
    <3> QED
      BY <2>0, <3>1, <3>2 DEF Known, Changing
  <2> QED
    BY <2>4, <2>5
<1>17. CASE Record
  <2>1. installed' = New /\ rollback' = Original /\ at' \notin Changing
    BY <1>17 DEF Record, Exit, Ended, Changing, Untorn, IInv, InstallationIsKnown, Known
  <2>2. pending' # None
    BY <1>17, NoneAssumption DEF Record, Mark
  <2> QED
    BY <2>1, <2>2 DEF Known, Changing, Settled
<1>18. CASE RecordSchedules
  BY <1>18 DEF RecordSchedules, Goto, program, control, world, trial
<1>19. CASE SelectSchedules
  BY <1>19 DEF SelectSchedules, Exit, Ended, program, world, trial
<1>20. CASE Migrate
  BY <1>20 DEF Migrate, schedules, control, process, world, trial
<1>21. CASE Opened
  BY <1>21 DEF Opened, Goto, program, schedules, control, world, trial
<1>22. CASE Settle
  <2>1. Settled
    BY <1>22 DEF Settle, Untorn, IInv, InstallationIsKnown, Known, Changing
  <2>2. confirm = "server" => installed = New
    BY <1>22, <2>1 DEF Settle, Settled, IInv, TrialsAreRecorded
  <2>3. UNCHANGED <<installed, rollback, pending, release, at, torn>>
    BY <1>22 DEF Settle, program, world
  <2>4. healthy' = healthy \cup {confirm} /\ at \notin Changing /\ at' \notin Changing
    BY <1>22 DEF Settle, Changing
  <2> QED
    BY <2>1, <2>2, <2>3, <2>4, SettledStays
<1>23. ASSUME NEW ok \in BOOLEAN, Confirm(ok) PROVE Known'
  <2>0. Untorn /\ at \notin Changing
    BY <1>23 DEF Confirm, Unrecord, Tear, Untorn, Changing
  <2>1. Settled
    BY <2>0 DEF IInv, InstallationIsKnown, Known
  <2>2. confirm = "server" => "server" \in healthy
    BY <1>23 DEF Confirm, IInv, TrialsAreRecorded
  <2>3. UNCHANGED <<installed, rollback, release, healthy, at>> /\ torn \subseteq torn'
        /\ pending' \in {None, pending}
    BY <1>23 DEF Confirm, Unrecord, Tear, world, trial
  <2>4. at \notin Changing /\ at' \notin Changing
    BY <1>23 DEF Confirm, Changing
  <2>5. CASE confirm = "server"
    BY <2>2, <2>3, <2>4, <2>5, SettledStays
  <2>6. CASE confirm # "server"
    <3>1. pending' = pending
      BY <1>23, <2>6 DEF Confirm, Unrecord
    <3> QED
      BY <2>3, <2>4, <3>1, SettledStays
  <2> QED
    BY <2>5, <2>6
<1>24. CASE Drained
  BY <1>24 DEF Drained, Exit, Goto, Window, Ended, program, schedules, control, world, trial
<1>25. ASSUME NEW r \in Requests, NEW c \in Components, Apply(r, c) PROVE Known'
  BY <1>25 DEF Apply, Alive, program, schedules, process, world, trial
<1>26. ASSUME NEW r \in Requests, Prepared(r) PROVE Known'
  BY <1>26 DEF Prepared, Advance, Proceeds, Alive, program, schedules, process, world, trial
<1>27. ASSUME NEW r \in Requests, PrepareFails(r) PROVE Known'
  BY <1>27 DEF PrepareFails, Alive, program, schedules, process, world, trial
<1>28. ASSUME NEW r \in Requests, Due(r) PROVE Known'
  BY <1>28 DEF Due, Goto, Advance, Proceeds, Alive, program, schedules, process, world, trial
<1>29. CASE Cancel
  BY <1>29 DEF Cancel, Alive, program, schedules, process, world, trial
<1>30. CASE Crash
  <2>1. Window \cap {"swap", "restore"} = {} /\ Untorn
    BY <1>30 DEF Crash, Untorn
  <2>2. at' = "down" /\ UNCHANGED <<installed, rollback, pending, healthy, release>>
    BY <1>30 DEF Crash, Exit, program, world, trial
  <2>3. at \notin {"recording", "removing", "bringing"}
    BY <2>1 DEF Window
  <2>4. CASE at \notin Changing
    BY <1>30, <2>2, <2>4, SettledStays DEF Crash, Changing
  <2>5. CASE at \in {"aside", "placing"}
    <3>1. installed = Original /\ "server" \notin healthy
      BY <2>1, <2>5 DEF Window, IInv, InstallationIsKnown, Known, Changing
    <3>2. pending = None
      BY <2>5, SwapIsPlanned DEF Swapping
    <3> QED
      BY <2>2, <3>1, <3>2 DEF Known, Changing, Settled
  <2>6. CASE at = "unmarking"
    <3>1. installed = Original /\ ~release.sameVersion /\ "server" \notin healthy
      BY <2>1, <2>6 DEF Window, IInv, InstallationIsKnown, Known, Changing
    <3>2. ~RunsTarget'
      BY <2>2, <3>1, OriginalProgram DEF RunsTarget
    <3> QED
      BY <2>2, <3>1, <3>2 DEF Known, Changing, Settled
  <2>7. CASE at = "announcing"
    <3>1. installed = Original /\ "server" \notin healthy /\ (pending = None \/ ~release.sameVersion)
      BY <2>1, <2>7 DEF IInv, InstallationIsKnown, Known, Changing
    <3>2. pending # None => ~RunsTarget'
      BY <2>2, <3>1, OriginalProgram DEF RunsTarget
    <3> QED
      BY <2>2, <3>1, <3>2 DEF Known, Changing, Settled
  <2> QED
    BY <2>3, <2>4, <2>5, <2>6, <2>7 DEF Changing
<1>31. CASE ServeFails
  <2>1. at \notin Changing /\ UNCHANGED <<release, torn>>
    BY <1>31 DEF ServeFails, Failed, Changing, world, trial
  <2>2. CASE confirm = "server" /\ settled = "no"
    <3>1. RollBack
      BY <1>31, <2>2 DEF ServeFails, Failed
    <3>2. pending # None /\ RunsTarget
      BY <1>31, <2>2 DEF ServeFails, IInv, TrialsAreRecorded
    <3> QED
      BY <2>1, <3>1, <3>2, RollBackBegins DEF Untorn
  <2>3. CASE ~(confirm = "server" /\ settled = "no")
    <3>1. at' \notin Changing /\ UNCHANGED <<program, healthy>>
      BY <1>31, <2>3 DEF ServeFails, Failed, Goto, Exit, Ended, Changing
    <3> QED
      BY <2>1, <3>1, SettledStays DEF program
  <2> QED
    BY <2>2, <2>3
<1>32. CASE CountFails
  BY <1>32 DEF CountFails, Exit, Fault, Ended, RunsTarget, program, schedules, world, trial
<1>33. CASE RevertFails
  BY <1>33 DEF RevertFails, Exit, Fault, program, schedules, world, trial
<1>34. CASE SwitchRefused
  <2>1. at \notin Changing /\ at' \notin Changing
    BY <1>34 DEF SwitchRefused, SwitchFails, Exit, Ended, Changing
  <2>2. UNCHANGED <<installed, rollback, release, pending, healthy, torn>>
    BY <1>34 DEF SwitchRefused, program, world, trial
  <2> QED
    BY <2>1, <2>2, SettledStays
<1>35. CASE SwapFails
  <2>1. pending' = None /\ at' \notin Changing
    BY <1>35, SwapIsPlanned DEF SwapFails, SwitchFails, Exit, Ended, Swapping, Changing
  <2>2. Untorn /\ step \in 1..Len(Entries)
    <3>1. torn \subseteq torn'
      BY <1>35 DEF SwapFails, Undo, Tear
    <3> QED
      BY <1>35, <1>0, <3>1, EntriesExist DEF SwapFails, Untorn, StepsAreEntries, TypeOK
  <2>5. "server" \notin healthy'
    BY <1>35, <2>2 DEF SwapFails, trial, IInv, InstallationIsKnown, Known, Changing
  <2>6. /\ installed' = [n \in Names |->
              CASE n \in Moved -> rollback[n]
                [] n \in Placed /\ n \notin Moved -> None
                [] OTHER -> installed[n]]
        /\ at \in {"aside", "placing"}
    <3>1. PICK stuck \in SUBSET Placed, kept \in SUBSET Moved :
            /\ installed' = [n \in Names |->
                 CASE n \in Moved \ kept -> rollback[n]
                   [] n \in Placed \ stuck /\ n \notin Moved \ kept -> None
                   [] OTHER -> installed[n]]
            /\ IF stuck \cup kept = {} THEN UNCHANGED torn ELSE Tear("swap")
      BY <1>35 DEF SwapFails, Undo
    <3>2. stuck = {} /\ kept = {}
      BY <3>1 DEF Untorn, Tear
    <3>3. Moved \ kept = Moved /\ Placed \ stuck = Placed
      BY <3>2
    <3> QED
      BY <1>35, <3>1, <3>3 DEF SwapFails
  <2>3. ASSUME NEW i \in 1..Len(Entries)
        PROVE  installed'[Entries[i]] = Original[Entries[i]]
    <3>1. Entries[i] \in Names
      BY DEF Names
    <3>2. CASE at = "aside"
      <4>1. installed'[Entries[i]] = IF rollback[Entries[i]] # None THEN rollback[Entries[i]]
                                     ELSE installed[Entries[i]]
        BY <2>6, <3>1, <3>2 DEF Moved, Placed
      <4>2. Aside
        BY <2>2, <3>2 DEF IInv, InstallationIsKnown, Known
      <4> QED
        BY <4>1, <4>2 DEF Aside
    <3>3. CASE at = "placing"
      <4>1. Placing
        BY <2>2, <3>3 DEF IInv, InstallationIsKnown, Known
      <4>2. CASE Original[Entries[i]] # None
        BY <2>6, <3>1, <3>3, <4>1, <4>2 DEF Moved, Placed, Placing
      <4>3. CASE Original[Entries[i]] = None /\ i < step
        <5>1. i \in 1..(step - 1)
          BY <2>2, <4>3, EntriesExist
        <5>2. Entries[i] \in {Entries[k] : k \in 1..(step - 1)}
          BY <5>1
        <5> QED
          BY <2>6, <3>1, <3>3, <4>1, <4>3, <5>2 DEF Moved, Placed, Placing
      <4>4. CASE Original[Entries[i]] = None /\ ~(i < step)
        <5>1. ASSUME NEW k \in 1..(step - 1) PROVE Entries[i] # Entries[k]
          <6>1. k \in 1..Len(Entries) /\ k # i
            BY <2>2, <4>4, EntriesExist
          <6> QED
            BY <6>1, UpdateAssumption
        <5>2. Entries[i] \notin {Entries[k] : k \in 1..(step - 1)}
          BY <5>1
        <5> QED
          BY <2>6, <3>1, <3>3, <4>1, <4>4, <5>2 DEF Moved, Placed, Placing
      <4> QED
        BY <4>2, <4>3, <4>4
    <3> QED
      BY <2>6, <3>2, <3>3
  <2>4. installed' = Original
    <3>1. ASSUME NEW n \in Names PROVE installed'[n] = Original[n]
      BY <2>3 DEF Names
    <3>2. Original = [n \in Names |-> Original[n]]
      BY DEF Original
    <3>3. installed' = [n \in Names |-> installed'[n]]
      BY <2>6
    <3> QED
      BY <3>1, <3>2, <3>3
  <2> QED
    BY <2>1, <2>4, <2>5 DEF Known, Changing, Settled
<1>36. CASE RecordFails
  <2>1. at' = "removing" /\ step' = 1 /\ rollback' = Original /\ "server" \notin healthy'
    BY <1>36 DEF RecordFails, program, trial, Untorn, IInv, InstallationIsKnown, Known, Changing
  <2>2. Restoring'
    BY <2>1, UpdateAssumption, EntriesExist DEF Restoring
  <2> QED
    BY <2>1, <2>2 DEF Known, Changing
<1>37. CASE SelectFails
  <2>1. at \notin Changing /\ at' \notin Changing
    BY <1>37 DEF SelectFails, SwitchFails, Exit, Ended, Changing
  <2>2. UNCHANGED <<installed, rollback, release, pending, healthy, torn>>
    BY <1>37 DEF SelectFails, program, world, trial
  <2> QED
    BY <2>1, <2>2, SettledStays
<1>38. CASE Signal
  BY <1>38 DEF Signal, program, schedules, control, world, trial
<1>39. CASE OperatorStarts
  BY <1>39 DEF OperatorStarts, Goto, Fault, program, schedules, control, world, trial
<1>40. CASE Persist
  <2>1. UNCHANGED <<installed, rollback, pending, at, step, failed, release, healthy, torn>>
    BY <1>40 DEF Persist, program, process, world, trial
  <2>2. Known
    BY <2>1 DEF Untorn, IInv, InstallationIsKnown
  <2> QED
    BY <2>1, <2>2 DEF Known, Settled, Aside, Placing, Restoring, Entry, RunsTarget
<1> HIDE SettledStays DEF IInv, Untorn, Changing
<1> QED
  BY <1>1, <1>2, <1>3, <1>4, <1>5, <1>6, <1>7, <1>8, <1>9, <1>10, <1>11, <1>12, <1>13,
      <1>14, <1>15, <1>16, <1>17, <1>18, <1>19, <1>20, <1>21, <1>22, <1>23, <1>24, <1>25,
      <1>26, <1>27, <1>28, <1>29, <1>30, <1>31, <1>32, <1>33, <1>34, <1>35, <1>36, <1>37,
      <1>38, <1>39, <1>40 DEF Next, Own, Startup, Restore, Switch, Maintain, Fail

-----------------------------------------------------------------------------
(* The theorems *)

LEMMA InitIsInductive ==
  ASSUME Init
  PROVE  IInv
<1>0. /\ at = "down" /\ step = 1 /\ maintenance = None /\ plan = None
      /\ confirm = None /\ settled = "no" /\ torn = {} /\ starts = 0
      /\ pending = None /\ schedulePending = None /\ healthy = {}
      /\ selection = origin /\ origin \in {None, "old"} /\ saves = "old"
      /\ installed = Original
      /\ runs = [r \in Requests |-> "none"]
  BY DEF Init
<1>1. TypeOK
  <2>1. Original \in [Names -> Owned] /\ rollback \in [Names -> Owned]
    BY DEF Init, Original, Owned
  <2>2. failed \in BOOLEAN /\ stopping \in BOOLEAN
    BY DEF Init
  <2>3. step \in 1..(Len(Entries) + 1) /\ faults \in 0..MaxFaults /\ starts \in Nat
    BY UpdateAssumption, EntriesExist DEF Init
  <2>4. release \in [irreversible : BOOLEAN, sameVersion : BOOLEAN, fingerprinted : BOOLEAN]
    BY DEF Init
  <2>5. result \in Reports /\ known = None
    BY DEF Init, Reports, Outcomes
  <2> QED
    BY <2>1, <2>2, <2>3, <2>4, <2>5 DEF Init, TypeOK, Places, Owned
<1>2. StepsAreEntries /\ RunsOwnMaintenance
  BY <1>0 DEF StepsAreEntries, RunsOwnMaintenance, PlanIsCurrent
<1>3. PlansLeadToSwitches /\ TrialsAreRecorded
  BY <1>0, NoneAssumption DEF PlansLeadToSwitches, TrialsAreRecorded, Swapping, Off
<1>4. SelectionIsRecorded
  BY <1>0, NoneAssumption DEF SelectionIsRecorded, SchedulesAreJudged
<1>5. SavesFollowProgram /\ NewIsOnTrial
  BY <1>0 DEF SavesFollowProgram, NewIsOnTrial
<1>6. StartsAreCounted /\ ServiceRemembers
  BY <1>0, UpdateAssumption DEF StartsAreCounted, ServiceRemembers
<1>7. InstallationIsKnown
  BY <1>0 DEF InstallationIsKnown, Known, Changing, Settled
<1> QED
  BY <1>1, <1>2, <1>3, <1>4, <1>5, <1>6, <1>7 DEF IInv

LEMMA StutteringIsInductive ==
  ASSUME IInv, UNCHANGED vars
  PROVE  IInv'
<1> USE DEF IInv, vars, program, schedules, reports, control, process, world, trial
<1>1. TypeOK'
  BY DEF TypeOK
<1>2. StepsAreEntries' /\ RunsOwnMaintenance'
  BY DEF StepsAreEntries, RunsOwnMaintenance, PlanIsCurrent
<1>3. PlansLeadToSwitches' /\ TrialsAreRecorded'
  BY DEF PlansLeadToSwitches, TrialsAreRecorded, RunsTarget
<1>4. SelectionIsRecorded'
  BY DEF SelectionIsRecorded, SchedulesAreJudged
<1>5. SavesFollowProgram' /\ NewIsOnTrial'
  BY DEF SavesFollowProgram, NewIsOnTrial, Untorn
<1>6. StartsAreCounted' /\ ServiceRemembers'
  BY DEF StartsAreCounted, ServiceRemembers
<1>7. InstallationIsKnown'
  BY DEF InstallationIsKnown, Known, Untorn, Settled, RunsTarget, Aside, Placing, Restoring,
      Entry
<1> QED
  BY <1>1, <1>2, <1>3, <1>4, <1>5, <1>6, <1>7

\* The invariant is inductive.
THEOREM Invariance == Spec => []IInv
<1>1. Init => IInv
  BY InitIsInductive
<1>2. IInv /\ [Next]_vars => IInv'
  <2>1. ASSUME IInv, Next PROVE IInv'
    <3>1. TypeOK' /\ StepsAreEntries' /\ RunsOwnMaintenance' /\ PlansLeadToSwitches'
      BY <2>1, TypeOKStep, StepsAreEntriesStep, RunsOwnMaintenanceStep,
      PlansLeadToSwitchesStep
    <3>2. TrialsAreRecorded' /\ SelectionIsRecorded' /\ SavesFollowProgram'
      BY <2>1, TrialsAreRecordedStep, SelectionIsRecordedStep, SavesFollowProgramStep
    <3>3. StartsAreCounted' /\ NewIsOnTrial' /\ ServiceRemembers'
      BY <2>1, StartsAreCountedStep, NewIsOnTrialStep, ServiceRemembersStep
    <3>4. InstallationIsKnown'
      BY <2>1, KnownStep DEF InstallationIsKnown
    <3> QED
      BY <3>1, <3>2, <3>3, <3>4 DEF IInv
  <2> QED
    BY <2>1, StutteringIsInductive
<1> QED
  BY <1>1, <1>2, PTL DEF Spec

\* Every variable keeps its type: the records on the disk, the place of the
\* process, its maintenances.
THEOREM TypeCorrect == Spec => []TypeOK
<1>1. IInv => TypeOK
  BY DEF IInv
<1> QED
  BY <1>1, Invariance, PTL

\* switch.go, confirm.go, schedule.go: a version is started at most
\* MaxStartAttempts times before it was found healthy and never without a
\* record, no old program opens migrated saves, new schedules are selected only
\* under a record, and a plan is the maintenance that is closing.
THEOREM SwitchJudged == Spec => []SwitchIsJudged
<1>1. IInv => SwitchIsJudged
  <2> SUFFICES ASSUME IInv PROVE SwitchIsJudged
    OBVIOUS
  <2>1. ProgramIsJudged
    BY DEF IInv, ProgramIsJudged, StartsAreCounted, NewIsOnTrial, SavesFollowProgram, Untorn
  <2>2. SchedulesAreJudged /\ PlanIsCurrent
    BY DEF IInv, SelectionIsRecorded, RunsOwnMaintenance
  <2> QED
    BY <2>1, <2>2 DEF SwitchIsJudged
<1> QED
  BY <1>1, Invariance, PTL

\* replaceInstalledFiles and restore: for a package of any size and a crash or a
\* failure anywhere outside the windows the code leaves open, what is installed
\* is one whole program, the one the records tell.
THEOREM WholeProgram == Spec => []ProgramIsWhole
<1>1. IInv => ProgramIsWhole
  <2> SUFFICES ASSUME IInv, Quiet /\ torn \cap {"swap", "restore"} = {}
               PROVE  /\ installed \in {Original, New}
                      /\ pending # None /\ RunsTarget => installed = New
                      /\ pending = None => installed = IF "server" \in healthy THEN New ELSE Original
    BY DEF ProgramIsWhole
  <2>1. Settled
    BY DEF IInv, InstallationIsKnown, Untorn, Known, Changing, Quiet
  <2> QED
    BY <2>1 DEF Settled
<1> QED
  BY <1>1, Invariance, PTL

=============================================================================
