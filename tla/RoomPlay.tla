------------------------------ MODULE RoomPlay ------------------------------
(***************************************************************************)
(* A relay game from the player's side (domain/events/play, domain/fishing,  *)
(* app/player_rooms.go) over the rooms and their results.  A start command   *)
(* records a run of the room the account plays in and publishes              *)
(* room.run.accepted; an end command settles it with the room's result and   *)
(* publishes room.run.claimed; a start may replace a run whose room was      *)
(* abandoned.  What a command knows of its run was read before its           *)
(* transaction, in two looks: at the store and the pending results, then at  *)
(* the rooms.  Runs and events are part of the account and survive a crash.  *)
(***************************************************************************)
EXTENDS RoomManager

VARIABLES
  run,        \* the recorded run of an account: its room
  prepared,   \* what PrepareResults answered for it
  events,     \* undelivered room events of the account's outbox, in order
  applied,    \* the first of them is in the inbox of the shared store
  published,  \* receipts of the outbox: topic, account, room
  givenUp,    \* history: runs replaced as abandoned
  lost,       \* history: rooms that were over and died with the process
  crashes

playVars == <<run, prepared, events, applied, published, givenUp, lost, crashes>>

vars == <<setup, resultVars, roomVars, playVars>>

Topics == {"accepted", "claimed"}

TypeOK ==
  /\ ResultsTypeOK /\ ManagerTypeOK
  /\ run \in [Accounts -> Rooms \cup {None}]
  /\ prepared \in [Accounts -> {"none", "looking", "result", "abandoned"}]
  /\ reading = {a \in Accounts : prepared[a] = "looking"}
  /\ events \in [Accounts -> Seq(Topics \X Rooms)]
  /\ applied \in [Accounts -> BOOLEAN]
  /\ published \subseteq Topics \X Accounts \X Rooms
  /\ givenUp \subseteq Accounts \X Rooms
  /\ lost \subseteq Rooms
  /\ crashes \in 0..setup.crashes

Init ==
  /\ ResultsInit /\ ManagerInit
  /\ run = [a \in Accounts |-> None]
  /\ prepared = [a \in Accounts |-> "none"]
  /\ events = [a \in Accounts |-> << >>]
  /\ applied = [a \in Accounts |-> FALSE]
  /\ published = {} /\ givenUp = {} /\ lost = {}
  /\ crashes = 0

\* outbox.Publish: an event published before is not published again.
Fresh(topic, a, r) == IF <<topic, a, r>> \in published THEN << >> ELSE <<<<topic, r>>>>

Announce(a, fresh) ==
  /\ events' = [events EXCEPT ![a] = @ \o fresh]
  /\ published' = published \cup {<<e[1], a, e[2]>> : e \in Range(fresh)}

-----------------------------------------------------------------------------
(* Commands.                                                                *)

\* A plausible slip: Result looks at the rooms only.
LookAnyway(a) ==
  LET r == run[a] IN
  /\ up /\ r # None /\ prepared[a] = "none" /\ StoreFree
  /\ Kind = "fishing" => membership[a] \notin {r, None}
  /\ IF r \in store.saved
     THEN r \in store.ready /\ prepared' = [prepared EXCEPT ![a] = "result"] /\ reading' = reading
     ELSE prepared' = [prepared EXCEPT ![a] = "looking"] /\ reading' = reading \cup {a}
  /\ UNCHANGED <<members, failures, store, pending, queue, worker, roomVars>>
  /\ UNCHANGED <<run, events, applied, published, givenUp, lost, crashes>>

\* PrepareResults finds a ready result; or, in Result, neither a saved nor a
\* pending one.  Any other answer refuses the command.
Look(a) ==
  LET r == run[a] IN
  /\ up /\ r # None /\ prepared[a] = "none" /\ StoreFree
  /\ Kind = "fishing" => membership[a] \notin {r, None}
  /\ IF r \in store.saved
     THEN r \in store.ready /\ prepared' = [prepared EXCEPT ![a] = "result"] /\ reading' = reading
     ELSE /\ r \notin pending
          /\ prepared' = [prepared EXCEPT ![a] = "looking"] /\ reading' = reading \cup {a}
  /\ UNCHANGED <<members, failures, store, pending, queue, worker, roomVars>>
  /\ UNCHANGED <<run, events, applied, published, givenUp, lost, crashes>>

\* A plausible slip: the transaction of an answer that is an error stays open.
LookAtRoomLeaks(a) ==
  /\ a \in reading
  /\ prepared' = [prepared EXCEPT ![a] =
       IF membership[a] = run[a] THEN "none" ELSE "abandoned"]
  /\ reading' = reading
  /\ UNCHANGED <<members, failures, store, pending, queue, worker, roomVars>>
  /\ UNCHANGED <<run, events, applied, published, givenUp, lost, crashes>>

\* The second look of Result: is the account still in the room of its run?
LookAtRoom(a) ==
  /\ a \in reading
  /\ prepared' = [prepared EXCEPT ![a] =
       IF membership[a] = run[a] THEN "none" ELSE "abandoned"]
  /\ reading' = reading \ {a}
  /\ UNCHANGED <<members, failures, store, pending, queue, worker, roomVars>>
  /\ UNCHANGED <<run, events, applied, published, givenUp, lost, crashes>>

\* The command is refused for a reason of its own.
Refused(a) ==
  /\ prepared[a] \in {"result", "abandoned"}
  /\ prepared' = [prepared EXCEPT ![a] = "none"]
  /\ UNCHANGED <<resultVars, roomVars, run, events, applied, published, givenUp, lost, crashes>>

\* StartRun admits the account to the room it plays in.
Startable(a, r) ==
  /\ up /\ prepared[a] # "looking" /\ r # None /\ membership[a] = r /\ a \in In(r)
  /\ IF Kind = "fishing" THEN rooms[r].phase \in {"loading", "running"}
                         ELSE rooms[r].phase = "running" /\ seat[r][a].ready

\* /MiniGameActionStart, /MiniGameDefenseStart
Start(a) ==
  LET r == membership[a] IN
  /\ Kind # "fishing" /\ Startable(a, r)
  /\ run[a] = None \/ prepared[a] = "abandoned"
  /\ run' = [run EXCEPT ![a] = r]
  /\ prepared' = [prepared EXCEPT ![a] = "none"]
  /\ Announce(a, Fresh("accepted", a, r))
  /\ givenUp' = IF run[a] = None THEN givenUp ELSE givenUp \cup {<<a, run[a]>>}
  /\ UNCHANGED <<resultVars, roomVars, applied, lost, crashes>>

\* /MiniGameActionEnd, /MiniGameDefenseEnd
End(a) ==
  LET r == run[a] IN
  /\ Kind # "fishing" /\ up /\ r # None /\ prepared[a] = "result"
  /\ run' = [run EXCEPT ![a] = None]
  /\ prepared' = [prepared EXCEPT ![a] = "none"]
  /\ Announce(a, Fresh("claimed", a, r))
  /\ UNCHANGED <<resultVars, roomVars, applied, givenUp, lost, crashes>>

\* /FishingVoyageStart: an earlier voyage is claimed, whatever came of it.
Sets(a) ==
  LET r == membership[a]  old == run[a] IN
  /\ Kind = "fishing" /\ Startable(a, r) /\ old # r
  /\ old # None => prepared[a] \in {"result", "abandoned"}
  /\ run' = [run EXCEPT ![a] = r]
  /\ prepared' = [prepared EXCEPT ![a] = "none"]
  /\ Announce(a, (IF old = None THEN << >> ELSE Fresh("claimed", a, old)) \o Fresh("accepted", a, r))
  /\ UNCHANGED <<resultVars, roomVars, applied, givenUp, lost, crashes>>

\* /FishingVoyageEnd needs no result.
Lands(a) ==
  /\ Kind = "fishing" /\ up /\ run[a] # None /\ prepared[a] # "looking"
  /\ run' = [run EXCEPT ![a] = None]
  /\ prepared' = [prepared EXCEPT ![a] = "none"]
  /\ Announce(a, Fresh("claimed", a, run[a]))
  /\ UNCHANGED <<resultVars, roomVars, applied, givenUp, lost, crashes>>

-----------------------------------------------------------------------------
(* The deliveries of the outbox (Consume).                                  *)

Delivered(a) ==
  /\ events' = [events EXCEPT ![a] = Tail(@)]
  /\ applied' = [applied EXCEPT ![a] = FALSE]

\* room.run.accepted: first the store, then the room, if it is there.
Record(a) ==
  /\ up /\ events[a] # << >> /\ ~applied[a] /\ StoreFree
  /\ Head(events[a])[1] = "accepted"
  /\ store' = AcceptIn(store, a, Head(events[a])[2])
  /\ applied' = [applied EXCEPT ![a] = TRUE]
  /\ UNCHANGED <<members, failures, reading, pending, queue, worker, roomVars>>
  /\ UNCHANGED <<run, prepared, events, published, givenUp, lost, crashes>>

Accept(a) ==
  LET r == Head(events[a])[2] IN
  /\ up /\ applied[a]
  /\ IF membership[a] = r
     THEN Acceptable(a, r) /\ Seated(r, a, [seat[r][a] EXCEPT !.accepted = TRUE])
     ELSE seat' = seat
  /\ Delivered(a)
  /\ UNCHANGED <<resultVars, up, closing, rooms, membership, offer, moving, excused>>
  /\ UNCHANGED <<run, prepared, published, givenUp, lost, crashes>>

\* room.run.claimed.  A claim that is refused stays first in its outbox.
Claim(a) ==
  LET r == Head(events[a])[2] IN
  /\ up /\ events[a] # << >> /\ StoreFree
  /\ Head(events[a])[1] = "claimed"
  /\ Claimable(store, a, r)
  /\ store' = ClaimIn(store, a, r)
  /\ Delivered(a)
  /\ UNCHANGED <<members, failures, reading, pending, queue, worker, roomVars>>
  /\ UNCHANGED <<run, prepared, published, givenUp, lost, crashes>>

-----------------------------------------------------------------------------
(* The process.                                                             *)

Durable == store.saved \cup store.retired

Quit ==
  /\ up /\ crashes < setup.crashes /\ crashes' = crashes + 1
  /\ Halt
  /\ prepared' = [a \in Accounts |-> "none"]
  /\ UNCHANGED <<run, events, applied, published, givenUp>>

\* The process dies; a drain of more than 30 s is cut off likewise.
Crash ==
  /\ Quit
  /\ lost' = lost \cup {r \in Rooms : rooms[r].ended /\ r \notin Durable}

\* An orderly end, counted with the crashes only to bound the restarts.
Exit == Drained /\ Quit /\ lost' = lost

Recover(r) ==
  /\ ~up /\ ~Recovered /\ RecoverResult(r)
  /\ UNCHANGED <<roomVars, playVars>>

Restart ==
  /\ ~up /\ Recovered
  /\ up' = TRUE
  /\ UNCHANGED <<resultVars, closing, rooms, seat, membership, offer, moving, excused, playVars>>

-----------------------------------------------------------------------------
Matching ==
  \E a \in Accounts :
    \/ Search(a) \/ Move(a) \/ CloseOld(a) \/ Rematch(a)
    \/ \E r \in Rooms :
         \/ \E auto \in BOOLEAN : Create(a, r, auto)
         \/ Join(a, r) \/ LeaveMatching(a, r) \/ HostStarts(a, r) \/ StopSearch(a, r)

Game ==
  \E a \in Accounts, r \in Rooms :
    \/ Attach(a, r) \/ Reconnect(a, r) \/ Disconnect(a, r)
    \/ Ready(a, r) \/ Sail(a, r) \/ Leave(a, r) \/ Slain(a, r)
    \/ \E client \in {"dead", "left", "cleared"} : Fare(a, r, client)

Limit(r) == ExpireMatching(r) \/ \E late \in SUBSET Gone(r) : Expire(r, late, TRUE)

Ticks ==
  \E r \in Rooms :
    \/ Limit(r) \/ Stop(r)
    \/ \E late \in SUBSET Gone(r) : ExpireLobby(r, late) \/ Expire(r, late, FALSE)

Rooming == Matching \/ Game \/ Ticks \/ Close

Commands ==
  "run" \in setup.moves /\ \E a \in Accounts :
    Look(a) \/ LookAtRoom(a) \/ Refused(a) \/ Start(a) \/ End(a) \/ Sets(a) \/ Lands(a)

Delivers(a) == Record(a) \/ Accept(a) \/ Claim(a)

Begins == Restart \/ \E r \in Rooms : Recover(r)

Persists == (Worker /\ UNCHANGED roomVars) \/ Acknowledge

Next ==
  /\ UNCHANGED setup
  /\ \/ (Rooming \/ Persists \/ (Defer /\ UNCHANGED roomVars)) /\ UNCHANGED playVars
     \/ Commands
     \/ \E a \in Accounts : Delivers(a)
     \/ Crash \/ Exit \/ Begins

Spec == Init /\ [][Next]_vars

\* The owners tick and their limits pass, the worker and the dispatcher get
\* their turns at the store, a read transaction ends, and a process that ended
\* is started again.
Fairness ==
  /\ \A r \in Rooms : WF_vars((Limit(r) \/ Stop(r)) /\ UNCHANGED <<setup, playVars>>)
  /\ SF_vars(Persists /\ UNCHANGED <<setup, playVars>>)
  /\ \A a \in Accounts : SF_vars(Delivers(a) /\ UNCHANGED setup)
  /\ WF_vars((\E a \in Accounts : LookAtRoom(a)) /\ UNCHANGED setup)
  /\ WF_vars(Begins /\ UNCHANGED setup)

FairSpec == Spec /\ Fairness

-----------------------------------------------------------------------------
(* Properties.                                                              *)

\* Where a result can be while it is not durable.
InFlight(r) ==
  \/ r \in Range(queue) \/ worker.room = r
  \/ up /\ rooms[r].phase = "over" /\ ~rooms[r].queued

\* A tick removes a room that request 93 closed (CloseOld) after it started,
\* also when the full queue has just refused its result.
Dropped(r) == rooms[r].phase = "gone" /\ rooms[r].closed

\* A room that is over loses its result only with the process, or as Dropped;
\* an orderly end of the process loses none (Stop, Drained, Retires).
NothingLost ==
  \A r \in Rooms : rooms[r].ended => r \in Durable \cup lost \/ InFlight(r) \/ Dropped(r)

\* The members hear of the end of a room once its result can be claimed, in
\* this process and in every later one.
EndsAreDurable == \A r \in Rooms : rooms[r].told => r \in store.ready \cup store.retired

\* A result is kept until the account of every member has committed a claim,
\* and a retry of persist does not bring it back (retireClaimedRoom).
KeptUntilClaimed ==
  /\ store.saved \cap store.retired = {}
  /\ store.ready \subseteq store.saved
  /\ Kind = "action" => store.ready \cup store.retired \subseteq store.ranked
  /\ \A r \in store.retired : \A a \in In(r) : <<"claimed", a, r>> \in published

\* A committed claim finds what it claims when it is delivered, so that it
\* never stands before the later events of its account ("room claim has no
\* durable result").
ClaimsAreBacked ==
  \A a \in Accounts : \A i \in 1..Len(events[a]) :
    events[a][i][1] = "claimed" =>
      LET r == events[a][i][2] IN
      \/ r \in store.ready
      \/ Kind = "fishing" /\ \/ r \in store.saved \/ <<a, r>> \in store.runs
                             \/ \E j \in 1..(i - 1) : events[a][j] = <<"accepted", r>>

\* A run replaced as abandoned ("native room ended without a retained
\* result") has no result and will have none, but for a member who had left
\* the room that was over before its result was handed over or while Result
\* looked, or who lost a place to another room's expiry, to request 93 in a
\* room that had started, or while Result looked to the tick after it.
AbandonedHaveNoResult ==
  \A x \in givenUp \ excused :
    x[2] \notin Durable /\ ~InFlight(x[2]) /\ rooms[x[2]].phase \notin Playing

ResultsAreKept ==
  /\ NothingLost /\ EndsAreDurable /\ KeptUntilClaimed
  /\ ClaimsAreBacked /\ AbandonedHaveNoResult

\* Every room ends, with its result ready, lost with the process or Dropped, and the
\* deliveries of every account come to an end.  (Rooms are not reused, so all
\* of them have settled in the end.)
Settled ==
  /\ \A r \in Rooms :
       /\ rooms[r].phase \in {"free", "gone", "stopped"}
       /\ rooms[r].ended => r \in store.ready \cup store.retired \cup lost \/ Dropped(r)
  /\ \A a \in Accounts : events[a] = << >>

RoomsSettle == <>[]Settled

=============================================================================
