----------------------------- MODULE RoomManager -----------------------------
(***************************************************************************)
(* The rooms of relay games (runtime/room): matching, loading, the game, its *)
(* end and the removal.  Every room is an owner goroutine; a frame is an     *)
(* operation of its mailbox and one step here, a tick is another.  What      *)
(* frames relay between players is left out.  In a running action room the   *)
(* host, whose monster state ends the fight, is any member connected with an *)
(* accepted run; in matching and in fishing it is the first member.          *)
(***************************************************************************)
EXTENDS RoomResults

VARIABLES
  up, closing,  \* the process; Manager.closed
  rooms,        \* state of each room
  seat,         \* state.members: a member's part of it
  membership,   \* Manager.memberships
  offer,        \* Manager.actionOffers, of the one schedule and monster
  moving,       \* request 93 between two rooms: from one, to the other
  excused       \* history: who lost a place by a defect named at PlacesLost

process == <<up, closing>>
places == <<membership, offer, moving, excused>>
results == <<store, reading, pending, queue, worker, failures>>
unheld == <<store, reading, worker, failures>>  \* what handing over a result leaves

roomVars == <<process, rooms, seat, places>>

Capacity == setup.capacity

NoRoom == [phase |-> "free", auto |-> FALSE, closed |-> FALSE, queued |-> FALSE,
           persisted |-> FALSE, ended |-> FALSE, told |-> FALSE]

Apart == [conn |-> "new", ready |-> FALSE, client |-> "waiting", accepted |-> FALSE]

Still == [from |-> None, to |-> None]

\* What is left of a removed room: its result, if it was over.  It stays
\* marked as closed when no queue ever took that result.
Removed(room) ==
  [NoRoom EXCEPT !.phase = "gone", !.ended = room.ended, !.told = room.told,
                 !.closed = room.closed /\ room.ended /\ ~room.queued]

Empty == [a \in Accounts |-> Apart]

Playing == {"loading", "running", "over"}  \* roomState 1, 2, 3

RoomStates ==
  [phase : {"free", "lobby", "stopped", "gone"} \cup Playing,
   auto : BOOLEAN, closed : BOOLEAN, queued : BOOLEAN, persisted : BOOLEAN,
   ended : BOOLEAN, told : BOOLEAN]

Seats ==
  [conn : {"new", "on", "off"}, ready : BOOLEAN, accepted : BOOLEAN,
   client : {"waiting", "playing", "dead", "left", "cleared"}]

Moves == {Still} \cup [from : Rooms, to : Rooms \cup {None}]

ManagerTypeOK ==
  /\ up \in BOOLEAN /\ closing \in BOOLEAN
  /\ rooms \in [Rooms -> RoomStates]
  /\ seat \in [Rooms -> [Accounts -> Seats]]
  /\ membership \in [Accounts -> Rooms \cup {None}]
  /\ offer \in Rooms \cup {None}
  /\ moving \in [Accounts -> Moves]
  /\ excused \subseteq Accounts \X Rooms

ManagerInit ==
  /\ up = TRUE /\ closing = FALSE
  /\ rooms = [r \in Rooms |-> NoRoom]
  /\ seat = [r \in Rooms |-> Empty]
  /\ membership = [a \in Accounts |-> None]
  /\ offer = None
  /\ moving = [a \in Accounts |-> Still]
  /\ excused = {}

In(r) == Range(members[r])
Host(r) == Head(members[r])

\* checkConnection refuses every frame once Close was called.
Open == up /\ ~closing

\* The mailbox of a closed room refuses every operation.
Member(a, r) == Open /\ membership[a] = r /\ r # None /\ ~rooms[r].closed /\ a \in In(r)

-----------------------------------------------------------------------------
(* Matching.                                                                *)

Full(list) == Len(list) = Capacity

\* complete, if the room gathers automatically and is full
Gathered(room, list) ==
  IF room.auto /\ Full(list) THEN [room EXCEPT !.phase = "loading"] ELSE room

\* A room that completes, closes or stops searching offers itself no more.
Withdraw(r) == offer' = IF offer = r THEN None ELSE offer

\* match, without a room: the next instance.  A solo room (auto here too)
\* completes at once; an action room of more gathers after request 93.
Create(a, r, auto) ==
  /\ IF Capacity = 1 THEN auto ELSE auto => Kind # "action"
  /\ Open /\ a \in setup.accounts /\ membership[a] = None
  /\ r \in 1..setup.rooms /\ rooms[r].phase = "free" /\ \A q \in 1..(r - 1) : rooms[q].phase # "free"
  /\ members' = [members EXCEPT ![r] = <<a>>]
  /\ rooms' = [rooms EXCEPT ![r] =
       Gathered([NoRoom EXCEPT !.phase = "lobby", !.auto = auto], <<a>>)]
  /\ membership' = [membership EXCEPT ![a] = r]
  /\ UNCHANGED <<results, process, seat, offer, moving, excused>>

Admits(a, r) ==
  /\ rooms[r].phase = "lobby" /\ ~rooms[r].closed
  /\ Len(members[r]) < Capacity /\ a \notin In(r)

\* joinTransferred
Enter(a, r) ==
  /\ members' = [members EXCEPT ![r] = Append(@, a)]
  /\ rooms' = [rooms EXCEPT ![r] = Gathered(@, Append(members[r], a))]
  /\ membership' = [membership EXCEPT ![a] = r]
  /\ offer' = IF rooms[r].auto /\ Full(Append(members[r], a)) /\ offer = r THEN None ELSE offer

Join(a, r) ==
  /\ Open /\ a \in setup.accounts /\ membership[a] = None /\ Admits(a, r)
  /\ Enter(a, r)
  /\ UNCHANGED <<results, process, seat, moving, excused>>

\* Request 93: the room searches, or has found another room that does.
Search(a) ==
  LET r == membership[a] IN
  /\ Kind = "action" /\ "search" \in setup.moves
  /\ Member(a, r) /\ moving[a] = Still /\ rooms[r].phase = "lobby"
  /\ rooms' = [rooms EXCEPT ![r] = Gathered([@ EXCEPT !.auto = TRUE], members[r])]
  /\ IF Full(members[r]) THEN Withdraw(r) /\ moving' = moving
     ELSE IF offer \in {None, r} THEN offer' = r /\ moving' = moving
     ELSE offer' = None /\ moving' = [moving EXCEPT ![a] = [from |-> r, to |-> offer]]
  /\ UNCHANGED <<members, results, process, seat, membership, excused>>

\* joinTransferred looks at the state of the other room only.
Move(a) ==
  LET from == moving[a].from  to == moving[a].to IN
  /\ Open /\ to # None
  /\ IF Admits(a, to) /\ membership[a] = from
     THEN /\ Enter(a, to)
          /\ moving' = [moving EXCEPT ![a].to = None]
          /\ excused' = excused \cup (IF rooms[from].phase = "lobby" THEN {} ELSE {<<a, from>>})
     ELSE /\ moving' = [moving EXCEPT ![a] = Still]
          /\ UNCHANGED <<members, rooms, membership, offer, excused>>
  /\ UNCHANGED <<results, process, seat>>

\* The last operation of request 93 closes the room left behind, which may
\* have started or ended by then, or stopped (ErrClosed).
CloseOld(a) ==
  LET from == moving[a].from IN
  /\ up /\ from # None /\ moving[a].to = None
  /\ moving' = [moving EXCEPT ![a] = Still]
  /\ rooms' = IF rooms[from].phase \in {"gone", "stopped"} THEN rooms
              ELSE [rooms EXCEPT ![from].closed = TRUE]
  /\ UNCHANGED <<members, results, process, seat, membership, offer, excused>>

\* leaveMatching deletes the membership whichever room it names by then.
\* PlacesLost: a member who has moved on loses the place in the other room.
PlacesLost(who, r) == {<<a, membership[a]>> : a \in {b \in who : membership[b] \notin {r, None}}}

Deserted(r, who) ==
  \/ Range(members[r]) \subseteq who
  \/ Kind = "fishing" /\ Host(r) \in who

\* leaveMatching takes members out of the list; the others keep their order.
Without(list, who) ==
  LET stay == {i \in DOMAIN list : list[i] \notin who}
      place(i) == Cardinality({j \in stay : j <= i})
  IN  [n \in 1..Cardinality(stay) |-> list[CHOOSE i \in stay : place(i) = n]]

\* Frames 64, 87 and 151.  The room was looked up before the operation ran.
LeaveMatching(a, r) ==
  /\ Open /\ rooms[r].phase = "lobby" /\ ~rooms[r].closed /\ a \in In(r)
  /\ r \in {membership[a], moving[a].from}
  /\ members' = [members EXCEPT ![r] = Without(@, {a})]
  /\ rooms' = [rooms EXCEPT ![r].closed = Deserted(r, {a})]
  /\ membership' = [membership EXCEPT ![a] = None]
  /\ seat' = [seat EXCEPT ![r][a] = Apart]
  /\ excused' = excused \cup PlacesLost({a}, r)
  /\ UNCHANGED <<results, process, offer, moving>>

\* Frames 74, 104 and 157: the host does not wait for more.
HostStarts(a, r) ==
  /\ Member(a, r) /\ rooms[r].phase = "lobby" /\ a = Host(r)
  /\ rooms' = [rooms EXCEPT ![r].phase = "loading"]
  /\ Withdraw(r)
  /\ UNCHANGED <<members, results, process, seat, membership, moving, excused>>

\* Frame 95.
StopSearch(a, r) ==
  /\ Member(a, r) /\ Kind = "action" /\ rooms[r].phase = "lobby" /\ rooms[r].auto
  /\ rooms' = [rooms EXCEPT ![r].auto = FALSE]
  /\ Withdraw(r)
  /\ UNCHANGED <<members, results, process, seat, membership, moving, excused>>

\* The first half of match in a room that is over: the membership is deleted,
\* whether or not the result was handed over.
Rematch(a) ==
  LET r == membership[a] IN
  /\ "run" \in setup.moves /\ Member(a, r) /\ rooms[r].phase = "over"
  /\ membership' = [membership EXCEPT ![a] = None]
  /\ excused' = IF rooms[r].queued /\ a \notin reading THEN excused ELSE excused \cup {<<a, r>>}
  /\ UNCHANGED <<members, results, process, rooms, seat, offer, moving>>

-----------------------------------------------------------------------------
(* The game.                                                                *)

\* finish: the terminal frames wait for the result to be persisted.
Over(room) == [room EXCEPT !.phase = "over", !.queued = CanQueue, !.ended = TRUE]

\* A plausible slip: the members hear of the end at once.
FinishTells(r) ==
  /\ rooms' = [rooms EXCEPT ![r] = [Over(@) EXCEPT !.told = TRUE]]
  /\ Publish(r)

Finish(r) ==
  /\ rooms' = [rooms EXCEPT ![r] = Over(@)]
  /\ Publish(r)

Continue == UNCHANGED <<rooms, queue, pending>>

Seated(r, a, s) == seat' = [seat EXCEPT ![r][a] = s]

\* Frame 23.  A matching connection that was lost counts as gone as well.
Attach(a, r) ==
  /\ "play" \in setup.moves /\ Member(a, r) /\ rooms[r].phase \in {"loading", "running"}
  /\ seat[r][a].client # "left"
  /\ Seated(r, a, [seat[r][a] EXCEPT !.conn = "on"])
  /\ UNCHANGED <<members, results, process, rooms, places>>

\* Frames 37, 109 and 201, by a client that had a game connection.
Reconnect(a, r) ==
  /\ Member(a, r) /\ seat[r][a].conn # "new" /\ seat[r][a].client # "left"
  /\ rooms[r].phase \in Playing
  /\ rooms[r].phase = "over" => rooms[r].persisted
  /\ Seated(r, a, [seat[r][a] EXCEPT !.conn = "on"])
  /\ UNCHANGED <<members, results, process, rooms, places>>

\* Disconnect: of the matching connection in the lobby, else of the game
\* connection.  A full mailbox drops it, and the member stays connected.
Disconnect(a, r) ==
  /\ up /\ "hangup" \in setup.moves /\ membership[a] = r /\ a \in In(r) /\ ~rooms[r].closed
  /\ \/ rooms[r].phase = "lobby" /\ seat[r][a].conn = "new"
     \/ rooms[r].phase \in Playing /\ seat[r][a].conn = "on"
  /\ Seated(r, a, [seat[r][a] EXCEPT !.conn = "off"])
  /\ UNCHANGED <<members, results, process, rooms, places>>

\* require
Plays(a, r) == Member(a, r) /\ seat[r][a].conn = "on"

\* Frame 45, and tryStart when all are ready.
Ready(a, r) ==
  /\ Plays(a, r) /\ Kind # "fishing" /\ rooms[r].phase \in {"loading", "running"}
  /\ ~seat[r][a].ready
  /\ LET others == \A b \in In(r) \ {a} : seat[r][b].ready
         starts == rooms[r].phase = "loading" /\ others
     IN /\ seat' = [seat EXCEPT ![r] = [b \in Accounts |->
             IF b = a THEN [@[b] EXCEPT !.ready = TRUE, !.client = IF starts THEN "playing" ELSE "waiting"]
             ELSE IF starts /\ b \in In(r) THEN [@[b] EXCEPT !.client = "playing"] ELSE @[b]]]
        /\ rooms' = IF starts THEN [rooms EXCEPT ![r].phase = "running"] ELSE rooms
  /\ UNCHANGED <<members, results, process, places>>

\* Frame 212.
Sail(a, r) ==
  /\ Plays(a, r) /\ Kind = "fishing" /\ rooms[r].phase \in {"loading", "running"}
  /\ Seated(r, a, [seat[r][a] EXCEPT !.ready = TRUE, !.client = "playing"])
  /\ rooms' = [rooms EXCEPT ![r].phase = "running"]
  /\ UNCHANGED <<members, results, process, places>>

\* Frames 52, 114 and 192: the fishing host ends the voyage of all.
Leave(a, r) ==
  /\ Plays(a, r) /\ "leave" \in setup.moves /\ rooms[r].phase \in Playing
  /\ seat[r][a].client # "left"
  /\ Seated(r, a, [seat[r][a] EXCEPT !.client = "left"])
  /\ IF Kind = "fishing" /\ a = Host(r) /\ rooms[r].phase # "over" THEN Finish(r) ELSE Continue
  /\ UNCHANGED <<members, unheld, process, places>>

\* Frames 111 and 48, with the member's own state: the room is over when no
\* member plays on.
Fare(a, r, client) ==
  LET seats == [seat[r] EXCEPT ![a].client = client] IN
  /\ Plays(a, r) /\ rooms[r].phase = "running" /\ seat[r][a].ready
  /\ \/ Kind = "action" /\ client \in {"dead", "left"}
        /\ seat[r][a].client \notin {"left", "cleared"}
     \/ Kind = "defense" /\ client \in {"dead", "left", "cleared"}
        /\ seat[r][a].client = "playing"
        /\ client # "left" => seat[r][a].accepted
  /\ client \in setup.moves
  /\ seat' = [seat EXCEPT ![r] = seats]
  /\ IF \A b \in In(r) : seats[b].client # "playing" THEN Finish(r) ELSE Continue
  /\ UNCHANGED <<members, unheld, process, places>>

\* Frame 111 of the host: the monster is down.
Slain(a, r) ==
  /\ Plays(a, r) /\ Kind = "action" /\ rooms[r].phase = "running"
  /\ seat[r][a].ready /\ seat[r][a].accepted
  /\ seat' = [seat EXCEPT ![r] = [b \in Accounts |->
       IF @[b].client = "playing" THEN [@[b] EXCEPT !.client = "cleared"] ELSE @[b]]]
  /\ Finish(r)
  /\ UNCHANGED <<members, unheld, process, places>>

-----------------------------------------------------------------------------
(* The tick of an owner: expire, then remove.                               *)

Gone(r) == {a \in In(r) : seat[r][a].conn = "off" /\ seat[r][a].client # "left"}

\* remove
Unlist(who, r) ==
  [a \in Accounts |-> IF a \in who \/ membership[a] = r THEN None ELSE membership[a]]

\* The matching limit, and the removal of a room an operation closed.
ExpireMatching(r) ==
  /\ up /\ rooms[r].phase = "lobby"
  /\ rooms' = [rooms EXCEPT ![r] = Removed(@)]
  /\ members' = [members EXCEPT ![r] = << >>]
  /\ seat' = [seat EXCEPT ![r] = Empty]
  /\ membership' = Unlist({}, r)
  /\ Withdraw(r)
  /\ UNCHANGED <<results, process, moving, excused>>

\* The reconnect window of the late is over: they leave the matching.
ExpireLobby(r, late) ==
  LET closed == rooms[r].closed \/ Deserted(r, late) IN
  /\ up /\ rooms[r].phase = "lobby" /\ late # {} /\ late \subseteq Gone(r)
  /\ members' = [members EXCEPT ![r] =
       IF closed THEN << >> ELSE Without(@, late)]
  /\ rooms' = IF closed THEN [rooms EXCEPT ![r] = Removed(@)] ELSE rooms
  /\ seat' = [seat EXCEPT ![r] = IF closed THEN Empty
                ELSE [a \in Accounts |-> IF a \in late THEN Apart ELSE @[a]]]
  /\ membership' = IF closed THEN Unlist(late, r)
                   ELSE [a \in Accounts |-> IF a \in late THEN None ELSE membership[a]]
  /\ IF closed THEN Withdraw(r) ELSE offer' = offer
  /\ excused' = excused \cup PlacesLost(late, r)
  /\ UNCHANGED <<results, process, moving>>

\* A plausible slip: retention alone decides the removal.
RetiresUnsaved(r, limit) == rooms[r].phase = "over" /\ limit

\* A room over stays until its result is persisted, and then for a while.
Retires(r, limit) == rooms[r].phase = "over" /\ rooms[r].persisted /\ limit

\* A plausible slip: a result the queue refused is not offered again.
OffersNever(r) == FALSE

Offers(r) == rooms[r].phase = "over" /\ ~rooms[r].queued

\* late: members whose reconnect window is over; limit: the loading limit, the
\* duration of the room or the retention of its result has passed.  A closed
\* room is removed whatever it is in the middle of; its members lose a place.
Expire(r, late, limit) ==
  LET seats == [a \in Accounts |-> IF a \in late THEN [seat[r][a] EXCEPT !.client = "left"]
                                                 ELSE seat[r][a]]
      deserted == /\ rooms[r].phase = "running"
                  /\ \A a \in In(r) : ~ \/ seats[a].client = "playing"
                                        \/ seats[a].client = "dead" /\ seats[a].conn = "on"
      ends == /\ rooms[r].phase # "over"
              /\ \/ limit \/ deserted
                 \/ Kind = "fishing" /\ Host(r) \in late
      hands == ends \/ Offers(r)
      room == IF hands THEN Over(rooms[r]) ELSE rooms[r]
  IN
  /\ up /\ rooms[r].phase \in Playing /\ late \subseteq Gone(r)
  /\ IF hands THEN Publish(r) ELSE UNCHANGED <<queue, pending>>
  /\ IF rooms[r].closed \/ Retires(r, limit)
     THEN /\ rooms' = [rooms EXCEPT ![r] = Removed(room)]
          /\ seat' = [seat EXCEPT ![r] = Empty]
          /\ membership' = Unlist({}, r)
          /\ Withdraw(r)
          /\ excused' = excused \cup
               {<<a, r>> : a \in {b \in reading : rooms[r].closed /\ membership[b] = r}}
     ELSE /\ rooms' = [rooms EXCEPT ![r] = room]
          /\ seat' = [seat EXCEPT ![r] = seats]
          /\ UNCHANGED places
  /\ UNCHANGED <<members, unheld, process, moving>>

\* AcceptRun, at the delivery of room.run.accepted.
Acceptable(a, r) ==
  /\ rooms[r].phase \in Playing /\ ~rooms[r].closed
  /\ Kind = "fishing" \/ (seat[r][a].ready /\ rooms[r].phase # "loading")

\* The worker's AcknowledgeResult: the terminal frames go out.  A room that is
\* closed, or no more, needs none.
Acknowledge ==
  LET r == worker.room IN
  /\ worker.step = "acknowledge"
  /\ rooms' = IF rooms[r].phase = "over" /\ ~rooms[r].closed
              THEN [rooms EXCEPT ![r].persisted = TRUE, ![r].told = TRUE] ELSE rooms
  /\ worker' = Idle
  /\ UNCHANGED <<members, store, reading, pending, queue, failures, process, seat, places>>

-----------------------------------------------------------------------------
(* Shutdown and crash.                                                      *)

\* Manager.Close
Close ==
  /\ up /\ ~closing /\ "close" \in setup.moves
  /\ closing' = TRUE
  /\ UNCHANGED <<members, results, up, rooms, seat, places>>

\* A plausible slip: the owner tries to hand its result over once.
StopTries(r) ==
  /\ closing /\ rooms[r].phase \in Playing \cup {"lobby"}
  /\ IF rooms[r].phase = "over" /\ ~rooms[r].queued
     THEN /\ Publish(r)
          /\ rooms' = [rooms EXCEPT ![r].phase = "stopped", ![r].queued = CanQueue]
     ELSE /\ rooms' = [rooms EXCEPT ![r].phase = "stopped"]
          /\ UNCHANGED <<queue, pending>>
  /\ UNCHANGED <<members, unheld, process, seat, places>>

\* The owner ends; a room over hands its result over first, however long the
\* queue stays full.
Stop(r) ==
  /\ closing /\ rooms[r].phase \in Playing \cup {"lobby"}
  /\ IF rooms[r].phase = "over" /\ ~rooms[r].queued
     THEN /\ CanQueue /\ Publish(r)
          /\ rooms' = [rooms EXCEPT ![r].phase = "stopped", ![r].queued = TRUE]
     ELSE /\ rooms' = [rooms EXCEPT ![r].phase = "stopped"]
          /\ UNCHANGED <<queue, pending>>
  /\ UNCHANGED <<members, unheld, process, seat, places>>

\* roomResults.stop returns when the queue is drained.
Drained ==
  /\ closing /\ worker = Idle /\ queue = << >>
  /\ \A r \in Rooms : rooms[r].phase \in {"free", "gone", "stopped"}

\* The process is no more: only the store remains.
Halt ==
  /\ up' = FALSE /\ closing' = FALSE
  /\ rooms' = [r \in Rooms |-> IF rooms[r].phase = "free" THEN NoRoom ELSE Removed(rooms[r])]
  /\ seat' = [r \in Rooms |-> Empty]
  /\ membership' = [a \in Accounts |-> None]
  /\ offer' = None
  /\ moving' = [a \in Accounts |-> Still]
  /\ pending' = {} /\ queue' = << >> /\ worker' = Idle /\ reading' = {}
  /\ members' = [r \in Rooms |-> IF rooms[r].ended THEN members[r] ELSE << >>]
  /\ UNCHANGED <<store, failures, excused>>

=============================================================================
