------------------------- MODULE RoomPlay_proofs --------------------------
(* Proofs about RoomPlay, for every value of its constants: the types of the *)
(* rooms, their results and the accounts that play in them, and what becomes *)
(* of a result: it is lost only where the code gives it up, it stays until   *)
(* each member claimed it, and no run is given up while its result may come. *)
EXTENDS RoomPlay, SequenceTheorems, FiniteSetTheorems, TLAPS

-----------------------------------------------------------------------------
(* Lists *)

\* leaveMatching: who stays was in the list.
LEMMA WithoutIsList ==
  ASSUME NEW S, NEW list \in Seq(S), NEW who
  PROVE  Without(list, who) \in Seq(S)
<1> DEFINE stay == {i \in DOMAIN list : list[i] \notin who}
           upTo(i) == {j \in stay : j <= i}
           place(i) == Cardinality(upTo(i))
           size == Cardinality(stay)
<1>1. stay \subseteq 1..Len(list) /\ Len(list) \in Nat
  OBVIOUS
<1>2. IsFiniteSet(stay)
  BY <1>1, FS_Interval, FS_Subset
<1>3. size \in Nat
  BY <1>2, FS_CardinalityType
<1>4. \A i \in stay : /\ IsFiniteSet(upTo(i)) /\ place(i) \in Nat /\ place(i) <= size
  BY <1>2, FS_Subset, FS_CardinalityType
<1>5. \A i \in stay : place(i) # 0
  <2>1. SUFFICES ASSUME NEW i \in stay PROVE place(i) # 0
    OBVIOUS
  <2>2. i \in upTo(i)
    BY <1>1
  <2>3. upTo(i) # {}
    BY <2>2, Zenon
  <2>4. IsFiniteSet(upTo(i))
    BY <1>4, Zenon
  <2>5. Cardinality(upTo(i)) = 0 <=> upTo(i) = {}
    BY <2>4, FS_EmptySet, Zenon
  <2> QED
    BY <2>3, <2>5
<1>6. \A i \in stay : place(i) \in 1..size
  <2>1. SUFFICES ASSUME NEW i \in stay PROVE place(i) \in 1..size
    OBVIOUS
  <2>2. place(i) \in Nat /\ place(i) <= size /\ place(i) # 0
    BY <1>4, <1>5
  <2>3. \A p, q \in Nat : p <= q /\ p # 0 => p \in 1..q
    OBVIOUS
  <2> QED
    BY <1>3, <2>2, <2>3, Zenon
<1>7. \A i, j \in stay : i < j => place(i) # place(j)
  <2>1. SUFFICES ASSUME NEW i \in stay, NEW j \in stay, i < j PROVE place(i) # place(j)
    OBVIOUS
  <2>2. upTo(i) \in SUBSET upTo(j) /\ j \in upTo(j) /\ j \notin upTo(i)
    BY <1>1, <2>1
  <2>3. upTo(i) # upTo(j)
    BY <2>2, Zenon
  <2> QED
    BY <1>4, <2>2, <2>3, FS_Subset
<1>8. \A i, j \in stay : place(i) = place(j) => i = j
  BY <1>1, <1>7
<1> DEFINE f == [i \in stay |-> place(i)]
<1>9. f \in [stay -> 1..size]
  BY <1>6
<1>10. f \in Injection(stay, 1..size)
  <2> HIDE DEF stay, place
  <2> QED
    BY <1>8, <1>9 DEF Injection, IsInjective
<1>11. IsFiniteSet(1..size) /\ Cardinality(1..size) = size
  BY <1>3, FS_Interval
<1>12. f \in Surjection(stay, 1..size)
  BY <1>10, <1>11, FS_Injection
<1>13. \A n \in 1..size : \E i \in stay : place(i) = n
  BY <1>12 DEF Surjection
<1> DEFINE w == [n \in 1..size |-> list[CHOOSE i \in stay : place(i) = n]]
<1>14. \A n \in 1..size : w[n] \in S
  <2>1. SUFFICES ASSUME NEW n \in 1..size PROVE w[n] \in S
    OBVIOUS
  <2> DEFINE c == CHOOSE i \in stay : place(i) = n
  <2>2. c \in stay
    BY <1>13
  <2>3. list[c] \in S
    BY <1>1, <2>2
  <2> QED
    BY <2>3
<1>15. w \in Seq(S)
  <2>1. w \in [1..size -> S]
    BY <1>14
  <2> HIDE DEF size, w
  <2> QED
    BY <1>3, <2>1
<1>16. Without(list, who) = w
  BY DEF Without
<1> QED
  BY <1>15, <1>16

-----------------------------------------------------------------------------
(* Type correctness: parts of a state *)

PlayTypeOK ==
  /\ run \in [Accounts -> Rooms \cup {None}]
  /\ prepared \in [Accounts -> {"none", "looking", "result", "abandoned"}]
  /\ reading = {a \in Accounts : prepared[a] = "looking"}
  /\ events \in [Accounts -> Seq(Topics \X Rooms)]
  /\ applied \in [Accounts -> BOOLEAN]
  /\ published \subseteq Topics \X Accounts \X Rooms
  /\ givenUp \subseteq Accounts \X Rooms
  /\ lost \subseteq Rooms
  /\ crashes \in 0..setup.crashes

\* TypeOK, part by part.
LEMMA TypeParts == TypeOK <=> ResultsTypeOK /\ ManagerTypeOK /\ PlayTypeOK
BY DEF TypeOK, PlayTypeOK

\* The parts give TypeOK again after a step.
LEMMA TypePartsNext == ResultsTypeOK' /\ ManagerTypeOK' /\ PlayTypeOK' => TypeOK'
BY DEF TypeOK, PlayTypeOK

\* Steps that leave the results alone keep their types.
LEMMA ResultsTypeFrame ==
  ASSUME ResultsTypeOK, setup' = setup, UNCHANGED <<members, results>>
  PROVE  ResultsTypeOK'
BY DEF ResultsTypeOK, results

\* Steps that leave the manager alone keep its types.
LEMMA ManagerTypeFrame ==
  ASSUME ManagerTypeOK, UNCHANGED roomVars
  PROVE  ManagerTypeOK'
BY DEF ManagerTypeOK, roomVars, process, places

\* Steps that leave the players alone keep their types.
LEMMA PlayTypeFrame ==
  ASSUME PlayTypeOK, setup' = setup, reading' = reading, UNCHANGED playVars
  PROVE  PlayTypeOK'
BY DEF PlayTypeOK, playVars

\* The transactions keep the shape of the store.
LEMMA SettleType ==
  ASSUME NEW s \in Stores, NEW r \in Rooms
  PROVE  Settle(s, r) \in Stores
BY DEF Settle, Stores

\* What the worker makes of the store is a store.
LEMMA ShapeKept ==
  ASSUME NEW s \in Stores, NEW r \in Rooms
  PROVE  SaveIn(s, r) \in Stores /\ RankIn(s, r) \in Stores /\ ReadyIn(s, r) \in Stores
<1>1. SaveIn(s, r) \in Stores /\ RankIn(s, r) \in Stores
  BY DEF SaveIn, RankIn, Stores
<1>2. [s EXCEPT !.ready = @ \cup {r}] \in Stores
  BY DEF Stores
<1>3. ReadyIn(s, r) \in Stores
  BY <1>2, SettleType DEF ReadyIn
<1> QED
  BY <1>1, <1>3

\* So is what the deliveries make of it.
LEMMA ClaimsShapeKept ==
  ASSUME NEW s \in Stores, NEW r \in Rooms, NEW a \in Accounts
  PROVE  AcceptIn(s, a, r) \in Stores /\ ClaimIn(s, a, r) \in Stores
<1>1. AcceptIn(s, a, r) \in Stores
  BY DEF AcceptIn, Stores
<1>2. s.runs \ {<<a, r>>} \in SUBSET (Accounts \X Rooms)
  BY DEF Stores
<1>3. s.claims \cup {<<a, r>>} \in SUBSET (Accounts \X Rooms)
  BY DEF Stores
<1>4. [s EXCEPT !.claims = @ \cup {<<a, r>>}] \in Stores
  BY <1>3 DEF Stores
<1>5. [s EXCEPT !.claims = @ \cup {<<a, r>>}, !.runs = @ \ {<<a, r>>}] \in Stores
  BY <1>2, <1>3 DEF Stores
<1>6. ClaimIn(s, a, r) \in Stores
  BY <1>4, <1>5, SettleType DEF ClaimIn
<1> QED
  BY <1>1, <1>6

\* Handing over a result fills the queue no further than it goes.
LEMMA PublishType ==
  ASSUME ResultsTypeOK, NEW r \in Rooms, Publish(r)
  PROVE  queue' \in Seq(Rooms) /\ Len(queue') <= QueueLength /\ pending' \subseteq Rooms
<1>1. CASE CanQueue
  <2>1. queue' = Append(queue, r) /\ pending' = pending \cup {r}
    BY <1>1 DEF Publish
  <2>2. queue' \in Seq(Rooms) /\ Len(queue') = Len(queue) + 1
    BY <2>1, AppendProperties DEF ResultsTypeOK
  <2> QED
    BY <1>1, <2>1, <2>2, RoomAssumption DEF CanQueue, ResultsTypeOK
<1>2. CASE ~CanQueue
  BY <1>2 DEF Publish, ResultsTypeOK
<1> QED
  BY <1>1, <1>2

\* Setting a mark of a room leaves a room.
LEMMA MarkedType ==
  ASSUME NEW room \in RoomStates, NEW b \in BOOLEAN, NEW c \in BOOLEAN, NEW d \in BOOLEAN
  PROVE  [room EXCEPT !.phase = "gone", !.ended = b, !.told = c, !.closed = d] \in RoomStates
BY DEF RoomStates

\* A free room is a room.
LEMMA NoRoomType == NoRoom \in RoomStates
BY DEF NoRoom, RoomStates, Playing

\* A removed room is a room.
LEMMA RemovedType ==
  ASSUME NEW room \in RoomStates, NoRoom \in RoomStates
  PROVE  Removed(room) \in RoomStates
<1>1. room.ended \in BOOLEAN /\ room.told \in BOOLEAN
  BY DEF RoomStates
<1>2. (room.closed /\ room.ended /\ ~room.queued) \in BOOLEAN
  OBVIOUS
<1> QED
  BY <1>1, <1>2, MarkedType, Zenon DEF Removed

\* A room that is over is a room.
LEMMA OverType ==
  ASSUME NEW room \in RoomStates, NEW b \in BOOLEAN
  PROVE  [room EXCEPT !.phase = "over", !.queued = b, !.ended = TRUE] \in RoomStates
BY DEF RoomStates, Playing

\* Every update of a room that the manager makes leaves a room.
LEMMA RoomTypes ==
  ASSUME NEW room \in RoomStates, NEW list
  PROVE  /\ Gathered(room, list) \in RoomStates /\ Removed(room) \in RoomStates
         /\ Over(room) \in RoomStates /\ NoRoom \in RoomStates
         /\ Gathered([room EXCEPT !.auto = TRUE], list) \in RoomStates
<1>1. Gathered(room, list) \in RoomStates /\ Gathered([room EXCEPT !.auto = TRUE], list) \in RoomStates
  BY DEF Gathered, RoomStates, Playing
<1>2. NoRoom \in RoomStates
  BY NoRoomType
<1>3. Removed(room) \in RoomStates
  BY <1>2, RemovedType
<1>4. Over(room) \in RoomStates
  <2>1. CanQueue \in BOOLEAN
    BY DEF CanQueue
  <2>2. [room EXCEPT !.phase = "over", !.queued = CanQueue, !.ended = TRUE] \in RoomStates
    BY <2>1, OverType, Zenon
  <2> QED
    BY <2>2, Zenon DEF Over
<1> QED
  BY <1>1, <1>2, <1>3, <1>4

\* Finishing a game leaves a room.
LEMMA FinishType ==
  ASSUME ResultsTypeOK, ManagerTypeOK, NEW r \in Rooms, Finish(r) \/ Continue
  PROVE  /\ rooms' \in [Rooms -> RoomStates]
         /\ queue' \in Seq(Rooms) /\ Len(queue') <= QueueLength /\ pending' \subseteq Rooms
<1>1. CASE Continue
  BY <1>1 DEF Continue, ResultsTypeOK, ManagerTypeOK
<1>2. CASE Finish(r)
  <2>1. Over(rooms[r]) \in RoomStates
    BY RoomTypes DEF ManagerTypeOK
  <2>2. rooms' \in [Rooms -> RoomStates]
    BY <1>2, <2>1 DEF Finish, ManagerTypeOK
  <2>3. Publish(r)
    BY <1>2 DEF Finish
  <2> QED
    BY <2>2, <2>3, PublishType
<1> QED
  BY <1>1, <1>2

\* Choosing the seats of a game leaves a room.
LEMMA SeatedType ==
  ASSUME ManagerTypeOK, NEW r \in Rooms, NEW a \in Accounts, NEW s \in Seats, Seated(r, a, s)
  PROVE  seat' \in [Rooms -> [Accounts -> Seats]]
BY DEF Seated, ManagerTypeOK

\* Handing over at most one result leaves the types alone.
LEMMA HandoverType ==
  ASSUME ResultsTypeOK, setup' = setup, UNCHANGED <<members, unheld>>,
         queue' \in Seq(Rooms), Len(queue') <= QueueLength, pending' \subseteq Rooms
  PROVE  ResultsTypeOK'
BY DEF ResultsTypeOK, unheld

-----------------------------------------------------------------------------
(* Type correctness: the rooms *)

Typed == ResultsTypeOK /\ ManagerTypeOK

\* One room, its list of members or one account's place may change at a time.
LEMMA OneRoomTyped ==
  ASSUME Typed, NEW r \in Rooms, NEW room \in RoomStates, rooms' = [rooms EXCEPT ![r] = room]
  PROVE  rooms' \in [Rooms -> RoomStates]
BY DEF Typed, ManagerTypeOK

\* Changing the list of one room keeps the lists.
LEMMA OneListTyped ==
  ASSUME Typed, NEW r \in Rooms, NEW list \in Seq(Accounts),
         members' = [members EXCEPT ![r] = list]
  PROVE  members' \in [Rooms -> Seq(Accounts)]
BY DEF Typed, ResultsTypeOK

\* Changing the place of one account keeps the places.
LEMMA OnePlaceTyped ==
  ASSUME Typed, NEW a \in Accounts, NEW r \in Rooms \cup {None},
         membership' = [membership EXCEPT ![a] = r]
  PROVE  membership' \in [Accounts -> Rooms \cup {None}]
BY DEF Typed, ManagerTypeOK

\* What is left when the lists change and the results do not.
LEMMA ListsTyped ==
  ASSUME ResultsTypeOK, setup' = setup, UNCHANGED results, members' \in [Rooms -> Seq(Accounts)]
  PROVE  ResultsTypeOK'
BY DEF ResultsTypeOK, results

\* Entering a room keeps the types.
LEMMA EnterTyped ==
  ASSUME Typed, NEW a \in Accounts, NEW r \in Rooms, Enter(a, r)
  PROVE  /\ members' \in [Rooms -> Seq(Accounts)] /\ rooms' \in [Rooms -> RoomStates]
         /\ membership' \in [Accounts -> Rooms \cup {None}] /\ offer' \in Rooms \cup {None}
<1>1. Append(members[r], a) \in Seq(Accounts)
  BY DEF Typed, ResultsTypeOK
<1>2. members' \in [Rooms -> Seq(Accounts)]
  BY <1>1, OneListTyped DEF Enter, Typed, ResultsTypeOK
<1>3. Gathered(rooms[r], Append(members[r], a)) \in RoomStates
  BY RoomTypes DEF Typed, ManagerTypeOK
<1>4. rooms' = [rooms EXCEPT ![r] = Gathered(rooms[r], Append(members[r], a))]
  BY DEF Enter
<1>5. rooms' \in [Rooms -> RoomStates]
  BY <1>3, <1>4, OneRoomTyped
<1>6. membership' \in [Accounts -> Rooms \cup {None}]
  BY OnePlaceTyped DEF Enter
<1>7. offer' \in Rooms \cup {None}
  BY DEF Enter, Typed, ManagerTypeOK
<1> QED
  BY <1>2, <1>5, <1>6, <1>7

\* openRoom keeps the types.
LEMMA CreateTyped ==
  ASSUME Typed, setup' = setup, NEW a \in Accounts, NEW r \in Rooms, NEW auto \in BOOLEAN,
         Create(a, r, auto)
  PROVE  Typed'
<1>1. members' \in [Rooms -> Seq(Accounts)]
  <2>1. <<a>> \in Seq(Accounts)
    OBVIOUS
  <2>2. members' = [members EXCEPT ![r] = <<a>>]
    BY DEF Create
  <2> QED
    BY <2>1, <2>2, OneListTyped
<1>2. [NoRoom EXCEPT !.phase = "lobby", !.auto = auto] \in RoomStates
  BY NoRoomType DEF RoomStates
<1>3. rooms' \in [Rooms -> RoomStates]
  BY <1>2, RoomTypes, OneRoomTyped DEF Create
<1>4. membership' \in [Accounts -> Rooms \cup {None}]
  BY OnePlaceTyped DEF Create
<1>5. ResultsTypeOK'
  BY <1>1, ListsTyped DEF Create, Typed
<1>6. ManagerTypeOK'
  BY <1>3, <1>4 DEF Create, Typed, ManagerTypeOK, process
<1> QED
  BY <1>5, <1>6 DEF Typed

\* Joining a room keeps the types.
LEMMA JoinTyped ==
  ASSUME Typed, setup' = setup, NEW a \in Accounts, NEW r \in Rooms, Join(a, r)
  PROVE  Typed'
<1>1. Enter(a, r) /\ UNCHANGED <<results, process, seat, moving, excused>>
  BY DEF Join
<1>2. ResultsTypeOK'
  BY <1>1, EnterTyped, ListsTyped DEF Typed
<1>3. ManagerTypeOK'
  BY <1>1, EnterTyped DEF Typed, ManagerTypeOK, process
<1> QED
  BY <1>2, <1>3 DEF Typed

\* Searching for a room keeps the types.
LEMMA SearchTyped ==
  ASSUME Typed, setup' = setup, NEW a \in Accounts, Search(a)
  PROVE  Typed'
<1> DEFINE r == membership[a]
<1>1. r \in Rooms
  BY DEF Search, Member, Typed, ManagerTypeOK
<1>2. rooms' = [rooms EXCEPT ![r] = Gathered([rooms[r] EXCEPT !.auto = TRUE], members[r])]
  BY DEF Search
<1>3. rooms' \in [Rooms -> RoomStates]
  BY <1>1, <1>2, RoomTypes, OneRoomTyped DEF Typed, ManagerTypeOK
<1>4. offer' \in Rooms \cup {None}
  BY <1>1 DEF Search, Withdraw, Typed, ManagerTypeOK
<1>5. moving' \in [Accounts -> Moves]
  BY <1>1 DEF Search, Moves, Typed, ManagerTypeOK
<1>6. ResultsTypeOK'
  BY ResultsTypeFrame DEF Search, Typed
<1>7. ManagerTypeOK'
  BY <1>3, <1>4, <1>5 DEF Search, Typed, ManagerTypeOK, process
<1> QED
  BY <1>6, <1>7 DEF Typed

\* Changing rooms keeps the types.
LEMMA MoveTyped ==
  ASSUME Typed, setup' = setup, NEW a \in Accounts, Move(a)
  PROVE  Typed'
<1> DEFINE to == moving[a].to
<1>1. moving \in [Accounts -> Moves] /\ moving[a] \in Moves /\ moving[a].to # None
  BY DEF Move, Typed, ManagerTypeOK
<1>0. to \in Rooms /\ moving[a].from \in Rooms
  BY <1>1 DEF Moves, Still
<1>2. moving' \in [Accounts -> Moves]
  <2>1. [moving[a] EXCEPT !.to = None] \in Moves
    BY <1>1 DEF Moves, Still
  <2>2. \/ moving' = [moving EXCEPT ![a] = [moving[a] EXCEPT !.to = None]]
        \/ moving' = [moving EXCEPT ![a] = Still]
    BY <1>1 DEF Move
  <2> QED
    BY <1>1, <2>1, <2>2 DEF Moves
<1> DEFINE left == IF rooms[moving[a].from].phase = "lobby" THEN {} ELSE {<<a, moving[a].from>>}
<1>3. CASE Admits(a, to) /\ membership[a] = moving[a].from
  <2>1. Enter(a, to) /\ excused' = excused \cup left
    BY <1>3 DEF Move
  <2>2. ResultsTypeOK'
    BY <1>0, <2>1, EnterTyped, ListsTyped DEF Move, Typed
  <2>3. left \subseteq Accounts \X Rooms
    BY <1>0, <1>3 DEF Typed, ManagerTypeOK
  <2>4. ManagerTypeOK'
    BY <1>0, <1>2, <2>1, <2>3, EnterTyped DEF Move, Typed, ManagerTypeOK, process
  <2> QED
    BY <2>2, <2>4 DEF Typed
<1>4. CASE ~(Admits(a, to) /\ membership[a] = moving[a].from)
  <2>1. ResultsTypeOK'
    BY <1>4, ResultsTypeFrame DEF Move, Typed
  <2>2. ManagerTypeOK'
    BY <1>2, <1>4 DEF Move, Typed, ManagerTypeOK, process
  <2> QED
    BY <2>1, <2>2 DEF Typed
<1> QED
  BY <1>3, <1>4 DEF Move

\* Closing the room that was left keeps the types.
LEMMA CloseOldTyped ==
  ASSUME Typed, setup' = setup, NEW a \in Accounts, CloseOld(a)
  PROVE  Typed'
<1> DEFINE from == moving[a].from
<1>1. from \in Rooms
  BY DEF CloseOld, Moves, Still, Typed, ManagerTypeOK
<1>2. [rooms[from] EXCEPT !.closed = TRUE] \in RoomStates
  <2>1. \A room \in RoomStates : [room EXCEPT !.closed = TRUE] \in RoomStates
    BY DEF RoomStates
  <2> QED
    BY <1>1, <2>1 DEF Typed, ManagerTypeOK
<1>3. rooms' = [rooms EXCEPT ![from] = [rooms[from] EXCEPT !.closed = TRUE]] \/ rooms' = rooms
  BY DEF CloseOld
<1>4. rooms' \in [Rooms -> RoomStates]
  BY <1>1, <1>2, <1>3, OneRoomTyped DEF Typed, ManagerTypeOK
<1>5. moving' \in [Accounts -> Moves]
  BY DEF CloseOld, Moves, Typed, ManagerTypeOK
<1>6. ResultsTypeOK'
  BY ResultsTypeFrame DEF CloseOld, Typed
<1>7. ManagerTypeOK'
  BY <1>4, <1>5 DEF CloseOld, Typed, ManagerTypeOK, process
<1> QED
  BY <1>6, <1>7 DEF Typed

\* Who has moved on loses a place in a room.
LEMMA PlacesLostTyped ==
  ASSUME Typed, NEW who \in SUBSET Accounts, NEW r \in Rooms
  PROVE  PlacesLost(who, r) \subseteq Accounts \X Rooms
BY DEF PlacesLost, Typed, ManagerTypeOK

\* Leaving before the game keeps the types.
LEMMA LeaveMatchingTyped ==
  ASSUME Typed, setup' = setup, NEW a \in Accounts, NEW r \in Rooms, LeaveMatching(a, r)
  PROVE  Typed'
<1>1. Without(members[r], {a}) \in Seq(Accounts)
  BY WithoutIsList DEF Typed, ResultsTypeOK
<1>2. members' \in [Rooms -> Seq(Accounts)]
  BY <1>1, OneListTyped DEF LeaveMatching
<1>3. Deserted(r, {a}) \in BOOLEAN
  BY DEF Deserted
<1>4. [rooms[r] EXCEPT !.closed = Deserted(r, {a})] \in RoomStates
  <2>1. \A room \in RoomStates, b \in BOOLEAN : [room EXCEPT !.closed = b] \in RoomStates
    BY DEF RoomStates
  <2> QED
    BY <1>3, <2>1, Zenon DEF Typed, ManagerTypeOK
<1>5. rooms' = [rooms EXCEPT ![r] = [rooms[r] EXCEPT !.closed = Deserted(r, {a})]]
  BY Zenon DEF LeaveMatching
<1>6. rooms' \in [Rooms -> RoomStates]
  BY <1>4, <1>5, OneRoomTyped
<1>7. membership' \in [Accounts -> Rooms \cup {None}]
  BY OnePlaceTyped DEF LeaveMatching
<1>8. seat' \in [Rooms -> [Accounts -> Seats]]
  BY DEF LeaveMatching, Apart, Seats, Typed, ManagerTypeOK
<1>9. excused' \subseteq Accounts \X Rooms
  <2>1. excused' = excused \cup PlacesLost({a}, r)
    BY DEF LeaveMatching
  <2> QED
    BY <2>1, PlacesLostTyped DEF Typed, ManagerTypeOK
<1>10. ResultsTypeOK'
  BY <1>2, ListsTyped DEF LeaveMatching, Typed
<1>11. ManagerTypeOK'
  BY <1>6, <1>7, <1>8, <1>9 DEF LeaveMatching, Typed, ManagerTypeOK, process
<1> QED
  BY <1>10, <1>11 DEF Typed

\* The timer of a lobby keeps the types.
LEMMA LobbyTyped ==
  ASSUME Typed, setup' = setup, NEW a \in Accounts, NEW r \in Rooms,
         HostStarts(a, r) \/ StopSearch(a, r)
  PROVE  Typed'
<1>1. \A room \in RoomStates : /\ [room EXCEPT !.phase = "loading"] \in RoomStates
                               /\ [room EXCEPT !.auto = FALSE] \in RoomStates
  BY DEF RoomStates, Playing
<1>2. \/ rooms' = [rooms EXCEPT ![r] = [rooms[r] EXCEPT !.phase = "loading"]]
      \/ rooms' = [rooms EXCEPT ![r] = [rooms[r] EXCEPT !.auto = FALSE]]
  BY DEF HostStarts, StopSearch
<1>3. rooms' \in [Rooms -> RoomStates]
  BY <1>1, <1>2, OneRoomTyped DEF Typed, ManagerTypeOK
<1>4. offer' \in Rooms \cup {None}
  BY DEF HostStarts, StopSearch, Withdraw, Typed, ManagerTypeOK
<1>5. ResultsTypeOK'
  BY ResultsTypeFrame DEF HostStarts, StopSearch, Typed
<1>6. UNCHANGED <<process, seat, membership, moving, excused>>
  BY DEF HostStarts, StopSearch
<1>7. ManagerTypeOK'
  BY <1>3, <1>4, <1>6 DEF Typed, ManagerTypeOK, process
<1> QED
  BY <1>5, <1>7 DEF Typed

\* A rematch keeps the types.
LEMMA RematchTyped ==
  ASSUME Typed, setup' = setup, NEW a \in Accounts, Rematch(a)
  PROVE  Typed'
<1>1. membership[a] \in Rooms
  BY DEF Rematch, Member, Typed, ManagerTypeOK
<1>2. membership' \in [Accounts -> Rooms \cup {None}]
  BY OnePlaceTyped DEF Rematch
<1>3. excused' \subseteq Accounts \X Rooms
  BY <1>1 DEF Rematch, Typed, ManagerTypeOK
<1>4. ResultsTypeOK'
  BY ResultsTypeFrame DEF Rematch, Typed
<1>5. ManagerTypeOK'
  BY <1>2, <1>3 DEF Rematch, Typed, ManagerTypeOK, process
<1> QED
  BY <1>4, <1>5 DEF Typed

\* The steps of matching keep the types.
LEMMA MatchingTyped ==
  ASSUME Typed, setup' = setup, Matching
  PROVE  Typed'
BY CreateTyped, JoinTyped, SearchTyped, MoveTyped, CloseOldTyped, LeaveMatchingTyped,
   LobbyTyped, RematchTyped DEF Matching

\* What is left when only the seats change, or a room and the queue as well.
LEMMA SeatsTyped ==
  ASSUME Typed, setup' = setup, UNCHANGED <<members, results, process, rooms, places>>,
         seat' \in [Rooms -> [Accounts -> Seats]]
  PROVE  Typed'
<1>1. ResultsTypeOK'
  BY ResultsTypeFrame DEF Typed
<1>2. ManagerTypeOK'
  BY DEF Typed, ManagerTypeOK, process, places
<1> QED
  BY <1>1, <1>2 DEF Typed

\* The end of a game keeps the types.
LEMMA EndingTyped ==
  ASSUME Typed, setup' = setup, UNCHANGED <<members, unheld, process, places>>,
         NEW r \in Rooms, Finish(r) \/ Continue, seat' \in [Rooms -> [Accounts -> Seats]]
  PROVE  Typed'
<1>1. ResultsTypeOK'
  BY FinishType, HandoverType DEF Typed
<1>2. rooms' \in [Rooms -> RoomStates]
  BY FinishType DEF Typed
<1>3. ManagerTypeOK'
  BY <1>2 DEF Typed, ManagerTypeOK, process, places
<1> QED
  BY <1>1, <1>3 DEF Typed

\* What a game changes of a seat leaves a seat.
LEMMA SeatTypes ==
  ASSUME NEW s \in Seats
  PROVE  /\ [s EXCEPT !.conn = "on"] \in Seats /\ [s EXCEPT !.conn = "off"] \in Seats
         /\ [s EXCEPT !.accepted = TRUE] \in Seats
         /\ [s EXCEPT !.ready = TRUE, !.client = "playing"] \in Seats
         /\ [s EXCEPT !.ready = TRUE, !.client = "waiting"] \in Seats
         /\ \A client \in {"playing", "dead", "left", "cleared"} :
              [s EXCEPT !.client = client] \in Seats
BY DEF Seats

\* The steps of a game keep the types.
LEMMA GameTyped ==
  ASSUME Typed, setup' = setup, Game
  PROVE  Typed'
<1>1. PICK a \in Accounts, r \in Rooms :
        \/ Attach(a, r) \/ Reconnect(a, r) \/ Disconnect(a, r)
        \/ Ready(a, r) \/ Sail(a, r) \/ Leave(a, r) \/ Slain(a, r)
        \/ \E client \in {"dead", "left", "cleared"} : Fare(a, r, client)
  BY DEF Game
<1>2. /\ rooms \in [Rooms -> RoomStates] /\ seat \in [Rooms -> [Accounts -> Seats]]
      /\ seat[r] \in [Accounts -> Seats] /\ \A b \in Accounts : seat[r][b] \in Seats
  BY DEF Typed, ManagerTypeOK
<1>3. CASE Attach(a, r) \/ Reconnect(a, r)
  <2>1. seat' \in [Rooms -> [Accounts -> Seats]]
    BY <1>2, <1>3, SeatTypes, SeatedType DEF Attach, Reconnect, Typed
  <2> QED
    BY <1>3, <2>1, SeatsTyped DEF Attach, Reconnect
<1>4. CASE Disconnect(a, r)
  <2>1. seat' \in [Rooms -> [Accounts -> Seats]]
    BY <1>2, <1>4, SeatTypes, SeatedType DEF Disconnect, Typed
  <2> QED
    BY <1>4, <2>1, SeatsTyped DEF Disconnect
<1>5. CASE Ready(a, r)
  <2> DEFINE others == \A b \in In(r) \ {a} : seat[r][b].ready
             starts == rooms[r].phase = "loading" /\ others
             mine(b) == [seat[r][b] EXCEPT !.ready = TRUE,
                                           !.client = IF starts THEN "playing" ELSE "waiting"]
             seats == [b \in Accounts |->
                         IF b = a THEN mine(b)
                         ELSE IF starts /\ b \in In(r) THEN [seat[r][b] EXCEPT !.client = "playing"]
                         ELSE seat[r][b]]
  <2>1. \A b \in Accounts : mine(b) \in Seats
    BY <1>2, SeatTypes
  <2>2. seats \in [Accounts -> Seats]
    <3> HIDE DEF mine, starts
    <3> QED
      BY <1>2, <2>1, SeatTypes
  <2>3. seat' = [seat EXCEPT ![r] = seats]
    BY <1>2, <1>5 DEF Ready
  <2>4. seat' \in [Rooms -> [Accounts -> Seats]]
    <3> HIDE DEF seats
    <3> QED
      BY <1>2, <2>2, <2>3
  <2>5. [rooms[r] EXCEPT !.phase = "running"] \in RoomStates
    <3>1. \A room \in RoomStates : [room EXCEPT !.phase = "running"] \in RoomStates
      BY DEF RoomStates, Playing
    <3> QED
      BY <1>2, <3>1
  <2>6. rooms' = [rooms EXCEPT ![r] = [rooms[r] EXCEPT !.phase = "running"]] \/ rooms' = rooms
    BY <1>5 DEF Ready
  <2>7. rooms' \in [Rooms -> RoomStates]
    BY <1>2, <2>5, <2>6
  <2>8. ResultsTypeOK'
    BY <1>5, ResultsTypeFrame DEF Ready, Typed
  <2>9. ManagerTypeOK'
    <3>1. UNCHANGED <<process, places>>
      BY <1>5 DEF Ready
    <3> QED
      BY <2>4, <2>7, <3>1 DEF Typed, ManagerTypeOK, process, places
  <2> QED
    BY <2>8, <2>9 DEF Typed
<1>6. CASE Sail(a, r)
  <2>1. seat' \in [Rooms -> [Accounts -> Seats]]
    BY <1>2, <1>6, SeatTypes, SeatedType DEF Sail, Typed
  <2>2. \A room \in RoomStates : [room EXCEPT !.phase = "running"] \in RoomStates
    BY DEF RoomStates, Playing
  <2>3. rooms' = [rooms EXCEPT ![r] = [rooms[r] EXCEPT !.phase = "running"]]
    BY <1>6 DEF Sail
  <2>4. rooms' \in [Rooms -> RoomStates]
    BY <1>2, <2>2, <2>3
  <2>5. ResultsTypeOK'
    BY <1>6, ResultsTypeFrame DEF Sail, Typed
  <2>6. ManagerTypeOK'
    <3>1. UNCHANGED <<process, places>>
      BY <1>6 DEF Sail
    <3> QED
      BY <2>1, <2>4, <3>1 DEF Typed, ManagerTypeOK, process, places
  <2> QED
    BY <2>5, <2>6 DEF Typed
<1>7. CASE Leave(a, r)
  <2>1. seat' \in [Rooms -> [Accounts -> Seats]]
    BY <1>2, <1>7, SeatTypes, SeatedType DEF Leave, Typed
  <2> QED
    BY <1>7, <2>1, EndingTyped DEF Leave
<1>8. CASE Slain(a, r)
  <2> DEFINE seats == [b \in Accounts |->
               IF seat[r][b].client = "playing" THEN [seat[r][b] EXCEPT !.client = "cleared"]
                                                ELSE seat[r][b]]
  <2>1. seats \in [Accounts -> Seats]
    BY <1>2, SeatTypes
  <2>2. seat' = [seat EXCEPT ![r] = seats]
    BY <1>2, <1>8 DEF Slain
  <2>3. seat' \in [Rooms -> [Accounts -> Seats]]
    <3> HIDE DEF seats
    <3> QED
      BY <1>2, <2>1, <2>2
  <2> QED
    BY <1>8, <2>3, EndingTyped DEF Slain
<1>9. ASSUME NEW client \in {"dead", "left", "cleared"}, Fare(a, r, client) PROVE Typed'
  <2> DEFINE seats == [seat[r] EXCEPT ![a].client = client]
  <2>1. [seat[r][a] EXCEPT !.client = client] \in Seats
    BY <1>2, SeatTypes
  <2>2. seats \in [Accounts -> Seats]
    BY <1>2, <2>1
  <2>3. seat' = [seat EXCEPT ![r] = seats]
    BY <1>9 DEF Fare
  <2>4. seat' \in [Rooms -> [Accounts -> Seats]]
    <3> HIDE DEF seats
    <3> QED
      BY <1>2, <2>2, <2>3
  <2>5. Finish(r) \/ Continue
    BY <1>9 DEF Fare
  <2>6. UNCHANGED <<members, unheld, process, places>>
    BY <1>9 DEF Fare
  <2> QED
    BY <2>4, <2>5, <2>6, EndingTyped
<1> QED
  BY <1>1, <1>3, <1>4, <1>5, <1>6, <1>7, <1>8, <1>9

\* Seats that nobody took are seats.
LEMMA EmptyTyped == Empty \in [Accounts -> Seats]
BY DEF Empty, Apart, Seats

\* Accounts that leave a room are at places.
LEMMA UnlistTyped ==
  ASSUME Typed, NEW who, NEW r
  PROVE  Unlist(who, r) \in [Accounts -> Rooms \cup {None}]
BY DEF Unlist, Typed, ManagerTypeOK

\* An expired matching session keeps the types.
LEMMA ExpireMatchingTyped ==
  ASSUME Typed, setup' = setup, NEW r \in Rooms, ExpireMatching(r)
  PROVE  Typed'
<1>1. Removed(rooms[r]) \in RoomStates
  BY RoomTypes DEF Typed, ManagerTypeOK
<1>2. rooms' \in [Rooms -> RoomStates]
  BY <1>1, OneRoomTyped DEF ExpireMatching
<1>3. members' \in [Rooms -> Seq(Accounts)]
  BY OneListTyped, EmptySeq DEF ExpireMatching
<1>4. seat' \in [Rooms -> [Accounts -> Seats]]
  BY EmptyTyped DEF ExpireMatching, Typed, ManagerTypeOK
<1>5. membership' \in [Accounts -> Rooms \cup {None}]
  BY UnlistTyped DEF ExpireMatching
<1>6. offer' \in Rooms \cup {None}
  BY DEF ExpireMatching, Withdraw, Typed, ManagerTypeOK
<1>7. ResultsTypeOK'
  BY <1>3, ListsTyped DEF ExpireMatching, Typed
<1>8. UNCHANGED <<process, moving, excused>>
  BY DEF ExpireMatching
<1>9. ManagerTypeOK'
  BY <1>2, <1>4, <1>5, <1>6, <1>8 DEF Typed, ManagerTypeOK, process
<1> QED
  BY <1>7, <1>9 DEF Typed

\* An expired session of a lobby keeps the types.
LEMMA ExpireLobbyTyped ==
  ASSUME Typed, setup' = setup, NEW r \in Rooms, NEW late \in SUBSET Gone(r), ExpireLobby(r, late)
  PROVE  Typed'
<1> DEFINE closed == rooms[r].closed \/ Deserted(r, late)
<1>1. late \subseteq Accounts
  BY DEF Gone, In, Range, Typed, ResultsTypeOK
<1>2. Removed(rooms[r]) \in RoomStates
  BY RoomTypes DEF Typed, ManagerTypeOK
<1>3. rooms' = [rooms EXCEPT ![r] = Removed(rooms[r])] \/ rooms' = rooms
  BY DEF ExpireLobby
<1>4. rooms' \in [Rooms -> RoomStates]
  BY <1>2, <1>3, OneRoomTyped DEF Typed, ManagerTypeOK
<1>5. Without(members[r], late) \in Seq(Accounts) /\ << >> \in Seq(Accounts)
  BY WithoutIsList, EmptySeq DEF Typed, ResultsTypeOK
<1>6. \/ members' = [members EXCEPT ![r] = << >>]
      \/ members' = [members EXCEPT ![r] = Without(members[r], late)]
  BY DEF ExpireLobby
<1>7. members' \in [Rooms -> Seq(Accounts)]
  BY <1>5, <1>6, OneListTyped
<1>8. seat' \in [Rooms -> [Accounts -> Seats]]
  <2> DEFINE rest == [a \in Accounts |-> IF a \in late THEN Apart ELSE seat[r][a]]
  <2>1. rest \in [Accounts -> Seats]
    BY DEF Apart, Seats, Typed, ManagerTypeOK
  <2>2. seat' = [seat EXCEPT ![r] = Empty] \/ seat' = [seat EXCEPT ![r] = rest]
    BY DEF ExpireLobby, Typed, ManagerTypeOK
  <2> HIDE DEF rest
  <2> QED
    BY <2>1, <2>2, EmptyTyped DEF Typed, ManagerTypeOK
<1>9. membership' \in [Accounts -> Rooms \cup {None}]
  <2>1. \/ membership' = Unlist(late, r)
        \/ membership' = [a \in Accounts |-> IF a \in late THEN None ELSE membership[a]]
    BY DEF ExpireLobby
  <2> QED
    BY <2>1, UnlistTyped DEF Typed, ManagerTypeOK
<1>10. offer' \in Rooms \cup {None}
  BY DEF ExpireLobby, Withdraw, Typed, ManagerTypeOK
<1>11. excused' \subseteq Accounts \X Rooms
  BY <1>1, PlacesLostTyped DEF ExpireLobby, Typed, ManagerTypeOK
<1>12. UNCHANGED <<results, process, moving>>
  BY DEF ExpireLobby
<1>13. ResultsTypeOK'
  BY <1>7, <1>12, ListsTyped DEF Typed
<1>14. ManagerTypeOK'
  BY <1>4, <1>8, <1>9, <1>10, <1>11, <1>12 DEF Typed, ManagerTypeOK, process
<1> QED
  BY <1>13, <1>14 DEF Typed

\* An expired session keeps the types.
LEMMA ExpireTyped ==
  ASSUME Typed, setup' = setup, NEW r \in Rooms, NEW late \in SUBSET Gone(r),
         NEW limit \in BOOLEAN, Expire(r, late, limit)
  PROVE  Typed'
<1> DEFINE seats == [a \in Accounts |-> IF a \in late THEN [seat[r][a] EXCEPT !.client = "left"]
                                                      ELSE seat[r][a]]
<1>1. seats \in [Accounts -> Seats]
  <2>1. \A a \in Accounts : seat[r][a] \in Seats
    BY DEF Typed, ManagerTypeOK
  <2>2. \A a \in Accounts : [seat[r][a] EXCEPT !.client = "left"] \in Seats
    BY <2>1, SeatTypes
  <2> QED
    BY <2>1, <2>2
<1>2. UNCHANGED <<members, unheld, process, moving>>
  BY DEF Expire
<1>3. Publish(r) \/ UNCHANGED <<queue, pending>>
  BY DEF Expire
<1>4. queue' \in Seq(Rooms) /\ Len(queue') <= QueueLength /\ pending' \subseteq Rooms
  BY <1>3, PublishType DEF Typed, ResultsTypeOK
<1>5. ResultsTypeOK'
  BY <1>2, <1>4, HandoverType DEF Typed
<1>6. PICK room \in {rooms[r], Over(rooms[r])} :
        rooms' = [rooms EXCEPT ![r] = room] \/ rooms' = [rooms EXCEPT ![r] = Removed(room)]
  BY DEF Expire
<1>7. room \in RoomStates /\ Removed(room) \in RoomStates
  BY RoomTypes DEF Typed, ManagerTypeOK
<1>8. rooms' \in [Rooms -> RoomStates]
  BY <1>6, <1>7, OneRoomTyped
<1>9. seat' \in [Rooms -> [Accounts -> Seats]]
  <2>1. seat' = [seat EXCEPT ![r] = seats] \/ seat' = [seat EXCEPT ![r] = Empty]
    BY DEF Expire
  <2> HIDE DEF seats
  <2> QED
    BY <1>1, <2>1, EmptyTyped DEF Typed, ManagerTypeOK
<1>10. membership' \in [Accounts -> Rooms \cup {None}]
  <2>1. membership' = Unlist({}, r) \/ membership' = membership
    BY DEF Expire, places
  <2> QED
    BY <2>1, UnlistTyped DEF Typed, ManagerTypeOK
<1>11. offer' \in Rooms \cup {None}
  BY DEF Expire, Withdraw, places, Typed, ManagerTypeOK
<1>12. excused' \subseteq Accounts \X Rooms
  <2>1. \/ excused' = excused
        \/ excused' = excused \cup {<<a, r>> : a \in {b \in reading : rooms[r].closed /\ membership[b] = r}}
    BY DEF Expire, places
  <2> QED
    BY <2>1 DEF Typed, ManagerTypeOK, ResultsTypeOK
<1>13. ManagerTypeOK'
  BY <1>2, <1>8, <1>9, <1>10, <1>11, <1>12 DEF Typed, ManagerTypeOK, process
<1> QED
  BY <1>5, <1>13 DEF Typed

\* Stopping the rooms keeps the types.
LEMMA StopTyped ==
  ASSUME Typed, setup' = setup, NEW r \in Rooms, Stop(r)
  PROVE  Typed'
<1>1. \A room \in RoomStates : /\ [room EXCEPT !.phase = "stopped"] \in RoomStates
                               /\ [room EXCEPT !.phase = "stopped", !.queued = TRUE] \in RoomStates
  BY DEF RoomStates
<1>2. \/ rooms' = [rooms EXCEPT ![r] = [rooms[r] EXCEPT !.phase = "stopped"]]
      \/ rooms' = [rooms EXCEPT ![r] = [rooms[r] EXCEPT !.phase = "stopped", !.queued = TRUE]]
  BY DEF Stop, Typed, ManagerTypeOK
<1>3. rooms' \in [Rooms -> RoomStates]
  BY <1>1, <1>2, OneRoomTyped DEF Typed, ManagerTypeOK
<1>4. Publish(r) \/ UNCHANGED <<queue, pending>>
  BY DEF Stop
<1>5. queue' \in Seq(Rooms) /\ Len(queue') <= QueueLength /\ pending' \subseteq Rooms
  BY <1>4, PublishType DEF Typed, ResultsTypeOK
<1>6. UNCHANGED <<members, unheld, process, seat, places>>
  BY DEF Stop
<1>7. ResultsTypeOK'
  BY <1>5, <1>6, HandoverType DEF Typed
<1>8. ManagerTypeOK'
  BY <1>3, <1>6 DEF Typed, ManagerTypeOK, process, places
<1> QED
  BY <1>7, <1>8 DEF Typed

\* Every step of the manager keeps the types.
LEMMA RoomingTyped ==
  ASSUME Typed, setup' = setup, Rooming
  PROVE  Typed'
<1>1. CASE Matching \/ Game
  BY <1>1, MatchingTyped, GameTyped
<1>2. CASE Ticks
  BY <1>2, ExpireMatchingTyped, ExpireLobbyTyped, ExpireTyped, StopTyped DEF Ticks, Limit
<1>3. CASE Close
  <2>1. ResultsTypeOK'
    BY <1>3, ResultsTypeFrame DEF Close, Typed
  <2>2. ManagerTypeOK'
    BY <1>3 DEF Close, Typed, ManagerTypeOK, places
  <2> QED
    BY <2>1, <2>2 DEF Typed
<1> QED
  BY <1>1, <1>2, <1>3 DEF Rooming

-----------------------------------------------------------------------------
(* Type correctness: the results, the commands and the process *)

\* The worker holds a room while it is at work; what is applied is an event.
HandsKnown ==
  /\ worker.step = "idle" <=> worker.room = None
  /\ \A a \in Accounts : applied[a] => events[a] # << >>

TypeInv == TypeOK /\ HandsKnown

\* Only the store, the worker and what is pending change.
LEMMA StoreTyped ==
  ASSUME ResultsTypeOK, setup' = setup, UNCHANGED <<members, reading>>, store' \in Stores,
         pending' \subseteq Rooms, queue' \in Seq(Rooms), Len(queue') <= QueueLength,
         worker' \in [step : {"idle", "save", "rank", "ready", "acknowledge"},
                      room : Rooms \cup {None}],
         failures' \in 0..setup.failures
  PROVE  ResultsTypeOK'
BY DEF ResultsTypeOK

\* The room in the hands of the worker is a room.
LEMMA HeldRoom ==
  ASSUME ResultsTypeOK, worker.step # "idle", HandsKnown
  PROVE  worker.room \in Rooms
BY DEF ResultsTypeOK, HandsKnown

\* The steps of the worker keep the types.
LEMMA WorkerTyped ==
  ASSUME ResultsTypeOK, HandsKnown, setup' = setup, Worker \/ Defer
  PROVE  ResultsTypeOK'
<1>1. /\ store \in Stores /\ pending \subseteq Rooms /\ queue \in Seq(Rooms)
      /\ Len(queue) <= QueueLength /\ failures \in 0..setup.failures
      /\ worker \in [step : {"idle", "save", "rank", "ready", "acknowledge"},
                     room : Rooms \cup {None}]
  BY DEF ResultsTypeOK
<1>2. CASE Take
  <2>1. /\ Head(queue) \in Rooms /\ Tail(queue) \in Seq(Rooms) /\ Len(Tail(queue)) = Len(queue) - 1
    BY <1>1, <1>2, HeadTailProperties DEF Take
  <2>2. Len(Tail(queue)) <= QueueLength
    BY <1>1, <2>1, RoomAssumption, LenProperties
  <2> QED
    BY <1>1, <1>2, <2>1, <2>2, StoreTyped DEF Take
<1>3. CASE Save \/ Rank \/ MarkReady
  <2>1. worker.room \in Rooms
    BY <1>3, HeldRoom DEF Save, Rank, MarkReady
  <2>3. store' \in Stores
    BY <1>1, <1>3, <2>1, ShapeKept DEF Save, Rank, MarkReady
  <2>4. worker' \in [step : {"idle", "save", "rank", "ready", "acknowledge"},
                     room : Rooms \cup {None}]
    BY <1>1, <1>3 DEF Save, Rank, MarkReady
  <2>5. UNCHANGED <<members, failures, reading, queue>> /\ pending' \subseteq Rooms
    BY <1>1, <1>3 DEF Save, Rank, MarkReady
  <2> QED
    BY <1>1, <2>3, <2>4, <2>5, StoreTyped
<1>4. CASE Defer
  <2>1. setup.failures \in Nat
    BY RoomAssumption DEF ResultsTypeOK
  <2>2. failures' \in 0..setup.failures
    BY <1>1, <1>4, <2>1 DEF Defer
  <2>3. worker' \in [step : {"idle", "save", "rank", "ready", "acknowledge"},
                     room : Rooms \cup {None}]
    BY <1>1, <1>4 DEF Defer
  <2> QED
    BY <1>1, <1>4, <2>2, <2>3, StoreTyped DEF Defer
<1> QED
  BY <1>2, <1>3, <1>4 DEF Worker

\* Acknowledging a result keeps the types.
LEMMA AcknowledgeTyped ==
  ASSUME Typed, setup' = setup, Acknowledge
  PROVE  Typed'
<1>1. \A room \in RoomStates : [room EXCEPT !.persisted = TRUE, !.told = TRUE] \in RoomStates
  BY DEF RoomStates
<1>2. \/ /\ worker.room \in Rooms
         /\ rooms' = [rooms EXCEPT ![worker.room] =
                        [rooms[worker.room] EXCEPT !.persisted = TRUE, !.told = TRUE]]
      \/ rooms' = rooms
  BY DEF Acknowledge, Typed, ManagerTypeOK
<1>3. rooms' \in [Rooms -> RoomStates]
  <2>1. rooms \in [Rooms -> RoomStates]
    BY DEF Typed, ManagerTypeOK
  <2>2. worker.room \in Rooms =>
          [rooms[worker.room] EXCEPT !.persisted = TRUE, !.told = TRUE] \in RoomStates
    BY <1>1, <2>1
  <2> QED
    BY <1>2, <2>1, <2>2, OneRoomTyped
<1>4. Idle \in [step : {"idle", "save", "rank", "ready", "acknowledge"}, room : Rooms \cup {None}]
  BY DEF Idle
<1>5. ResultsTypeOK'
  BY <1>4, StoreTyped DEF Acknowledge, Typed, ResultsTypeOK
<1>6. ManagerTypeOK'
  BY <1>3 DEF Acknowledge, Typed, ManagerTypeOK, process, places
<1> QED
  BY <1>5, <1>6 DEF Typed

\* What one account publishes.
LEMMA FreshTyped ==
  ASSUME NEW t \in Topics, NEW a \in Accounts, NEW r \in Rooms
  PROVE  Fresh(t, a, r) \in Seq(Topics \X Rooms)
BY DEF Fresh

\* Publishing an event keeps the types.
LEMMA AnnounceTyped ==
  ASSUME PlayTypeOK, NEW a \in Accounts, NEW fresh \in Seq(Topics \X Rooms), Announce(a, fresh)
  PROVE  /\ events' \in [Accounts -> Seq(Topics \X Rooms)]
         /\ published' \subseteq Topics \X Accounts \X Rooms
<1>1. events[a] \o fresh \in Seq(Topics \X Rooms)
  BY ConcatProperties DEF PlayTypeOK
<1>2. events' \in [Accounts -> Seq(Topics \X Rooms)]
  BY <1>1 DEF Announce, PlayTypeOK
<1>3. Range(fresh) \subseteq Topics \X Rooms
  BY RangeOfSeq
<1>4. published' \subseteq Topics \X Accounts \X Rooms
  BY <1>3 DEF Announce, PlayTypeOK
<1> QED
  BY <1>2, <1>4

\* A command changes the run, what is prepared and what is published.
LEMMA CommandTyped ==
  ASSUME PlayTypeOK, setup' = setup, reading' = reading, NEW a \in Accounts,
         prepared[a] # "looking", prepared' = [prepared EXCEPT ![a] = "none"],
         NEW r \in Rooms \cup {None}, run' = [run EXCEPT ![a] = r],
         NEW fresh \in Seq(Topics \X Rooms), Announce(a, fresh),
         givenUp' \subseteq Accounts \X Rooms, UNCHANGED <<applied, lost, crashes>>
  PROVE  PlayTypeOK'
<1>1. prepared' \in [Accounts -> {"none", "looking", "result", "abandoned"}]
  BY DEF PlayTypeOK
<1>2. reading' = {b \in Accounts : prepared'[b] = "looking"}
  BY DEF PlayTypeOK
<1>3. run' \in [Accounts -> Rooms \cup {None}]
  BY DEF PlayTypeOK
<1> QED
  BY <1>1, <1>2, <1>3, AnnounceTyped DEF PlayTypeOK

\* Every step of a command keeps the types.
LEMMA CommandsTyped ==
  ASSUME TypeOK, setup' = setup, Commands
  PROVE  TypeOK'
<1>1. PICK a \in Accounts :
        Look(a) \/ LookAtRoom(a) \/ Refused(a) \/ Start(a) \/ End(a) \/ Sets(a) \/ Lands(a)
  BY DEF Commands
<1>2. ResultsTypeOK /\ ManagerTypeOK /\ PlayTypeOK
  BY TypeParts
<1>3. UNCHANGED roomVars
  BY <1>1 DEF Look, LookAtRoom, Refused, Start, End, Sets, Lands
<1>4. ManagerTypeOK'
  BY <1>2, <1>3, ManagerTypeFrame
<1>5. CASE Look(a) \/ LookAtRoom(a)
  <2>1. UNCHANGED <<members, failures, store, pending, queue, worker>>
    BY <1>5 DEF Look, LookAtRoom
  <2>2. \/ /\ \E p \in {"none", "result", "abandoned"} : prepared' = [prepared EXCEPT ![a] = p]
           /\ reading' = reading \ {a}
        \/ prepared' = [prepared EXCEPT ![a] = "looking"] /\ reading' = reading \cup {a}
    BY <1>2, <1>5 DEF Look, LookAtRoom, PlayTypeOK
  <2>3. prepared' \in [Accounts -> {"none", "looking", "result", "abandoned"}]
    BY <1>2, <2>2 DEF PlayTypeOK
  <2>4. reading' = {b \in Accounts : prepared'[b] = "looking"}
    BY <1>2, <2>2 DEF PlayTypeOK
  <2>5. ResultsTypeOK'
    BY <1>2, <2>1, <2>4 DEF ResultsTypeOK
  <2>6. PlayTypeOK'
    BY <1>2, <1>5, <2>3, <2>4 DEF Look, LookAtRoom, PlayTypeOK
  <2> QED
    BY <1>4, <2>5, <2>6, TypePartsNext
<1>6. CASE Refused(a) \/ Start(a) \/ End(a) \/ Sets(a) \/ Lands(a)
  <2>1. UNCHANGED resultVars
    BY <1>6 DEF Refused, Start, End, Sets, Lands
  <2>2. reading' = reading /\ ResultsTypeOK'
    BY <1>2, <2>1, ResultsTypeFrame DEF resultVars, results
  <2>3. run[a] \in Rooms \cup {None} /\ membership[a] \in Rooms \cup {None}
    BY <1>2 DEF PlayTypeOK, ManagerTypeOK
  <2>4. CASE Refused(a)
    <3>1. prepared' = [prepared EXCEPT ![a] = "none"] /\ prepared[a] # "looking"
      BY <2>4 DEF Refused
    <3>2. prepared' \in [Accounts -> {"none", "looking", "result", "abandoned"}]
      BY <1>2, <3>1 DEF PlayTypeOK
    <3>3. reading' = {b \in Accounts : prepared'[b] = "looking"}
      BY <1>2, <2>2, <3>1 DEF PlayTypeOK
    <3>4. PlayTypeOK'
      BY <1>2, <2>4, <3>2, <3>3 DEF Refused, PlayTypeOK
    <3> QED
      BY <1>4, <2>2, <3>4, TypePartsNext
  <2>5. CASE Start(a)
    <3>1. membership[a] \in Rooms /\ prepared[a] # "looking"
      BY <2>3, <2>5 DEF Start, Startable
    <3>2. givenUp' \subseteq Accounts \X Rooms
      BY <1>2, <2>3, <2>5 DEF Start, PlayTypeOK
    <3>3. "accepted" \in Topics
      BY DEF Topics
    <3>4. /\ run' = [run EXCEPT ![a] = membership[a]] /\ prepared' = [prepared EXCEPT ![a] = "none"]
          /\ Announce(a, Fresh("accepted", a, membership[a])) /\ UNCHANGED <<applied, lost, crashes>>
      BY <2>5 DEF Start
    <3>5. Fresh("accepted", a, membership[a]) \in Seq(Topics \X Rooms)
      BY <3>1, <3>3, FreshTyped
    <3>6. PlayTypeOK'
      BY <1>2, <2>2, <2>3, <3>1, <3>2, <3>4, <3>5, CommandTyped
    <3> QED
      BY <1>4, <2>2, <3>6, TypePartsNext
  <2>6. CASE End(a) \/ Lands(a)
    <3>1. run[a] \in Rooms /\ prepared[a] # "looking"
      BY <2>3, <2>6 DEF End, Lands
    <3>2. givenUp' \subseteq Accounts \X Rooms
      BY <1>2, <2>6 DEF End, Lands, PlayTypeOK
    <3>3. "claimed" \in Topics
      BY DEF Topics
    <3>4. /\ run' = [run EXCEPT ![a] = None] /\ prepared' = [prepared EXCEPT ![a] = "none"]
          /\ Announce(a, Fresh("claimed", a, run[a])) /\ UNCHANGED <<applied, lost, crashes>>
      BY <2>6 DEF End, Lands
    <3>5. Fresh("claimed", a, run[a]) \in Seq(Topics \X Rooms)
      BY <3>1, <3>3, FreshTyped
    <3>6. PlayTypeOK'
      BY <1>2, <2>2, <3>1, <3>2, <3>4, <3>5, CommandTyped
    <3> QED
      BY <1>4, <2>2, <3>6, TypePartsNext
  <2>7. CASE Sets(a)
    <3> DEFINE fresh == (IF run[a] = None THEN << >> ELSE Fresh("claimed", a, run[a]))
                          \o Fresh("accepted", a, membership[a])
    <3>1. membership[a] \in Rooms /\ prepared[a] # "looking"
      BY <2>3, <2>7 DEF Sets, Startable
    <3>2. givenUp' \subseteq Accounts \X Rooms
      BY <1>2, <2>7 DEF Sets, PlayTypeOK
    <3>3. "claimed" \in Topics /\ "accepted" \in Topics
      BY DEF Topics
    <3>4. /\ run' = [run EXCEPT ![a] = membership[a]] /\ prepared' = [prepared EXCEPT ![a] = "none"]
          /\ Announce(a, fresh) /\ UNCHANGED <<applied, lost, crashes>>
      BY <2>7 DEF Sets
    <3>5. fresh \in Seq(Topics \X Rooms)
      <4>1. Fresh("accepted", a, membership[a]) \in Seq(Topics \X Rooms)
        BY <3>1, <3>3, FreshTyped
      <4>2. (IF run[a] = None THEN << >> ELSE Fresh("claimed", a, run[a])) \in Seq(Topics \X Rooms)
        BY <2>3, <3>3, FreshTyped, EmptySeq
      <4> QED
        BY <4>1, <4>2, ConcatProperties
    <3> HIDE DEF fresh
    <3>6. PlayTypeOK'
      BY <1>2, <2>2, <2>3, <3>1, <3>2, <3>4, <3>5, CommandTyped
    <3> QED
      BY <1>4, <2>2, <3>6, TypePartsNext
  <2> QED
    BY <1>6, <2>4, <2>5, <2>6, <2>7
<1> QED
  BY <1>1, <1>5, <1>6

\* A delivery changes the store, or a seat, and the head of the events.
LEMMA DeliveredTyped ==
  ASSUME PlayTypeOK, NEW a \in Accounts, events[a] # << >>, Delivered(a)
  PROVE  /\ events' \in [Accounts -> Seq(Topics \X Rooms)] /\ applied' \in [Accounts -> BOOLEAN]
<1>1. Tail(events[a]) \in Seq(Topics \X Rooms)
  BY HeadTailProperties DEF PlayTypeOK
<1> QED
  BY <1>1 DEF Delivered, PlayTypeOK

\* The first event of an account is about a room.
LEMMA HeadRoom ==
  ASSUME PlayTypeOK, NEW a \in Accounts, events[a] # << >>
  PROVE  Head(events[a]) \in Topics \X Rooms /\ Head(events[a])[2] \in Rooms
<1>1. Head(events[a]) \in Topics \X Rooms
  BY HeadTailProperties DEF PlayTypeOK
<1> QED
  BY <1>1

\* The steps of a delivery keep the types.
LEMMA DeliveryTyped ==
  ASSUME TypeInv, setup' = setup, NEW a \in Accounts, Delivers(a)
  PROVE  TypeOK'
<1>1. ResultsTypeOK /\ ManagerTypeOK /\ PlayTypeOK /\ Typed
  BY TypeParts DEF TypeInv, Typed
<1>2. CASE Record(a) \/ Claim(a)
  <2> DEFINE r == Head(events[a])[2]
  <2>1. r \in Rooms /\ events[a] # << >>
    BY <1>1, <1>2, HeadRoom DEF Record, Claim
  <2>2. store' = AcceptIn(store, a, r) \/ store' = ClaimIn(store, a, r)
    BY <1>2 DEF Record, Claim
  <2>3. store' \in Stores
    <3> HIDE DEF r
    <3> QED
      BY <1>1, <2>1, <2>2, ClaimsShapeKept DEF ResultsTypeOK
  <2>4. UNCHANGED <<members, failures, reading, pending, queue, worker, roomVars>>
    BY <1>2 DEF Record, Claim
  <2>5. ResultsTypeOK'
    BY <1>1, <2>3, <2>4, StoreTyped DEF ResultsTypeOK
  <2>6. ManagerTypeOK'
    BY <1>1, <2>4, ManagerTypeFrame
  <2>7. events' \in [Accounts -> Seq(Topics \X Rooms)] /\ applied' \in [Accounts -> BOOLEAN]
    BY <1>1, <1>2, <2>1, DeliveredTyped DEF Record, Claim, PlayTypeOK
  <2>8. UNCHANGED <<run, prepared, published, givenUp, lost, crashes>>
    BY <1>2 DEF Record, Claim
  <2>9. PlayTypeOK'
    BY <1>1, <2>4, <2>7, <2>8 DEF PlayTypeOK
  <2> QED
    BY <2>5, <2>6, <2>9, TypePartsNext
<1>3. CASE Accept(a)
  <2> DEFINE r == Head(events[a])[2]
  <2>1. r \in Rooms /\ events[a] # << >>
    BY <1>1, <1>3, HeadRoom DEF Accept, TypeInv, HandsKnown
  <2>2. seat' \in [Rooms -> [Accounts -> Seats]]
    <3>1. [seat[r][a] EXCEPT !.accepted = TRUE] \in Seats
      <4>1. seat[r][a] \in Seats
        BY <1>1, <2>1 DEF ManagerTypeOK
      <4> QED
        BY <4>1, SeatTypes
    <3>2. Seated(r, a, [seat[r][a] EXCEPT !.accepted = TRUE]) \/ seat' = seat
      BY <1>3 DEF Accept
    <3> HIDE DEF r
    <3> QED
      BY <1>1, <2>1, <3>1, <3>2, SeatedType DEF ManagerTypeOK
  <2>3. UNCHANGED <<resultVars, up, closing, rooms, membership, offer, moving, excused>>
    BY <1>3 DEF Accept
  <2>4. ResultsTypeOK'
    BY <1>1, <2>3, ResultsTypeFrame DEF resultVars, results
  <2>5. ManagerTypeOK'
    BY <1>1, <2>2, <2>3 DEF ManagerTypeOK
  <2>6. events' \in [Accounts -> Seq(Topics \X Rooms)] /\ applied' \in [Accounts -> BOOLEAN]
    BY <1>1, <1>3, <2>1, DeliveredTyped DEF Accept
  <2>7. UNCHANGED <<run, prepared, published, givenUp, lost, crashes>>
    BY <1>3 DEF Accept
  <2>8. PlayTypeOK'
    BY <1>1, <2>3, <2>6, <2>7 DEF PlayTypeOK, resultVars
  <2> QED
    BY <2>4, <2>5, <2>8, TypePartsNext
<1> QED
  BY <1>2, <1>3 DEF Delivers

\* A stop of the process keeps the types.
LEMMA QuitTyped ==
  ASSUME TypeOK, setup' = setup, Crash \/ Exit
  PROVE  TypeOK'
<1>1. ResultsTypeOK /\ ManagerTypeOK /\ PlayTypeOK /\ setup \in Setups
  BY TypeParts DEF ResultsTypeOK
<1>2. Quit /\ Halt
  BY DEF Crash, Exit, Quit
<1>3. rooms' \in [Rooms -> RoomStates]
  <2>1. \A r \in Rooms : Removed(rooms[r]) \in RoomStates /\ NoRoom \in RoomStates
    BY <1>1, RoomTypes DEF ManagerTypeOK
  <2> QED
    BY <1>2, <2>1 DEF Halt
<1>4. members' \in [Rooms -> Seq(Accounts)]
  <2>1. members' = [r \in Rooms |-> IF rooms[r].ended THEN members[r] ELSE << >>]
    BY <1>2 DEF Halt
  <2> QED
    BY <1>1, <2>1, EmptySeq DEF ResultsTypeOK
<1>5. ResultsTypeOK'
  <2>1. /\ pending' = {} /\ queue' = << >> /\ worker' = Idle /\ reading' = {}
        /\ UNCHANGED <<store, failures>>
    BY <1>2 DEF Halt
  <2>2. Len(queue') <= QueueLength /\ queue' \in Seq(Rooms)
    BY <2>1, EmptySeq, RoomAssumption
  <2> QED
    BY <1>1, <1>4, <2>1, <2>2 DEF ResultsTypeOK, Idle
<1>6. ManagerTypeOK'
  <2>1. seat' \in [Rooms -> [Accounts -> Seats]]
    BY <1>2, EmptyTyped DEF Halt
  <2>2. /\ up' = FALSE /\ closing' = FALSE /\ offer' = None /\ excused' = excused
        /\ membership' = [a \in Accounts |-> None] /\ moving' = [a \in Accounts |-> Still]
    BY <1>2 DEF Halt
  <2> QED
    BY <1>1, <1>3, <2>1, <2>2 DEF ManagerTypeOK, Moves
<1>7. PlayTypeOK'
  <2>1. setup.crashes \in Nat
    BY <1>1, RoomAssumption
  <2>2. crashes' \in 0..setup'.crashes
    BY <1>1, <1>2, <2>1 DEF Quit, PlayTypeOK
  <2>3. prepared' = [a \in Accounts |-> "none"] /\ reading' = {}
    BY <1>2 DEF Quit, Halt
  <2>4. lost' \subseteq Rooms
    BY <1>1 DEF Crash, Exit, PlayTypeOK
  <2>5. UNCHANGED <<run, events, applied, published, givenUp>>
    BY <1>2 DEF Quit
  <2> QED
    BY <1>1, <2>2, <2>3, <2>4, <2>5 DEF PlayTypeOK
<1> QED
  BY <1>5, <1>6, <1>7, TypePartsNext

\* A start of the process keeps the types.
LEMMA BeginsTyped ==
  ASSUME TypeOK, setup' = setup, Begins
  PROVE  TypeOK'
<1>1. ResultsTypeOK /\ ManagerTypeOK /\ PlayTypeOK
  BY TypeParts
<1>2. CASE Restart
  <2>1. ResultsTypeOK'
    BY <1>1, <1>2, ResultsTypeFrame DEF Restart, resultVars, results
  <2>2. ManagerTypeOK'
    BY <1>1, <1>2 DEF Restart, ManagerTypeOK
  <2>3. PlayTypeOK'
    BY <1>1, <1>2, PlayTypeFrame DEF Restart, resultVars
  <2> QED
    BY <2>1, <2>2, <2>3, TypePartsNext
<1>3. ASSUME NEW r \in Rooms, Recover(r) PROVE TypeOK'
  <2>1. store' \in Stores
    BY <1>1, <1>3, ShapeKept DEF Recover, RecoverResult, ResultsTypeOK
  <2>2. UNCHANGED <<members, failures, reading, pending, queue, worker, roomVars, playVars>>
    BY <1>3 DEF Recover, RecoverResult
  <2>3. ResultsTypeOK'
    BY <1>1, <2>1, <2>2, StoreTyped DEF ResultsTypeOK
  <2>4. ManagerTypeOK' /\ PlayTypeOK'
    BY <1>1, <2>2, ManagerTypeFrame, PlayTypeFrame
  <2> QED
    BY <2>3, <2>4, TypePartsNext
<1> QED
  BY <1>2, <1>3 DEF Begins

\* What happens in the rooms leaves the store and the worker alone.
LEMMA RoomingFrame ==
  ASSUME Rooming
  PROVE  UNCHANGED <<unheld, up>>
<1>1. CASE Matching
  <2>1. PICK a \in Accounts :
          \/ Search(a) \/ Move(a) \/ CloseOld(a) \/ Rematch(a)
          \/ \E r \in Rooms :
               \/ \E auto \in BOOLEAN : Create(a, r, auto)
               \/ Join(a, r) \/ LeaveMatching(a, r) \/ HostStarts(a, r) \/ StopSearch(a, r)
    BY <1>1 DEF Matching
  <2>2. CASE Search(a) \/ Move(a) \/ CloseOld(a) \/ Rematch(a)
    BY <2>2 DEF Search, Move, CloseOld, Rematch, results, unheld, process
  <2>3. ASSUME NEW r \in Rooms,
               \/ \E auto \in BOOLEAN : Create(a, r, auto)
               \/ Join(a, r) \/ LeaveMatching(a, r) \/ HostStarts(a, r) \/ StopSearch(a, r)
        PROVE  UNCHANGED <<unheld, up>>
    BY <2>3 DEF Create, Join, LeaveMatching, HostStarts, StopSearch, results, unheld, process
  <2> QED
    BY <2>1, <2>2, <2>3
<1>2. CASE Game
  <2>1. PICK a \in Accounts, r \in Rooms :
          \/ Attach(a, r) \/ Reconnect(a, r) \/ Disconnect(a, r)
          \/ Ready(a, r) \/ Sail(a, r) \/ Leave(a, r) \/ Slain(a, r)
          \/ \E client \in {"dead", "left", "cleared"} : Fare(a, r, client)
    BY <1>2 DEF Game
  <2>2. CASE Attach(a, r) \/ Reconnect(a, r) \/ Disconnect(a, r) \/ Ready(a, r) \/ Sail(a, r)
    BY <2>2 DEF Attach, Reconnect, Disconnect, Ready, Sail, results, unheld, process
  <2>3. CASE Leave(a, r) \/ Slain(a, r)
    BY <2>3 DEF Leave, Slain, process
  <2>4. CASE \E client \in {"dead", "left", "cleared"} : Fare(a, r, client)
    BY <2>4 DEF Fare, process
  <2> QED
    BY <2>1, <2>2, <2>3, <2>4
<1>3. CASE Ticks \/ Close
  <2>1. ASSUME NEW r \in Rooms, NEW late, NEW limit, Expire(r, late, limit)
        PROVE  UNCHANGED <<unheld, up>>
    BY <2>1, Zenon DEF Expire, process
  <2> QED
    BY <1>3, <2>1 DEF Ticks, Limit, ExpireMatching, ExpireLobby, Stop, Close, results, unheld, process
<1> QED
  BY <1>1, <1>2, <1>3 DEF Rooming

\* Publishing makes no list of events shorter.
LEMMA AnnounceKeeps ==
  ASSUME PlayTypeOK, NEW a \in Accounts, NEW fresh \in Seq(Topics \X Rooms), Announce(a, fresh),
         NEW b \in Accounts, events[b] # << >>
  PROVE  events'[b] # << >>
<1>1. events[a] \o fresh = << >> => events[a] = << >>
  BY ConcatProperties, EmptySeq DEF PlayTypeOK
<1>2. events'[b] = IF b = a THEN events[a] \o fresh ELSE events[b]
  BY DEF Announce, PlayTypeOK
<1> QED
  BY <1>1, <1>2

\* Every step of a command is one of these.
LEMMA CommandSteps ==
  ASSUME TypeOK, Commands
  PROVE  /\ UNCHANGED <<members, failures, store, pending, queue, worker, roomVars>>
         /\ UNCHANGED <<applied, lost, crashes>>
         /\ \/ UNCHANGED <<events, published>>
            \/ \E a \in Accounts, fresh \in Seq(Topics \X Rooms) : Announce(a, fresh)
<1>1. PICK a \in Accounts :
        Look(a) \/ LookAtRoom(a) \/ Refused(a) \/ Start(a) \/ End(a) \/ Sets(a) \/ Lands(a)
  BY DEF Commands
<1>2. /\ UNCHANGED <<members, failures, store, pending, queue, worker, roomVars>>
      /\ UNCHANGED <<applied, lost, crashes>>
  BY <1>1 DEF Look, LookAtRoom, Refused, Start, End, Sets, Lands, resultVars
<1>3. run[a] \in Rooms \cup {None} /\ membership[a] \in Rooms \cup {None}
  BY DEF TypeOK, ManagerTypeOK
<1>4. "accepted" \in Topics /\ "claimed" \in Topics
  BY DEF Topics
<1>5. CASE Look(a) \/ LookAtRoom(a) \/ Refused(a)
  BY <1>2, <1>5 DEF Look, LookAtRoom, Refused
<1>6. CASE Start(a)
  BY <1>2, <1>3, <1>4, <1>6, FreshTyped DEF Start, Startable
<1>7. CASE End(a) \/ Lands(a)
  BY <1>2, <1>3, <1>4, <1>7, FreshTyped DEF End, Lands
<1>8. CASE Sets(a)
  <2>1. Fresh("accepted", a, membership[a]) \in Seq(Topics \X Rooms)
    BY <1>3, <1>4, <1>8, FreshTyped DEF Sets, Startable
  <2>2. (IF run[a] = None THEN << >> ELSE Fresh("claimed", a, run[a])) \in Seq(Topics \X Rooms)
    BY <1>3, <1>4, FreshTyped, EmptySeq
  <2>3. (IF run[a] = None THEN << >> ELSE Fresh("claimed", a, run[a]))
          \o Fresh("accepted", a, membership[a]) \in Seq(Topics \X Rooms)
    BY <2>1, <2>2, ConcatProperties
  <2>4. Announce(a, (IF run[a] = None THEN << >> ELSE Fresh("claimed", a, run[a]))
                      \o Fresh("accepted", a, membership[a]))
    BY <1>8 DEF Sets
  <2> QED
    BY <1>2, <2>3, <2>4
<1> QED
  BY <1>1, <1>5, <1>6, <1>7, <1>8

\* The worker and what is applied, at every step.
LEMMA HandsStep ==
  ASSUME TypeInv, Next
  PROVE  HandsKnown'
<1>1. ResultsTypeOK /\ PlayTypeOK /\ HandsKnown
  BY TypeParts DEF TypeInv
<1>2. ASSUME worker' = worker, applied' = applied, events' = events PROVE HandsKnown'
  BY <1>1, <1>2 DEF HandsKnown
<1>3. CASE Rooming /\ UNCHANGED playVars
  BY <1>2, <1>3, RoomingFrame DEF unheld, playVars
<1>4. CASE (Persists \/ Defer) /\ UNCHANGED playVars
  <2>1. CASE Take
    <3>1. Head(queue) \in Rooms
      BY <1>1, <2>1, HeadTailProperties DEF Take, ResultsTypeOK
    <3> QED
      BY <1>1, <1>4, <2>1, <3>1, RoomAssumption DEF Take, HandsKnown, playVars
  <2>2. CASE Save \/ Rank \/ MarkReady \/ Defer
    BY <1>1, <1>4, <2>2 DEF Save, Rank, MarkReady, Defer, HandsKnown, playVars, ResultsTypeOK
  <2>3. CASE Acknowledge
    BY <1>1, <1>4, <2>3 DEF Acknowledge, Idle, HandsKnown, playVars
  <2> QED
    BY <1>4, <2>1, <2>2, <2>3 DEF Persists, Worker
<1>5. CASE Commands
  <2>1. worker' = worker /\ applied' = applied
    BY <1>5, CommandSteps DEF TypeInv
  <2>2. CASE UNCHANGED <<events, published>>
    BY <1>2, <2>1, <2>2
  <2>3. CASE \E a \in Accounts, fresh \in Seq(Topics \X Rooms) : Announce(a, fresh)
    <3>1. \A b \in Accounts : events[b] # << >> => events'[b] # << >>
      BY <1>1, <2>3, AnnounceKeeps
    <3> QED
      BY <1>1, <2>1, <3>1 DEF HandsKnown
  <2> QED
    BY <1>5, <2>2, <2>3, CommandSteps DEF TypeInv
<1>6. ASSUME NEW a \in Accounts, Delivers(a) PROVE HandsKnown'
  <2>1. worker' = worker
    BY <1>6 DEF Delivers, Record, Accept, Claim, resultVars
  <2>2. CASE Record(a)
    BY <1>1, <2>1, <2>2 DEF Record, HandsKnown, PlayTypeOK
  <2>3. CASE Delivered(a)
    <3>1. \A b \in Accounts : applied'[b] => b # a /\ applied[b] /\ events'[b] = events[b]
      BY <1>1, <2>3 DEF Delivered, PlayTypeOK
    <3> QED
      BY <1>1, <2>1, <3>1 DEF HandsKnown
  <2> QED
    BY <1>6, <2>2, <2>3 DEF Delivers, Accept, Claim
<1>7. CASE Crash \/ Exit
  BY <1>1, <1>7 DEF Crash, Exit, Quit, Halt, Idle, HandsKnown
<1>8. CASE Begins
  BY <1>2, <1>8 DEF Begins, Restart, Recover, RecoverResult, resultVars, playVars
<1> QED
  BY <1>3, <1>4, <1>5, <1>6, <1>7, <1>8 DEF Next

\* Every step keeps the types and what the hands hold.
LEMMA TypeStep ==
  ASSUME TypeInv, [Next]_vars
  PROVE  TypeInv'
<1>1. ResultsTypeOK /\ ManagerTypeOK /\ PlayTypeOK /\ Typed /\ HandsKnown
  BY TypeParts DEF TypeInv, Typed
<1>2. CASE UNCHANGED vars
  BY <1>1, <1>2, ResultsTypeFrame, ManagerTypeFrame, PlayTypeFrame, TypePartsNext
  DEF vars, resultVars, results, playVars, TypeInv, HandsKnown
<1>3. CASE Next
  <2>1. setup' = setup
    BY <1>3 DEF Next
  <2>2. TypeOK'
    <3>1. CASE Rooming /\ UNCHANGED playVars
      <4>1. Typed'
        BY <1>1, <2>1, <3>1, RoomingTyped
      <4>2. PlayTypeOK'
        BY <1>1, <2>1, <3>1, RoomingFrame, PlayTypeFrame DEF unheld
      <4> QED
        BY <4>1, <4>2, TypePartsNext DEF Typed
    <3>2. CASE ((Worker \/ Defer) /\ UNCHANGED roomVars) /\ UNCHANGED playVars
      <4>1. ResultsTypeOK' /\ ManagerTypeOK'
        BY <1>1, <2>1, <3>2, WorkerTyped, ManagerTypeFrame
      <4>2. reading' = reading
        BY <3>2 DEF Worker, Take, Save, Rank, MarkReady, Defer
      <4> QED
        BY <1>1, <2>1, <3>2, <4>1, <4>2, PlayTypeFrame, TypePartsNext
    <3>3. CASE Acknowledge /\ UNCHANGED playVars
      <4>1. Typed'
        BY <1>1, <2>1, <3>3, AcknowledgeTyped
      <4>2. reading' = reading
        BY <3>3 DEF Acknowledge
      <4> QED
        BY <1>1, <2>1, <3>3, <4>1, <4>2, PlayTypeFrame, TypePartsNext DEF Typed
    <3>4. CASE Commands
      BY <2>1, <3>4, CommandsTyped DEF TypeInv
    <3>5. CASE \E a \in Accounts : Delivers(a)
      BY <2>1, <3>5, DeliveryTyped
    <3>6. CASE Crash \/ Exit \/ Begins
      BY <2>1, <3>6, QuitTyped, BeginsTyped DEF TypeInv
    <3> QED
      BY <1>3, <3>1, <3>2, <3>3, <3>4, <3>5, <3>6 DEF Next, Persists
  <2> QED
    BY <1>3, <2>2, HandsStep DEF TypeInv
<1> QED
  BY <1>2, <1>3

\* The first state has the types.
LEMMA TypeInit == Init => TypeInv
<1>1. SUFFICES ASSUME Init PROVE TypeInv
  OBVIOUS
<1>2. setup \in Setups
  BY <1>1 DEF Init, ResultsInit
<1>3. setup.failures \in Nat /\ setup.crashes \in Nat /\ QueueLength \in Nat
  BY <1>2, RoomAssumption
<1>4. ResultsTypeOK
  BY <1>1, <1>2, <1>3, EmptySeq DEF Init, ResultsInit, ResultsTypeOK, EmptyStore, Stores, Idle
<1>5. ManagerTypeOK
  BY <1>1, NoRoomType, EmptyTyped DEF Init, ManagerInit, ManagerTypeOK, Moves
<1>6. PlayTypeOK
  BY <1>1, <1>3, EmptySeq DEF Init, ResultsInit, PlayTypeOK
<1>7. HandsKnown
  BY <1>1 DEF Init, ResultsInit, Idle, HandsKnown
<1> QED
  BY <1>4, <1>5, <1>6, <1>7, TypeParts DEF TypeInv

\* Every variable keeps its type, and the accounts that read the store are
\* those whose command is between its two looks (Result ends its transaction
\* on every path).
THEOREM TypeCorrect == Spec => []TypeOK
<1>1. TypeInv => TypeOK
  BY DEF TypeInv
<1> QED
  BY <1>1, TypeInit, TypeStep, PTL DEF Spec

-----------------------------------------------------------------------------
(* The inductive invariant *)

\* Room r waits for the worker or is in its hands.
Held(r) == r \in Range(queue) \/ worker.room = r

\* The claim of account a for room r is still to be published or delivered.
Unclaimed(a, r) ==
  <<"claimed", a, r>> \notin published \/ <<"claimed", r>> \in Range(events[a])

\* Room r has ended without a result, and will have none.
Departed(r) == rooms[r].phase \in {"gone", "stopped"} /\ r \notin Durable /\ ~Held(r)

\* A room has ended, or not, as its phase says; a removed one is not queued.
PhasesKnown ==
  \A r \in Rooms :
    /\ rooms[r].phase \in {"free", "lobby", "loading", "running"} => ~rooms[r].ended
    /\ rooms[r].phase = "over" => rooms[r].ended /\ (rooms[r].persisted => rooms[r].queued)
    /\ rooms[r].phase = "gone" => ~rooms[r].queued

\* Only a room that was over has a result, and only a removed one lost it.
ResultsKnown ==
  \A r \in Rooms :
    /\ r \in Durable \/ Held(r) \/ r \in lost => rooms[r].ended
    /\ r \in lost => rooms[r].phase = "gone"
    /\ rooms[r].persisted => r \in Durable

\* A result is handed over once; what is handed over is pending until durable.
QueueKnown ==
  /\ \A i, j \in 1..Len(queue) : queue[i] = queue[j] => i = j
  /\ \A i \in 1..Len(queue) : queue[i] \in pending /\ worker.room # queue[i]
  /\ \A r \in Rooms : Held(r) => rooms[r].phase \in {"gone", "stopped"} \/ rooms[r].queued

\* How far the worker is with the result it holds.
WorkerKnown ==
  /\ worker.step # "idle" => worker.room \in pending \cup Durable
  /\ worker.step \in {"rank", "ready", "acknowledge"} => worker.room \in Durable
  /\ worker.step \in {"ready", "acknowledge"} /\ Kind = "action" => worker.room \in store.ranked
  /\ worker.step = "acknowledge" => worker.room \in store.ready \cup store.retired

\* The parts of KeptUntilClaimed that are about the store alone.
StoreKnown ==
  /\ store.saved \cap store.retired = {}
  /\ store.ready \subseteq store.saved
  /\ Kind = "action" => store.ready \cup store.retired \subseteq store.ranked

ResultsInv ==
  /\ PhasesKnown /\ ResultsKnown /\ QueueKnown /\ WorkerKnown /\ StoreKnown
  /\ NothingLost /\ EndsAreDurable

\* Events are of accounts that play in the room, and its members are final.
MembersKnown ==
  \A t \in Topics, a \in Accounts, r \in Rooms : <<t, a, r>> \in published =>
    /\ rooms[r].phase \notin {"free", "lobby"}
    /\ rooms[r].ended \/ rooms[r].phase \in Playing => a \in In(r)

\* Undelivered events are published ones, each once, a claim after its run.
EventsKnown ==
  \A a \in Accounts : \A i \in 1..Len(events[a]) :
    /\ <<events[a][i][1], a, events[a][i][2]>> \in published
    /\ \A j \in 1..Len(events[a]) :
         /\ events[a][i] = events[a][j] => i = j
         /\ /\ events[a][i][1] = "claimed" /\ events[a][j][1] = "accepted"
            /\ events[a][i][2] = events[a][j][2]
            => j < i

\* What is published, recorded and claimed of one account and one room.
ClaimsKnown ==
  \A a \in Accounts, r \in Rooms :
    /\ <<"claimed", a, r>> \in published => <<"accepted", a, r>> \in published
    /\ run[a] = r => <<"accepted", a, r>> \in published
    /\ <<a, r>> \in store.claims => ~Unclaimed(a, r)
    /\ r \in store.retired /\ a \in In(r) => ~Unclaimed(a, r)
    /\ <<"accepted", a, r>> \in published /\ Unclaimed(a, r) =>
         \/ r \in Durable \/ <<a, r>> \in store.runs
         \/ <<"accepted", r>> \in Range(events[a])

\* A delivery that the inbox holds is of an accepted run that is recorded.
AppliedKnown ==
  \A a \in Accounts : applied[a] =>
    /\ Head(events[a])[1] = "accepted"
    /\ Unclaimed(a, Head(events[a])[2]) =>
         Head(events[a])[2] \in Durable \/ <<a, Head(events[a])[2]>> \in store.runs

\* A command that ends a run, of other games than fishing, has seen its result.
EndsKnown ==
  Kind # "fishing" => \A a \in Accounts, r \in Rooms :
    /\ prepared[a] = "result" /\ run[a] = r => r \in store.ready \cup store.retired
    /\ <<"claimed", a, r>> \in published => r \in store.ready \cup store.retired

DeliveryInv == MembersKnown /\ EventsKnown /\ ClaimsKnown /\ AppliedKnown /\ EndsKnown

\* What a command knows of run r of account a is still so, or is excused.
RunKnown(a, r) ==
  /\ <<"claimed", a, r>> \notin published
  /\ prepared[a] = "looking" => r \notin Durable
  /\ \/ <<a, r>> \in excused
     \/ /\ prepared[a] = "abandoned" => Departed(r)
        /\ prepared[a] = "looking" => membership[a] = r \/ Departed(r)
        /\ \/ membership[a] = r \/ rooms[r].phase \notin Playing
           \/ rooms[r].phase = "over" /\ rooms[r].queued

AbandonInv ==
  /\ Kind = "fishing" => givenUp = {}
  /\ Kind # "fishing" => \A a \in Accounts, r \in Rooms : run[a] = r => RunKnown(a, r)
  /\ \A a \in Accounts, r \in Rooms : <<a, r>> \in givenUp \ excused => Departed(r)

IInv == TypeInv /\ ResultsInv /\ DeliveryInv /\ AbandonInv

-----------------------------------------------------------------------------
(* The transactions of the store *)

StoreOK(s) ==
  /\ s.saved \cap s.retired = {} /\ s.ready \subseteq s.saved
  /\ Kind = "action" => s.ready \cup s.retired \subseteq s.ranked

\* Transaction from s to t, of room r, takes nothing back; what it retires
\* every member has claimed, and runs are deleted with their room only.
Keeps(s, t, r) ==
  /\ s.saved \cup s.retired \subseteq t.saved \cup t.retired
  /\ t.saved \cup t.retired \subseteq s.saved \cup s.retired \cup {r}
  /\ s.ready \cup s.retired \subseteq t.ready \cup t.retired
  /\ s.ranked \subseteq t.ranked /\ s.retired \subseteq t.retired
  /\ t.retired \subseteq s.retired \cup {r} /\ t.claims \subseteq s.claims /\ t.runs \subseteq s.runs
  /\ \A a \in Accounts : /\ r \in t.retired \ s.retired /\ a \in In(r) => <<a, r>> \in s.claims
                         /\ \A q \in Rooms : <<a, q>> \in s.runs => <<a, q>> \in t.runs \/ q \in t.retired

\* Settling retires results all of whose members claimed.
LEMMA SettleKeeps ==
  ASSUME NEW s \in Stores, NEW r \in Rooms, StoreOK(s)
  PROVE  /\ StoreOK(Settle(s, r)) /\ Keeps(s, Settle(s, r), r)
         /\ Settle(s, r).saved \cup Settle(s, r).retired = s.saved \cup s.retired
<1>1. CASE Settle(s, r) = s
  BY <1>1 DEF Keeps
<1>2. CASE r \in s.ready /\ \A a \in Range(members[r]) : <<a, r>> \in s.claims
  <2> DEFINE t == [s EXCEPT !.saved = @ \ {r}, !.ready = @ \ {r}, !.retired = @ \cup {r},
                            !.runs = {x \in @ : x[2] # r}, !.claims = {x \in @ : x[2] # r}]
  <2>1. Settle(s, r) = t
    BY <1>2 DEF Settle
  <2>2. /\ t.saved = s.saved \ {r} /\ t.ready = s.ready \ {r} /\ t.retired = s.retired \cup {r}
        /\ t.runs = {x \in s.runs : x[2] # r} /\ t.claims = {x \in s.claims : x[2] # r}
        /\ t.ranked = s.ranked
    BY DEF Stores
  <2>3. r \in s.saved
    BY <1>2 DEF StoreOK
  <2> HIDE DEF t
  <2>4. StoreOK(t)
    BY <1>2, <2>2 DEF StoreOK
  <2>5. t.saved \cup t.retired = s.saved \cup s.retired
    BY <2>2, <2>3
  <2>6. Keeps(s, t, r)
    BY <1>2, <2>2, <2>3, <2>5 DEF Keeps, In
  <2> QED
    BY <2>1, <2>4, <2>5, <2>6
<1> QED
  BY <1>1, <1>2 DEF Settle

\* Saving a result keeps the store in order.
LEMMA SaveKeeps ==
  ASSUME NEW s \in Stores, NEW r \in Rooms, StoreOK(s)
  PROVE  /\ StoreOK(SaveIn(s, r)) /\ Keeps(s, SaveIn(s, r), r)
         /\ r \in SaveIn(s, r).saved \cup SaveIn(s, r).retired
BY DEF SaveIn, StoreOK, Keeps, Stores

\* Ranking a result keeps the store in order.
LEMMA RankKeeps ==
  ASSUME NEW s \in Stores, NEW r \in Rooms, StoreOK(s)
  PROVE  /\ StoreOK(RankIn(s, r)) /\ Keeps(s, RankIn(s, r), r)
         /\ Kind = "action" => r \in RankIn(s, r).ranked
         /\ RankIn(s, r).saved = s.saved /\ RankIn(s, r).retired = s.retired
         /\ RankIn(s, r).claims = s.claims /\ RankIn(s, r).runs = s.runs
         /\ RankIn(s, r).ready = s.ready
BY DEF RankIn, StoreOK, Keeps, Stores

\* Making a result ready keeps the store in order.
LEMMA ReadyKeeps ==
  ASSUME NEW s \in Stores, NEW r \in Rooms, StoreOK(s), r \in s.saved \cup s.retired,
         Kind = "action" => r \in s.ranked
  PROVE  /\ StoreOK(ReadyIn(s, r)) /\ Keeps(s, ReadyIn(s, r), r)
         /\ ReadyIn(s, r).saved \cup ReadyIn(s, r).retired = s.saved \cup s.retired
         /\ r \in ReadyIn(s, r).ready \cup ReadyIn(s, r).retired
<1>1. CASE r \in s.retired
  BY <1>1 DEF ReadyIn, Keeps
<1>2. CASE r \notin s.retired
  <2> DEFINE u == [s EXCEPT !.ready = @ \cup {r}]
  <2>1. /\ u.saved = s.saved /\ u.retired = s.retired /\ u.ready = s.ready \cup {r}
        /\ u.ranked = s.ranked /\ u.runs = s.runs /\ u.claims = s.claims
    BY DEF Stores
  <2>2. u \in Stores
    BY DEF Stores
  <2>3. ReadyIn(s, r) = Settle(u, r)
    BY <1>2 DEF ReadyIn
  <2> HIDE DEF u
  <2>4. StoreOK(u)
    BY <1>2, <2>1 DEF StoreOK
  <2>5. /\ StoreOK(Settle(u, r)) /\ Keeps(u, Settle(u, r), r)
        /\ Settle(u, r).saved \cup Settle(u, r).retired = u.saved \cup u.retired
    BY <2>2, <2>4, SettleKeeps
  <2>6. Keeps(s, Settle(u, r), r)
    BY <2>1, <2>5 DEF Keeps
  <2>7. r \in Settle(u, r).ready \cup Settle(u, r).retired
    BY <2>1, <2>5 DEF Keeps
  <2> QED
    BY <2>1, <2>3, <2>5, <2>6, <2>7
<1> QED
  BY <1>1, <1>2

\* Recording a claim keeps the store in order.
LEMMA ClaimKeeps ==
  ASSUME NEW s \in Stores, NEW a \in Accounts, NEW r \in Rooms, StoreOK(s), NEW t, t = ClaimIn(s, a, r)
  PROVE  /\ StoreOK(t) /\ t.saved \cup t.retired = s.saved \cup s.retired
         /\ s.ready \cup s.retired \subseteq t.ready \cup t.retired
         /\ s.retired \subseteq t.retired /\ t.retired \subseteq s.retired \cup {r}
         /\ t.claims \subseteq s.claims \cup {<<a, r>>}
         /\ \A b \in Accounts : r \in t.retired \ s.retired /\ b \in In(r) =>
                                 <<b, r>> \in s.claims \cup {<<a, r>>}
         /\ \A b \in Accounts, q \in Rooms : <<b, q>> \in s.runs =>
              <<b, q>> \in t.runs \/ q \in t.retired \/ (b = a /\ q = r)
<1>1. s.claims \cup {<<a, r>>} \in SUBSET (Accounts \X Rooms)
  BY DEF Stores
<1>2. CASE r \in s.saved
  <2> DEFINE u == [s EXCEPT !.claims = @ \cup {<<a, r>>}]
  <2>1. /\ u.saved = s.saved /\ u.retired = s.retired /\ u.ready = s.ready
        /\ u.ranked = s.ranked /\ u.runs = s.runs /\ u.claims = s.claims \cup {<<a, r>>}
    BY DEF Stores
  <2>2. u \in Stores
    BY <1>1 DEF Stores
  <2>3. t = Settle(u, r)
    BY <1>2 DEF ClaimIn
  <2> HIDE DEF u
  <2>4. StoreOK(u)
    BY <2>1 DEF StoreOK
  <2>5. StoreOK(t) /\ Keeps(u, t, r) /\ t.saved \cup t.retired = u.saved \cup u.retired
    BY <2>2, <2>3, <2>4, SettleKeeps
  <2>6. \A b \in Accounts, q \in Rooms : <<b, q>> \in s.runs => <<b, q>> \in t.runs \/ q \in t.retired
    BY <2>1, <2>5 DEF Keeps
  <2>7. \A b \in Accounts : r \in t.retired \ s.retired /\ b \in In(r) =>
                               <<b, r>> \in s.claims \cup {<<a, r>>}
    BY <2>1, <2>5 DEF Keeps
  <2>8. /\ s.ready \cup s.retired \subseteq t.ready \cup t.retired
        /\ s.retired \subseteq t.retired /\ t.retired \subseteq s.retired \cup {r}
        /\ t.claims \subseteq s.claims \cup {<<a, r>>}
    BY <2>1, <2>5 DEF Keeps
  <2>9. t.saved \cup t.retired = s.saved \cup s.retired
    BY <2>1, <2>5
  <2> QED
    BY <2>5, <2>6, <2>7, <2>8, <2>9
<1>3. CASE r \notin s.saved
  <2>1. t = [s EXCEPT !.claims = @ \cup {<<a, r>>}, !.runs = @ \ {<<a, r>>}]
    BY <1>3 DEF ClaimIn
  <2>2. /\ t.saved = s.saved /\ t.retired = s.retired /\ t.ready = s.ready
        /\ t.ranked = s.ranked /\ t.runs = s.runs \ {<<a, r>>} /\ t.claims = s.claims \cup {<<a, r>>}
    BY <2>1 DEF Stores
  <2>3. StoreOK(t)
    BY <2>2 DEF StoreOK
  <2>4. \A b \in Accounts, q \in Rooms :
          <<b, q>> \in s.runs => <<b, q>> \in t.runs \/ q \in t.retired \/ (b = a /\ q = r)
    <3>1. ASSUME NEW b \in Accounts, NEW q \in Rooms, <<b, q>> \in s.runs
          PROVE  <<b, q>> \in t.runs \/ (b = a /\ q = r)
      <4>1. <<b, q>> \in t.runs \/ <<b, q>> = <<a, r>>
        BY <2>2, <3>1
      <4> QED
        BY <4>1
    <3> QED
      BY <3>1
  <2>5. t.retired \ s.retired = {}
    BY <2>2
  <2> QED
    BY <2>2, <2>3, <2>4, <2>5
<1> QED
  BY <1>2, <1>3

-----------------------------------------------------------------------------
(* The queue and the worker *)

\* What is in the queue, after one joined it and after its head left.
LEMMA QueueRange ==
  ASSUME NEW q \in Seq(Rooms)
  PROVE  /\ Range(q) = {q[i] : i \in 1..Len(q)}
         /\ \A x \in Rooms : Range(Append(q, x)) = Range(q) \cup {x}
         /\ q # << >> => Range(q) = {Head(q)} \cup Range(Tail(q))
<1>1. \A p \in Seq(Rooms) : Range(p) = {p[i] : i \in 1..Len(p)}
  BY DEF Range
<1>2. ASSUME NEW x \in Rooms PROVE Range(Append(q, x)) = Range(q) \cup {x}
  <2> DEFINE p == Append(q, x)  n == Len(q)
  <2>1. p \in Seq(Rooms) /\ Len(p) = n + 1 /\ n \in Nat
    OBVIOUS
  <2>2. (\A i \in 1..n : p[i] = q[i]) /\ p[n + 1] = x
    OBVIOUS
  <2> HIDE DEF p, n
  <2>3. 1..(n + 1) = 1..n \cup {n + 1}
    BY <2>1
  <2>4. Range(p) = {p[i] : i \in 1..(n + 1)}
    BY <1>1, <2>1
  <2>5. Range(p) = {p[i] : i \in 1..n} \cup {p[n + 1]}
    BY <2>3, <2>4
  <2>6. {p[i] : i \in 1..n} = {q[i] : i \in 1..n}
    BY <2>2
  <2> QED
    BY <1>1, <2>2, <2>5, <2>6 DEF p, n
<1>3. ASSUME q # << >> PROVE Range(q) = {Head(q)} \cup Range(Tail(q))
  <2> DEFINE p == Tail(q)  n == Len(q)
  <2>1. p \in Seq(Rooms) /\ Len(p) = n - 1 /\ n \in Nat \ {0} /\ Head(q) = q[1]
    BY <1>3
  <2>2. \A i \in 1..(n - 1) : p[i] = q[i + 1]
    BY <1>3
  <2> HIDE DEF p, n
  <2>3. \A i \in 1..n : i = 1 \/ (i - 1 \in 1..(n - 1) /\ (i - 1) + 1 = i)
    BY <2>1
  <2>4. \A i \in 1..n : i = 1 \/ (i - 1 \in 1..(n - 1) /\ p[i - 1] = q[i])
    <3>1. ASSUME NEW i \in 1..n, i # 1 PROVE i - 1 \in 1..(n - 1) /\ p[i - 1] = q[i]
      <4>1. i - 1 \in 1..(n - 1) /\ (i - 1) + 1 = i
        BY <2>3, <3>1
      <4>2. p[i - 1] = q[(i - 1) + 1]
        BY <2>2, <4>1
      <4> QED
        BY <4>1, <4>2
    <3> QED
      BY <3>1
  <2>5. Range(p) = {p[i] : i \in 1..(n - 1)} /\ Range(q) = {q[i] : i \in 1..n}
    BY <1>1, <2>1 DEF n
  <2>6. Range(q) \subseteq {Head(q)} \cup Range(p)
    <3>1. \A i \in 1..n : q[i] = Head(q) \/ q[i] \in {p[k] : k \in 1..(n - 1)}
      BY <2>1, <2>4
    <3> QED
      BY <2>5, <3>1
  <2>7. \A i \in 1..(n - 1) : i + 1 \in 1..n
    BY <2>1
  <2>8. Range(p) \subseteq Range(q)
    BY <2>2, <2>5, <2>7
  <2>9. Head(q) \in Range(q)
    <3>1. 1 \in 1..n
      BY <2>1
    <3> QED
      BY <2>1, <2>5, <3>1
  <2> QED
    BY <2>6, <2>8, <2>9 DEF p
<1> QED
  BY <1>1, <1>2, <1>3

\* The store of a state of ResultsInv is in order.
LEMMA KnownStore == StoreKnown <=> StoreOK(store)
BY DEF StoreKnown, StoreOK

\* What every transaction leaves of the facts about the store.
LEMMA StoreGrows ==
  ASSUME ResultsInv, NEW r \in Rooms, Held(r) \/ r \in Durable, StoreOK(store'),
         store.saved \cup store.retired \subseteq store'.saved \cup store'.retired,
         store'.saved \cup store'.retired \subseteq store.saved \cup store.retired \cup {r},
         store.ready \cup store.retired \subseteq store'.ready \cup store'.retired,
         UNCHANGED <<setup, rooms, queue, lost, up>>, worker'.room = worker.room
  PROVE  /\ PhasesKnown' /\ ResultsKnown' /\ StoreKnown' /\ NothingLost' /\ EndsAreDurable'
         /\ Durable \subseteq Durable'
<1>1. Durable \subseteq Durable' /\ Durable' \subseteq Durable \cup {r}
  BY DEF Durable
<1>2. PhasesKnown' /\ EndsAreDurable'
  BY DEF ResultsInv, PhasesKnown, EndsAreDurable
<1>3. \A q \in Rooms : (Held(q))' <=> Held(q)
  BY DEF Held
<1>4. ResultsKnown'
  BY <1>1, <1>3 DEF ResultsInv, ResultsKnown
<1>5. NothingLost'
  BY <1>1 DEF ResultsInv, NothingLost, InFlight, Dropped
<1>6. StoreKnown'
  BY DEF StoreKnown, StoreOK, Kind
<1> QED
  BY <1>1, <1>2, <1>4, <1>5, <1>6

-----------------------------------------------------------------------------
(* The results: the worker *)

\* While no room changes and no result is handed over.
LEMMA QueueStays ==
  ASSUME QueueKnown, NEW r, pending \ {r} \subseteq pending', r \notin Range(queue),
         UNCHANGED <<rooms, queue>>, worker'.room = worker.room, TypeInv
  PROVE  QueueKnown'
<1>1. \A i \in 1..Len(queue) : queue[i] # r
  BY QueueRange DEF TypeInv, TypeOK, ResultsTypeOK
<1>2. \A q \in Rooms : (Held(q))' <=> Held(q)
  BY DEF Held
<1> QED
  BY <1>1, <1>2 DEF QueueKnown

\* The room in the hands of the worker is neither queued nor free.
LEMMA InHands ==
  ASSUME TypeInv, ResultsInv, worker.step # "idle"
  PROVE  /\ worker.room \in Rooms /\ Held(worker.room) /\ worker.room \notin Range(queue)
         /\ store \in Stores /\ StoreOK(store)
<1>1. worker.room \in Rooms
  BY HeldRoom, TypeParts DEF TypeInv
<1>2. worker.room \notin Range(queue)
  <2>1. Range(queue) = {queue[i] : i \in 1..Len(queue)}
    BY QueueRange DEF TypeInv, TypeOK, ResultsTypeOK
  <2>2. \A i \in 1..Len(queue) : worker.room # queue[i]
    BY DEF ResultsInv, QueueKnown
  <2> QED
    BY <2>1, <2>2
<1> QED
  BY <1>1, <1>2, KnownStore DEF Held, ResultsInv, TypeInv, TypeOK, ResultsTypeOK

\* Taking a result off the queue keeps ResultsInv.
LEMMA TakeResults ==
  ASSUME TypeInv, ResultsInv, Take, UNCHANGED <<setup, roomVars, playVars>>
  PROVE  ResultsInv'
<1>1. /\ queue \in Seq(Rooms) /\ queue # << >> /\ worker = Idle
      /\ worker'.step = "save" /\ worker'.room = Head(queue) /\ queue' = Tail(queue)
      /\ UNCHANGED <<store, pending, rooms, lost, up, setup>>
  BY DEF Take, TypeInv, TypeOK, ResultsTypeOK, roomVars, process, playVars
<1>2. Range(queue) = {Head(queue)} \cup Range(Tail(queue))
  BY <1>1, QueueRange
<1>3. \A r \in Rooms : (Held(r))' <=> Held(r)
  BY <1>1, <1>2, RoomAssumption DEF Held, Idle
<1>4. /\ Tail(queue) \in Seq(Rooms) /\ Len(Tail(queue)) = Len(queue) - 1 /\ Len(queue) \in Nat \ {0}
      /\ Head(queue) = queue[1] /\ \A i \in 1..Len(Tail(queue)) : Tail(queue)[i] = queue[i + 1]
  BY <1>1
<1>5. \A i \in 1..Len(Tail(queue)) : i \in Nat /\ i + 1 \in 1..Len(queue) /\ i + 1 # 1
  BY <1>4
<1>6. 1 \in 1..Len(queue)
  BY <1>4
<1>7. QueueKnown'
  <2>1. \A i, j \in 1..Len(queue') : queue'[i] = queue'[j] => i = j
    <3>1. ASSUME NEW i \in 1..Len(queue'), NEW j \in 1..Len(queue'), queue'[i] = queue'[j]
          PROVE  i = j
      <4>1. i + 1 = j + 1
        BY <1>1, <1>4, <1>5, <3>1 DEF ResultsInv, QueueKnown
      <4> QED
        BY <1>1, <1>5, <4>1
    <3> QED
      BY <3>1
  <2>2. \A i \in 1..Len(queue') : queue'[i] \in pending' /\ worker'.room # queue'[i]
    BY <1>1, <1>4, <1>5, <1>6 DEF ResultsInv, QueueKnown
  <2>3. \A r \in Rooms : (Held(r))' => rooms[r].phase \in {"gone", "stopped"} \/ rooms[r].queued
    BY <1>3 DEF ResultsInv, QueueKnown
  <2> QED
    BY <1>1, <2>1, <2>2, <2>3 DEF QueueKnown
<1>8. WorkerKnown'
  BY <1>1, <1>4, <1>6 DEF WorkerKnown, ResultsInv, QueueKnown
<1>9. PhasesKnown' /\ StoreKnown' /\ EndsAreDurable'
  BY <1>1 DEF ResultsInv, PhasesKnown, StoreKnown, EndsAreDurable, Kind
<1>10. ResultsKnown'
  BY <1>1, <1>3 DEF ResultsInv, ResultsKnown, Durable
<1>11. NothingLost'
  <2>1. \A r \in Rooms : InFlight(r) => (InFlight(r))'
    BY <1>1, <1>3 DEF InFlight, Held
  <2> QED
    BY <1>1, <2>1 DEF ResultsInv, NothingLost, Durable, Dropped
<1> QED
  BY <1>7, <1>8, <1>9, <1>10, <1>11 DEF ResultsInv

\* A transaction of the worker keeps ResultsInv.
LEMMA TransactionResults ==
  ASSUME TypeInv, ResultsInv, Save \/ Rank \/ MarkReady, UNCHANGED <<setup, roomVars, playVars>>
  PROVE  ResultsInv' /\ Durable \subseteq Durable'
<1> DEFINE r == worker.room
<1>1. r \in Rooms /\ Held(r) /\ r \notin Range(queue) /\ store \in Stores /\ StoreOK(store)
  BY InHands DEF Save, Rank, MarkReady
<1>2. /\ worker' = [worker EXCEPT !.step = worker'.step] /\ worker'.room = r
      /\ worker'.step \in {"rank", "ready", "acknowledge"}
      /\ pending \ {r} \subseteq pending' /\ UNCHANGED <<setup, rooms, queue, lost, up>>
  BY DEF Save, Rank, MarkReady, roomVars, process, playVars, TypeInv, TypeOK, ResultsTypeOK
<1>3. QueueKnown'
  BY <1>1, <1>2, QueueStays DEF ResultsInv
<1>4. /\ StoreOK(store') /\ Keeps(store, store', r) /\ r \in store'.saved \cup store'.retired
      /\ worker'.step \in {"ready", "acknowledge"} /\ Kind = "action" => r \in store'.ranked
      /\ worker'.step = "acknowledge" => r \in store'.ready \cup store'.retired
  <2>1. CASE Save
    BY <1>1, <2>1, SaveKeeps DEF Save, TypeInv, TypeOK, ResultsTypeOK
  <2>2. CASE Rank
    <3>1. r \in Durable /\ store' = RankIn(store, r) /\ worker'.step = "ready"
      BY <2>2 DEF Rank, ResultsInv, WorkerKnown, TypeInv, TypeOK, ResultsTypeOK
    <3> QED
      BY <1>1, <3>1, RankKeeps DEF Durable
  <2>3. CASE MarkReady
    <3>1. /\ r \in Durable /\ store' = ReadyIn(store, r) /\ worker'.step = "acknowledge"
          /\ Kind = "action" => r \in store.ranked
      BY <2>3 DEF MarkReady, ResultsInv, WorkerKnown, TypeInv, TypeOK, ResultsTypeOK
    <3>2. /\ StoreOK(store') /\ Keeps(store, store', r) /\ r \in store'.saved \cup store'.retired
          /\ r \in store'.ready \cup store'.retired
      BY <1>1, <3>1, ReadyKeeps DEF Durable
    <3> QED
      BY <3>1, <3>2 DEF Keeps
  <2> QED
    BY <2>1, <2>2, <2>3
<1>5. WorkerKnown'
  BY <1>2, <1>4 DEF WorkerKnown, Durable, Kind
<1>6. /\ PhasesKnown' /\ ResultsKnown' /\ StoreKnown' /\ NothingLost' /\ EndsAreDurable'
      /\ Durable \subseteq Durable'
  BY <1>1, <1>2, <1>4, StoreGrows DEF Keeps
<1> QED
  BY <1>3, <1>5, <1>6 DEF ResultsInv

\* Putting a result back keeps ResultsInv.
LEMMA DeferResults ==
  ASSUME TypeInv, ResultsInv, Defer, UNCHANGED <<setup, roomVars, playVars>>
  PROVE  ResultsInv'
<1>1. /\ worker.step # "idle" /\ worker'.step = "save" /\ worker'.room = worker.room
      /\ UNCHANGED <<store, pending, queue, rooms, lost, up, setup>>
  BY DEF Defer, TypeInv, TypeOK, ResultsTypeOK, roomVars, process, playVars
<1>2. worker.room \in Rooms /\ Held(worker.room) /\ worker.room \notin Range(queue) /\ StoreOK(store)
  BY <1>1, InHands
<1>3. QueueKnown'
  BY <1>1, <1>2, QueueStays DEF ResultsInv
<1>4. WorkerKnown'
  BY <1>1 DEF WorkerKnown, ResultsInv, Durable
<1>5. StoreOK(store')
  BY <1>1, <1>2
<1>6. PhasesKnown' /\ ResultsKnown' /\ StoreKnown' /\ NothingLost' /\ EndsAreDurable'
  BY <1>1, <1>2, <1>5, StoreGrows
<1> QED
  BY <1>3, <1>4, <1>6 DEF ResultsInv

\* Acknowledge changes what the members heard of the room, if anything.
LEMMA AcknowledgedRooms ==
  ASSUME TypeInv, Acknowledge, worker.room \in Rooms
  PROVE  /\ rooms' \in [Rooms -> RoomStates]
         /\ \A q \in Rooms :
              /\ rooms'[q].phase = rooms[q].phase /\ rooms'[q].ended = rooms[q].ended
              /\ rooms'[q].queued = rooms[q].queued /\ rooms'[q].closed = rooms[q].closed
              /\ q # worker.room => rooms'[q] = rooms[q]
<1> DEFINE r == worker.room
           x == [rooms[r] EXCEPT !.persisted = TRUE, !.told = TRUE]
<1>0. rooms \in [Rooms -> RoomStates]
  BY DEF TypeInv, TypeOK, ManagerTypeOK
<1>1. rooms[r] \in RoomStates
  BY <1>0
<1>2. /\ x \in RoomStates /\ x.phase = rooms[r].phase /\ x.ended = rooms[r].ended
      /\ x.queued = rooms[r].queued /\ x.closed = rooms[r].closed
  BY <1>1 DEF RoomStates
<1>3. rooms' = rooms \/ rooms' = [rooms EXCEPT ![r] = x]
  BY DEF Acknowledge
<1> HIDE DEF x
<1>4. CASE rooms' = [rooms EXCEPT ![r] = x]
  <2>1. rooms' \in [Rooms -> RoomStates] /\ rooms'[r] = x /\ \A q \in Rooms : q # r => rooms'[q] = rooms[q]
    BY <1>0, <1>2, <1>4
  <2> QED
    BY <1>2, <2>1
<1> QED
  BY <1>0, <1>3, <1>4

\* Acknowledging a result keeps ResultsInv.
LEMMA AcknowledgeResults ==
  ASSUME TypeInv, ResultsInv, Acknowledge, UNCHANGED <<setup, playVars>>
  PROVE  ResultsInv'
<1> DEFINE r == worker.room
<1>1. r \in Rooms /\ Held(r) /\ r \notin Range(queue)
  BY InHands DEF Acknowledge
<1>2. r \in Durable /\ r \in store.ready \cup store.retired
  BY DEF Acknowledge, ResultsInv, WorkerKnown
<1>3. /\ worker' = Idle /\ UNCHANGED <<store, pending, queue, lost, up, setup>>
      /\ rooms \in [Rooms -> RoomStates]
  BY DEF Acknowledge, process, playVars, TypeInv, TypeOK, ManagerTypeOK
<1>4. /\ rooms' \in [Rooms -> RoomStates]
      /\ \A q \in Rooms :
           /\ rooms'[q].phase = rooms[q].phase /\ rooms'[q].ended = rooms[q].ended
           /\ rooms'[q].queued = rooms[q].queued /\ rooms'[q].closed = rooms[q].closed
           /\ q # r => rooms'[q] = rooms[q]
  BY <1>1, AcknowledgedRooms
<1>5. \A q \in Rooms : (Held(q))' <=> Held(q) /\ q # r
  BY <1>1, <1>3, RoomAssumption DEF Held, Idle
<1>6. QueueKnown'
  <2>1. \A i \in 1..Len(queue) : queue[i] \in Rooms /\ queue[i] # None
    BY RoomAssumption DEF TypeInv, TypeOK, ResultsTypeOK
  <2>2. \A q \in Rooms : (Held(q))' => rooms'[q].phase \in {"gone", "stopped"} \/ rooms'[q].queued
    BY <1>4, <1>5 DEF QueueKnown, ResultsInv
  <2> QED
    BY <1>3, <2>1, <2>2 DEF QueueKnown, ResultsInv, Idle
<1>7. PhasesKnown' /\ WorkerKnown' /\ StoreKnown'
  <2>1. rooms[r].phase = "over" => rooms[r].queued
    BY <1>1 DEF ResultsInv, QueueKnown
  <2>2. PhasesKnown'
    BY <1>4, <2>1 DEF ResultsInv, PhasesKnown
  <2> QED
    BY <1>3, <2>2 DEF ResultsInv, WorkerKnown, StoreKnown, Kind, Idle
<1>8. ResultsKnown'
  BY <1>2, <1>3, <1>4, <1>5 DEF ResultsInv, ResultsKnown, Durable
<1>9. EndsAreDurable'
  BY <1>2, <1>3, <1>4 DEF ResultsInv, EndsAreDurable
<1>10. NothingLost'
  <2>1. \A q \in Rooms : InFlight(q) /\ q # r => (InFlight(q))'
    BY <1>3, <1>4, <1>5 DEF InFlight, Held
  <2> QED
    BY <1>2, <1>3, <1>4, <2>1 DEF ResultsInv, NothingLost, Durable, Dropped
<1> QED
  BY <1>6, <1>7, <1>8, <1>9, <1>10 DEF ResultsInv

-----------------------------------------------------------------------------
(* What the steps of the rooms do to the state of a room *)

Early == {"free", "lobby", "loading", "running"}

Alike(x, y) ==
  /\ x.ended = y.ended /\ x.told = y.told /\ x.persisted = y.persisted /\ x.queued = y.queued

\* Room r keeps its result and its phase.
Same(r) ==
  /\ rooms'[r].phase = rooms[r].phase /\ Alike(rooms'[r], rooms[r])
  /\ rooms[r].phase = "gone" => rooms'[r].closed = rooms[r].closed

\* Room r, of one phase, is in another one and has no new result.
Turns(r, from, to) ==
  /\ rooms[r].phase \in from /\ rooms'[r].phase \in to
  /\ rooms'[r].told => rooms[r].told
  /\ rooms'[r].persisted => rooms[r].persisted
  /\ rooms'[r].phase = "gone" => ~rooms'[r].queued

\* Room r starts, or ends before it is over.
Starts(r) ==
  /\ Turns(r, Early, (Early \ {"free"}) \cup {"gone", "stopped"})
  /\ rooms[r].phase \in Playing => rooms'[r].phase # "lobby"
  /\ rooms'[r].ended => rooms[r].ended

\* Room r, whose result was handed over, is no more.
Leaves(r) ==
  /\ Turns(r, {"over"}, {"gone", "stopped"})
  /\ rooms'[r].ended = rooms[r].ended
  /\ rooms[r].queued

\* Room r hands its result over.
Ends(r) ==
  /\ Turns(r, Playing, {"over", "gone", "stopped"})
  /\ rooms[r].phase = "over" => ~rooms[r].queued
  /\ rooms'[r].ended /\ Publish(r)
  /\ rooms'[r].phase = "over" => up /\ rooms'[r].queued = CanQueue
  /\ rooms'[r].phase = "gone" /\ ~CanQueue => rooms'[r].closed
  /\ rooms'[r].phase = "stopped" => CanQueue

RoomsMove ==
  \/ UNCHANGED <<queue, pending>> /\ \A r \in Rooms : Same(r) \/ Starts(r) \/ Leaves(r)
  \/ \E r \in Rooms : Ends(r) /\ \A q \in Rooms \ {r} : Same(q)

\* What updates of a room leave alone.
LEMMA RoomUpdates ==
  ASSUME NEW room \in RoomStates
  PROVE  /\ \A p \in {"loading", "running", "stopped"} :
              [room EXCEPT !.phase = p].phase = p /\ Alike([room EXCEPT !.phase = p], room)
         /\ \A b \in BOOLEAN : /\ [room EXCEPT !.auto = b] \in RoomStates
                               /\ [room EXCEPT !.auto = b].phase = room.phase
                               /\ Alike([room EXCEPT !.auto = b], room)
                               /\ [room EXCEPT !.closed = b].phase = room.phase
                               /\ Alike([room EXCEPT !.closed = b], room)
         /\ [room EXCEPT !.phase = "stopped", !.queued = TRUE].phase = "stopped"
         /\ [room EXCEPT !.phase = "stopped", !.queued = TRUE].ended = room.ended
         /\ [room EXCEPT !.phase = "stopped", !.queued = TRUE].told = room.told
         /\ [room EXCEPT !.phase = "stopped", !.queued = TRUE].persisted = room.persisted
BY DEF RoomStates, Alike

\* Gathering a room changes its phase to loading, or not at all.
LEMMA GatheredRoom ==
  ASSUME NEW room \in RoomStates, NEW list
  PROVE  /\ Alike(Gathered(room, list), room)
         /\ Gathered(room, list).phase = room.phase \/ Gathered(room, list).phase = "loading"
BY RoomUpdates DEF Gathered, Alike

\* What is known of a removed room.
LEMMA RemovedRoom ==
  ASSUME NEW room \in RoomStates
  PROVE  LET x == Removed(room) IN
         /\ x.phase = "gone" /\ x.ended = room.ended /\ x.told = room.told
         /\ x.persisted = FALSE /\ x.queued = FALSE
         /\ x.closed = (room.closed /\ room.ended /\ ~room.queued)
BY Zenon DEF Removed, NoRoom

\* What is known of a room that is over.
LEMMA OverRoom ==
  ASSUME NEW room \in RoomStates
  PROVE  LET x == Over(room) IN
         /\ x \in RoomStates /\ x.phase = "over" /\ x.ended = TRUE /\ x.queued = CanQueue
         /\ x.told = room.told /\ x.persisted = room.persisted /\ x.closed = room.closed
BY RoomTypes DEF Over, RoomStates

\* A change of one room is one of the four kinds.
LEMMA OneRoomMoves ==
  ASSUME TypeInv, NEW r \in Rooms, NEW x, rooms' = [rooms EXCEPT ![r] = x]
  PROVE  rooms'[r] = x /\ rooms[r] \in RoomStates /\ \A q \in Rooms \ {r} : Same(q)
BY DEF TypeInv, TypeOK, ManagerTypeOK, Same, Alike

\* Steps that leave the rooms alone are of the kind Same.
LEMMA NoRoomMoves ==
  ASSUME UNCHANGED <<rooms, queue, pending>>
  PROVE  RoomsMove
BY DEF RoomsMove, Same, Alike

\* A change of one room, with what else it leaves alone.
LEMMA OneMoves ==
  ASSUME TypeInv, NEW r \in Rooms, NEW x, rooms' = [rooms EXCEPT ![r] = x],
         UNCHANGED <<queue, pending>>, Same(r) \/ Starts(r) \/ Leaves(r)
  PROVE  RoomsMove
BY OneRoomMoves DEF RoomsMove

\* The end of one room, with what it hands over.
LEMMA OneEnds ==
  ASSUME TypeInv, NEW r \in Rooms, NEW x, rooms' = [rooms EXCEPT ![r] = x], Ends(r)
  PROVE  RoomsMove
BY OneRoomMoves DEF RoomsMove

\* A room in the lobby that goes on to another state.
LEMMA LobbyMoves ==
  ASSUME TypeInv, NEW r \in Rooms, NEW x, rooms' = [rooms EXCEPT ![r] = x],
         UNCHANGED <<queue, pending>>, rooms[r].phase \in {"free", "lobby"},
         x.phase \in {"lobby", "loading"} \/ (x.phase = "gone" /\ ~x.queued),
         x.ended => rooms[r].ended, x.told => rooms[r].told,
         x.persisted => rooms[r].persisted
  PROVE  RoomsMove
<1>1. rooms'[r] = x
  BY OneRoomMoves
<1>2. Starts(r)
  BY <1>1 DEF Starts, Turns, Early, Playing
<1> QED
  BY <1>2, OneMoves

\* Entering a room is of the kinds above.
LEMMA EnterMoves ==
  ASSUME TypeInv, NEW a \in Accounts, NEW r \in Rooms, Admits(a, r), Enter(a, r),
         UNCHANGED <<queue, pending>>
  PROVE  RoomsMove
<1> DEFINE x == Gathered(rooms[r], Append(members[r], a))
<1>1. rooms' = [rooms EXCEPT ![r] = x] /\ rooms[r].phase = "lobby" /\ rooms[r] \in RoomStates
  BY DEF Enter, Admits, TypeInv, TypeOK, ManagerTypeOK
<1>2. Alike(x, rooms[r]) /\ (x.phase = "lobby" \/ x.phase = "loading")
  BY <1>1, GatheredRoom
<1> HIDE DEF x
<1> QED
  BY <1>1, <1>2, LobbyMoves DEF Alike

\* So are the steps of matching,
LEMMA MatchingMoves ==
  ASSUME TypeInv, NEW a \in Accounts,
         \/ Search(a) \/ Move(a) \/ CloseOld(a) \/ Rematch(a)
         \/ \E r \in Rooms :
              \/ \E auto \in BOOLEAN : Create(a, r, auto)
              \/ Join(a, r) \/ LeaveMatching(a, r) \/ HostStarts(a, r) \/ StopSearch(a, r)
  PROVE  RoomsMove
<1>0. rooms \in [Rooms -> RoomStates] /\ membership \in [Accounts -> Rooms \cup {None}]
      /\ moving \in [Accounts -> Moves]
  BY DEF TypeInv, TypeOK, ManagerTypeOK
<1>1. CASE Search(a)
  <2> DEFINE r == membership[a]  x == Gathered([rooms[r] EXCEPT !.auto = TRUE], members[r])
  <2>1. r \in Rooms /\ rooms[r].phase = "lobby" /\ rooms' = [rooms EXCEPT ![r] = x]
        /\ UNCHANGED <<queue, pending>>
    BY <1>0, <1>1 DEF Search, Member, results
  <2> DEFINE y == [rooms[r] EXCEPT !.auto = TRUE]
  <2>01. y \in RoomStates /\ y.phase = rooms[r].phase /\ Alike(y, rooms[r])
    BY <1>0, <2>1, RoomUpdates
  <2>02. x = Gathered(y, members[r])
    OBVIOUS
  <2> HIDE DEF x, y
  <2>2. Alike(x, rooms[r]) /\ (x.phase = "lobby" \/ x.phase = "loading")
    BY <2>1, <2>01, <2>02, GatheredRoom DEF Alike
  <2> HIDE DEF x
  <2> QED
    BY <2>1, <2>2, LobbyMoves DEF Alike
<1>2. CASE Move(a)
  <2>1. moving[a].to \in Rooms
    BY <1>0, <1>2 DEF Move, Moves, Still
  <2>2. UNCHANGED <<queue, pending>>
    BY <1>2 DEF Move, results
  <2>3. CASE Admits(a, moving[a].to) /\ membership[a] = moving[a].from
    BY <1>2, <2>1, <2>2, <2>3, EnterMoves DEF Move
  <2>4. CASE ~(Admits(a, moving[a].to) /\ membership[a] = moving[a].from)
    BY <1>2, <2>2, <2>4, NoRoomMoves DEF Move
  <2> QED
    BY <2>3, <2>4
<1>3. CASE CloseOld(a)
  <2> DEFINE r == moving[a].from  x == [rooms[r] EXCEPT !.closed = TRUE]
  <2>1. r \in Rooms
    BY <1>0, <1>3 DEF CloseOld, Moves, Still
  <2>2. UNCHANGED <<queue, pending>>
    BY <1>3 DEF CloseOld, results
  <2>3. x.phase = rooms[r].phase /\ Alike(x, rooms[r])
    BY <1>0, <2>1, RoomUpdates
  <2>4. rooms' = rooms \/ (rooms[r].phase # "gone" /\ rooms' = [rooms EXCEPT ![r] = x])
    BY <1>3 DEF CloseOld
  <2> HIDE DEF x
  <2>5. CASE rooms[r].phase # "gone" /\ rooms' = [rooms EXCEPT ![r] = x]
    <3>1. rooms'[r] = x
      BY <2>1, <2>5, OneRoomMoves
    <3>2. Same(r)
      BY <2>3, <2>5, <3>1 DEF Same
    <3> QED
      BY <2>1, <2>2, <2>5, <3>2, OneMoves
  <2> QED
    BY <2>2, <2>4, <2>5, NoRoomMoves
<1>4. CASE Rematch(a)
  BY <1>4, NoRoomMoves DEF Rematch, results
<1>5. ASSUME NEW r \in Rooms, NEW auto \in BOOLEAN, Create(a, r, auto) PROVE RoomsMove
  <2> DEFINE y == [NoRoom EXCEPT !.phase = "lobby", !.auto = auto]  x == Gathered(y, <<a>>)
  <2>1. rooms' = [rooms EXCEPT ![r] = x] /\ rooms[r].phase = "free" /\ UNCHANGED <<queue, pending>>
    BY <1>5 DEF Create, results
  <2>2. y \in RoomStates /\ y.phase = "lobby" /\ ~y.ended /\ ~y.told /\ ~y.persisted
    BY DEF NoRoom, RoomStates
  <2> HIDE DEF y
  <2>3. Alike(x, y) /\ (x.phase = "lobby" \/ x.phase = "loading")
    BY <2>2, GatheredRoom
  <2> HIDE DEF x
  <2> QED
    BY <2>1, <2>2, <2>3, LobbyMoves DEF Alike
<1>6. ASSUME NEW r \in Rooms, Join(a, r) PROVE RoomsMove
  BY <1>6, EnterMoves DEF Join, results
<1>7. ASSUME NEW r \in Rooms, LeaveMatching(a, r) PROVE RoomsMove
  <2> DEFINE x == [rooms[r] EXCEPT !.closed = Deserted(r, {a})]
  <2>1. rooms[r].phase = "lobby" /\ UNCHANGED <<queue, pending>>
    BY <1>7 DEF LeaveMatching, results
  <2>2. rooms' = [rooms EXCEPT ![r] = x]
    BY <1>7, Zenon DEF LeaveMatching
  <2>3. Deserted(r, {a}) \in BOOLEAN
    BY DEF Deserted
  <2>4. x.phase = rooms[r].phase /\ Alike(x, rooms[r])
    <3>1. rooms[r] \in RoomStates
      BY <1>0
    <3>2. PICK b \in BOOLEAN : b = Deserted(r, {a})
      BY <2>3
    <3>3. x = [rooms[r] EXCEPT !.closed = b]
      BY <3>2
    <3>4. /\ [rooms[r] EXCEPT !.closed = b].phase = rooms[r].phase
          /\ Alike([rooms[r] EXCEPT !.closed = b], rooms[r])
      BY <3>1, RoomUpdates
    <3> HIDE DEF x
    <3> QED
      BY <3>3, <3>4
  <2> HIDE DEF x
  <2> QED
    BY <2>1, <2>2, <2>4, LobbyMoves DEF Alike
<1>8. ASSUME NEW r \in Rooms, HostStarts(a, r) PROVE RoomsMove
  <2> DEFINE x == [rooms[r] EXCEPT !.phase = "loading"]
  <2>1. rooms[r].phase = "lobby" /\ UNCHANGED <<queue, pending>> /\ rooms' = [rooms EXCEPT ![r] = x]
    BY <1>8 DEF HostStarts, results
  <2>2. x.phase = "loading" /\ Alike(x, rooms[r])
    BY <1>0, RoomUpdates
  <2> HIDE DEF x
  <2> QED
    BY <2>1, <2>2, LobbyMoves DEF Alike
<1>9. ASSUME NEW r \in Rooms, StopSearch(a, r) PROVE RoomsMove
  <2> DEFINE x == [rooms[r] EXCEPT !.auto = FALSE]
  <2>1. rooms[r].phase = "lobby" /\ UNCHANGED <<queue, pending>> /\ rooms' = [rooms EXCEPT ![r] = x]
    BY <1>9 DEF StopSearch, results
  <2>2. x.phase = "lobby" /\ Alike(x, rooms[r])
    BY <1>0, <2>1, RoomUpdates
  <2> HIDE DEF x
  <2> QED
    BY <2>1, <2>2, LobbyMoves DEF Alike
<1> QED
  BY <1>1, <1>2, <1>3, <1>4, <1>5, <1>6, <1>7, <1>8, <1>9

\* A room in play that ends, and the Finish of it.
LEMMA EndsOver ==
  ASSUME TypeInv, NEW r \in Rooms, up, rooms[r].phase \in Playing,
         rooms[r].phase = "over" => ~rooms[r].queued, Publish(r), NEW x,
         x = Over(rooms[r]) \/ (rooms[r].closed /\ x = Removed(Over(rooms[r]))),
         rooms' = [rooms EXCEPT ![r] = x]
  PROVE  RoomsMove
<1>1. rooms'[r] = x /\ rooms[r] \in RoomStates
  BY OneRoomMoves
<1> DEFINE y == Over(rooms[r])
<1>2. /\ y \in RoomStates /\ y.phase = "over" /\ y.ended = TRUE /\ y.queued = CanQueue
      /\ y.told = rooms[r].told /\ y.persisted = rooms[r].persisted /\ y.closed = rooms[r].closed
  BY <1>1, OverRoom
<1>3. x = y \/ (rooms[r].closed /\ x = Removed(y))
  OBVIOUS
<1> HIDE DEF y
<1>4. CASE x = y
  <2>1. Ends(r)
    BY <1>1, <1>2, <1>4 DEF Ends, Turns
  <2> QED
    BY <2>1, OneEnds
<1>5. CASE rooms[r].closed /\ x = Removed(y)
  <2>1. /\ x.phase = "gone" /\ x.ended = y.ended /\ x.told = y.told /\ x.persisted = FALSE
        /\ x.queued = FALSE /\ x.closed = (y.closed /\ y.ended /\ ~y.queued)
    BY <1>2, <1>5, RemovedRoom
  <2>2. ~CanQueue => x.closed
    BY <1>2, <1>5, <2>1
  <2>3. Ends(r)
    BY <1>1, <1>2, <2>1, <2>2 DEF Ends, Turns
  <2> QED
    BY <2>3, OneEnds
<1> QED
  BY <1>3, <1>4, <1>5

\* the steps of a game,
LEMMA GameMoves ==
  ASSUME TypeInv, Game
  PROVE  RoomsMove
<1>1. PICK a \in Accounts, r \in Rooms :
        \/ Attach(a, r) \/ Reconnect(a, r) \/ Disconnect(a, r)
        \/ Ready(a, r) \/ Sail(a, r) \/ Leave(a, r) \/ Slain(a, r)
        \/ \E client \in {"dead", "left", "cleared"} : Fare(a, r, client)
  BY DEF Game
<1>2. rooms \in [Rooms -> RoomStates]
  BY DEF TypeInv, TypeOK, ManagerTypeOK
<1>3. CASE Attach(a, r) \/ Reconnect(a, r) \/ Disconnect(a, r)
  BY <1>3, NoRoomMoves DEF Attach, Reconnect, Disconnect, results
<1>4. CASE Ready(a, r) \/ Sail(a, r)
  <2> DEFINE x == [rooms[r] EXCEPT !.phase = "running"]
  <2>1. /\ rooms[r].phase \in {"loading", "running"} /\ UNCHANGED <<queue, pending>>
        /\ rooms' = rooms \/ rooms' = [rooms EXCEPT ![r] = x]
    BY <1>4 DEF Ready, Sail, results
  <2>2. rooms[r] \in RoomStates
    BY <1>2
  <2>3. x.phase = "running" /\ Alike(x, rooms[r])
    BY <2>2, RoomUpdates
  <2> HIDE DEF x
  <2>4. CASE rooms' = [rooms EXCEPT ![r] = x]
    <3>1. rooms'[r] = x
      BY <2>4, OneRoomMoves
    <3>2. Starts(r)
      BY <2>1, <2>3, <3>1 DEF Starts, Turns, Early, Alike
    <3> QED
      BY <2>1, <2>4, <3>2, OneMoves
  <2> QED
    BY <2>1, <2>4, NoRoomMoves
<1>5. CASE Leave(a, r)
  <2>1. CASE Continue
    BY <2>1, NoRoomMoves DEF Continue
  <2>2. CASE ~Continue
    <3>1. Finish(r) /\ rooms[r].phase \in Playing /\ rooms[r].phase # "over" /\ up
      BY <1>5, <2>2 DEF Leave, Plays, Member, Open
    <3> QED
      BY <3>1, EndsOver DEF Finish
  <2> QED
    BY <2>1, <2>2
<1>6. CASE Slain(a, r) \/ \E client \in {"dead", "left", "cleared"} : Fare(a, r, client)
  <2>1. rooms[r].phase = "running" /\ (Finish(r) \/ Continue) /\ up
    BY <1>6 DEF Slain, Fare, Plays, Member, Open
  <2>2. CASE Finish(r)
    BY <2>1, <2>2, EndsOver DEF Finish, Playing
  <2>3. CASE Continue
    BY <2>3, NoRoomMoves DEF Continue
  <2> QED
    BY <2>1, <2>2, <2>3
<1> QED
  BY <1>1, <1>3, <1>4, <1>5, <1>6

\* the timer of a lobby,
LEMMA LobbyTickMoves ==
  ASSUME TypeInv, NEW r \in Rooms,
         ExpireMatching(r) \/ \E late \in SUBSET Gone(r) : ExpireLobby(r, late)
  PROVE  RoomsMove
<1> DEFINE x == Removed(rooms[r])
<1>1. /\ rooms[r].phase = "lobby" /\ UNCHANGED <<queue, pending>>
      /\ rooms' = rooms \/ rooms' = [rooms EXCEPT ![r] = x]
  BY DEF ExpireMatching, ExpireLobby, results
<1>2. rooms[r] \in RoomStates
  BY DEF TypeInv, TypeOK, ManagerTypeOK
<1>3. /\ x.phase = "gone" /\ x.ended = rooms[r].ended /\ x.told = rooms[r].told
      /\ x.persisted = FALSE /\ x.queued = FALSE
  BY <1>2, RemovedRoom
<1> HIDE DEF x
<1> QED
  BY <1>1, <1>3, NoRoomMoves, LobbyMoves

\* A step that leaves a room that was over and handed its result over.
LEMMA LeavesOver ==
  ASSUME TypeInv, NEW r \in Rooms, rooms[r].phase = "over", rooms[r].queued,
         NEW x, rooms' = [rooms EXCEPT ![r] = x], UNCHANGED <<queue, pending>>,
         x = Removed(rooms[r]) \/ x = [rooms[r] EXCEPT !.phase = "stopped"]
  PROVE  RoomsMove
<1>1. rooms'[r] = x /\ rooms[r] \in RoomStates
  BY OneRoomMoves
<1>2. CASE x = Removed(rooms[r])
  <2>1. /\ x.phase = "gone" /\ x.ended = rooms[r].ended /\ x.told = rooms[r].told
        /\ x.persisted = FALSE /\ x.queued = FALSE
    BY <1>1, <1>2, RemovedRoom
  <2>2. Leaves(r)
    BY <1>1, <2>1 DEF Leaves, Turns
  <2> QED
    BY <2>2, OneMoves
<1>3. CASE x = [rooms[r] EXCEPT !.phase = "stopped"]
  <2>1. x.phase = "stopped" /\ Alike(x, rooms[r])
    BY <1>1, <1>3, RoomUpdates
  <2>2. Leaves(r)
    BY <1>1, <2>1 DEF Leaves, Turns, Alike
  <2> QED
    BY <2>2, OneMoves
<1> QED
  BY <1>2, <1>3

\* A step that leaves a room in play that was not over.
LEMMA StartsNoMore ==
  ASSUME TypeInv, NEW r \in Rooms, rooms[r].phase \in Early,
         NEW x, rooms' = [rooms EXCEPT ![r] = x], UNCHANGED <<queue, pending>>,
         x = Removed(rooms[r]) \/ x = [rooms[r] EXCEPT !.phase = "stopped"]
  PROVE  RoomsMove
<1>1. rooms'[r] = x /\ rooms[r] \in RoomStates
  BY OneRoomMoves
<1>2. CASE x = Removed(rooms[r])
  <2>1. /\ x.phase = "gone" /\ x.ended = rooms[r].ended /\ x.told = rooms[r].told
        /\ x.persisted = FALSE /\ x.queued = FALSE
    BY <1>1, <1>2, RemovedRoom
  <2>2. Starts(r)
    BY <1>1, <2>1 DEF Starts, Turns
  <2> QED
    BY <2>2, OneMoves
<1>3. CASE x = [rooms[r] EXCEPT !.phase = "stopped"]
  <2>1. x.phase = "stopped" /\ Alike(x, rooms[r])
    BY <1>1, <1>3, RoomUpdates
  <2>2. Starts(r)
    BY <1>1, <2>1 DEF Starts, Turns, Alike
  <2> QED
    BY <2>2, OneMoves
<1> QED
  BY <1>2, <1>3

\* an expired session,
LEMMA ExpireMoves ==
  ASSUME TypeInv, ResultsInv, NEW r \in Rooms, NEW late, NEW limit, Expire(r, late, limit)
  PROVE  RoomsMove
<1> DEFINE room == rooms[r]
           kept == room.phase = "over" => room.queued
<1>1. room.phase \in Playing /\ up
  BY DEF Expire
<1>2. room.phase = "over" /\ room.persisted => room.queued
  BY DEF ResultsInv, PhasesKnown
<1>3. \/ /\ Publish(r) /\ (room.phase = "over" => ~room.queued)
         /\ \/ rooms' = [rooms EXCEPT ![r] = Over(room)]
            \/ /\ room.closed \/ Retires(r, limit)
               /\ rooms' = [rooms EXCEPT ![r] = Removed(Over(room))]
      \/ /\ UNCHANGED <<queue, pending>>
         /\ \/ rooms' = [rooms EXCEPT ![r] = room]
            \/ /\ room.phase = "over" => room.queued
               /\ rooms' = [rooms EXCEPT ![r] = Removed(room)]
  BY DEF Expire, Offers
<1>4. Retires(r, limit) => room.phase = "over" /\ room.persisted
  BY DEF Retires
<1>5. CASE /\ Publish(r) /\ (room.phase = "over" => ~room.queued)
           /\ \/ rooms' = [rooms EXCEPT ![r] = Over(room)]
              \/ /\ room.closed
                 /\ rooms' = [rooms EXCEPT ![r] = Removed(Over(room))]
  BY <1>1, <1>5, EndsOver
<1>6. CASE UNCHANGED <<queue, pending>> /\ rooms' = [rooms EXCEPT ![r] = room]
  <2>1. rooms' = rooms
    BY <1>6 DEF TypeInv, TypeOK, ManagerTypeOK
  <2> QED
    BY <1>6, <2>1, NoRoomMoves
<1>7. CASE /\ UNCHANGED <<queue, pending>> /\ (room.phase = "over" => room.queued)
           /\ rooms' = [rooms EXCEPT ![r] = Removed(room)]
  <2>1. CASE room.phase = "over"
    BY <1>7, <2>1, LeavesOver
  <2>2. CASE room.phase \in Early
    BY <1>7, <2>2, StartsNoMore
  <2> QED
    BY <1>1, <2>1, <2>2 DEF Early, Playing
<1> QED
  BY <1>2, <1>3, <1>4, <1>5, <1>6, <1>7

\* and stopping the rooms.
LEMMA StopMoves ==
  ASSUME TypeInv, ResultsInv, NEW r \in Rooms, Stop(r)
  PROVE  RoomsMove
<1>1. rooms[r].phase \in Playing \cup {"lobby"} /\ rooms[r] \in RoomStates
  BY DEF Stop, TypeInv, TypeOK, ManagerTypeOK
<1>2. CASE rooms[r].phase = "over" /\ ~rooms[r].queued
  <2> DEFINE x == [rooms[r] EXCEPT !.phase = "stopped", !.queued = TRUE]
  <2>1. CanQueue /\ Publish(r) /\ rooms' = [rooms EXCEPT ![r] = x]
    BY <1>1, <1>2 DEF Stop, TypeInv, TypeOK, ManagerTypeOK
  <2>2. /\ x.phase = "stopped" /\ x.ended = rooms[r].ended /\ x.told = rooms[r].told
        /\ x.persisted = rooms[r].persisted
    BY <1>1, RoomUpdates
  <2> HIDE DEF x
  <2>3. rooms'[r] = x
    BY <2>1, OneRoomMoves
  <2>4. rooms[r].ended
    BY <1>2 DEF ResultsInv, PhasesKnown
  <2>5. Ends(r)
    BY <1>1, <1>2, <2>1, <2>2, <2>3, <2>4 DEF Ends, Turns
  <2> QED
    BY <2>1, <2>5, OneEnds
<1>3. CASE ~(rooms[r].phase = "over" /\ ~rooms[r].queued)
  <2>1. UNCHANGED <<queue, pending>> /\ rooms' = [rooms EXCEPT ![r].phase = "stopped"]
    BY <1>3 DEF Stop
  <2>2. rooms' = [rooms EXCEPT ![r] = [rooms[r] EXCEPT !.phase = "stopped"]]
    BY <2>1
  <2>3. CASE rooms[r].phase = "over"
    BY <1>3, <2>1, <2>2, <2>3, LeavesOver
  <2>4. CASE rooms[r].phase \in Early
    BY <2>1, <2>2, <2>4, StartsNoMore
  <2> QED
    BY <1>1, <2>3, <2>4 DEF Early, Playing
<1> QED
  BY <1>2, <1>3

\* A step of the rooms: at most one of them hands a result over.
LEMMA RoomingMoves ==
  ASSUME TypeInv, ResultsInv, Rooming
  PROVE  RoomsMove
<1>1. CASE Matching
  BY <1>1, MatchingMoves DEF Matching
<1>2. CASE Game
  BY <1>2, GameMoves
<1>3. CASE Ticks
  BY <1>3, LobbyTickMoves, ExpireMoves, StopMoves DEF Ticks, Limit
<1>4. CASE Close
  BY <1>4, NoRoomMoves DEF Close, results
<1> QED
  BY <1>1, <1>2, <1>3, <1>4 DEF Rooming

-----------------------------------------------------------------------------
(* The results: the rooms *)

\* A room that ends was started, so its members are final.
LEMMA EndsPublish ==
  ASSUME TypeInv, ResultsInv, NEW r \in Rooms, Ends(r), worker' = worker
  PROVE  /\ ~Held(r) /\ rooms[r].persisted = FALSE
         /\ \A q \in Rooms : (Held(q))' <=> Held(q) \/ (q = r /\ CanQueue)
<1>1. ~Held(r)
  BY DEF Ends, Turns, ResultsInv, QueueKnown, PhasesKnown, ResultsKnown, Playing
<1>2. rooms[r].persisted = FALSE
  BY DEF Ends, Turns, ResultsInv, PhasesKnown, ResultsKnown, Playing, TypeInv, TypeOK,
         ManagerTypeOK, RoomStates
<1>3. queue \in Seq(Rooms)
  BY DEF TypeInv, TypeOK, ResultsTypeOK
<1>4. Range(queue') = IF CanQueue THEN Range(queue) \cup {r} ELSE Range(queue)
  BY <1>3, QueueRange DEF Ends, Publish
<1> QED
  BY <1>1, <1>2, <1>4 DEF Held

\* A room that ends joins the queue once.
LEMMA EndsQueue ==
  ASSUME TypeInv, ResultsInv, NEW r \in Rooms, Ends(r), \A q \in Rooms \ {r} : Same(q),
         worker' = worker
  PROVE  QueueKnown'
<1>1. ~Held(r) /\ \A q \in Rooms : (Held(q))' <=> Held(q) \/ (q = r /\ CanQueue)
  BY EndsPublish
<1>2. queue \in Seq(Rooms) /\ Range(queue) = {queue[i] : i \in 1..Len(queue)}
  BY QueueRange DEF TypeInv, TypeOK, ResultsTypeOK
<1>3. \A i \in 1..Len(queue) : queue[i] # r
  BY <1>1, <1>2 DEF Held
<1>4. \A q \in Rooms : (Held(q))' => rooms'[q].phase \in {"gone", "stopped"} \/ rooms'[q].queued
  BY <1>1 DEF ResultsInv, QueueKnown, Same, Alike, Ends, Turns
<1>5. CASE CanQueue
  <2> DEFINE n == Len(queue)
  <2>1. queue' = Append(queue, r) /\ pending' = pending \cup {r}
    BY <1>5 DEF Ends, Publish
  <2>2. n \in Nat /\ Len(queue') = n + 1 /\ queue'[n + 1] = r /\ \A i \in 1..n : queue'[i] = queue[i]
    BY <1>2, <2>1
  <2> HIDE DEF n
  <2>3. \A i \in 1..(n + 1) : i \in 1..n \/ i = n + 1
    BY <2>2
  <2>4. \A i, j \in 1..n : queue[i] = queue[j] => i = j
    BY DEF ResultsInv, QueueKnown, n
  <2>5. \A i \in 1..n : queue[i] \in pending /\ worker.room # queue[i] /\ queue[i] # r
    BY <1>3 DEF ResultsInv, QueueKnown, n
  <2>6. worker.room # r
    BY <1>1 DEF Held
  <2>7. \A i, j \in 1..(n + 1) : queue'[i] = queue'[j] => i = j
    BY <2>2, <2>3, <2>4, <2>5
  <2>8. \A i \in 1..(n + 1) : queue'[i] \in pending' /\ worker'.room # queue'[i]
    BY <2>1, <2>2, <2>3, <2>5, <2>6
  <2> QED
    BY <1>4, <2>2, <2>7, <2>8 DEF QueueKnown
<1>6. CASE ~CanQueue
  <2>1. queue' = queue /\ pending' = pending \ {r}
    BY <1>6 DEF Ends, Publish
  <2> QED
    BY <1>3, <1>4, <2>1 DEF ResultsInv, QueueKnown
<1> QED
  BY <1>5, <1>6

\* The end of a room keeps ResultsInv.
LEMMA EndsResults ==
  ASSUME TypeInv, ResultsInv, NEW r \in Rooms, Ends(r), \A q \in Rooms \ {r} : Same(q),
         UNCHANGED <<setup, store, worker, up, lost>>
  PROVE  ResultsInv'
<1>1. /\ ~Held(r) /\ rooms[r].persisted = FALSE
      /\ \A q \in Rooms : (Held(q))' <=> Held(q) \/ (q = r /\ CanQueue)
  BY EndsPublish
<1>2. QueueKnown'
  BY EndsQueue
<1>3. PhasesKnown'
  BY <1>1 DEF ResultsInv, PhasesKnown, Same, Alike, Ends, Turns
<1>4. ResultsKnown'
  <2>1. r \notin lost
    BY DEF ResultsInv, ResultsKnown, Ends, Turns, Playing
  <2>2. Durable' = Durable
    BY DEF Durable
  <2>3. ASSUME NEW q \in Rooms
        PROVE  /\ q \in Durable' \/ (Held(q))' \/ q \in lost' => rooms'[q].ended
               /\ q \in lost' => rooms'[q].phase = "gone"
               /\ rooms'[q].persisted => q \in Durable'
    <3>1. CASE q = r
      BY <1>1, <2>1, <2>2, <3>1 DEF Ends, Turns
    <3>2. CASE q # r
      BY <1>1, <2>2, <3>2 DEF ResultsInv, ResultsKnown, Same, Alike
    <3> QED
      BY <3>1, <3>2
  <2> QED
    BY <2>3 DEF ResultsKnown
<1>5. WorkerKnown' /\ StoreKnown'
  <2>1. worker.step # "idle" => worker.room \in pending' \cup Durable
    BY <1>1 DEF ResultsInv, WorkerKnown, Ends, Publish, Held
  <2> QED
    BY <2>1 DEF ResultsInv, WorkerKnown, StoreKnown, Durable, Kind
<1>6. EndsAreDurable'
  <2>1. \A q \in Rooms : rooms'[q].told => rooms[q].told
    BY DEF Same, Alike, Ends, Turns
  <2> QED
    BY <2>1 DEF ResultsInv, EndsAreDurable
<1>7. NothingLost'
  <2>1. \A q \in Rooms : (Held(q))' => (InFlight(q))'
    BY DEF InFlight, Held
  <2>2. Durable' = Durable
    BY DEF Durable
  <2>3. (InFlight(r))' \/ (Dropped(r))'
    <3>1. CASE CanQueue
      BY <1>1, <2>1, <3>1
    <3>2. CASE ~CanQueue
      BY <3>2 DEF Ends, Turns, InFlight, Dropped
    <3> QED
      BY <3>1, <3>2
  <2>4. ASSUME NEW q \in Rooms, q # r, rooms'[q].ended
        PROVE  q \in Durable \cup lost \/ (InFlight(q))' \/ (Dropped(q))'
    <3>1. rooms[q].ended /\ Same(q)
      BY <2>4 DEF Same, Alike
    <3>2. InFlight(q) => (InFlight(q))'
      BY <1>1, <2>1, <3>1 DEF InFlight, Held, Same, Alike
    <3>3. Dropped(q) => (Dropped(q))'
      BY <3>1 DEF Dropped, Same
    <3> QED
      BY <3>1, <3>2, <3>3 DEF ResultsInv, NothingLost
  <2> QED
    BY <2>2, <2>3, <2>4 DEF NothingLost
<1> QED
  BY <1>2, <1>3, <1>4, <1>5, <1>6, <1>7 DEF ResultsInv

\* The other kinds of change keep ResultsInv.
LEMMA MovesResults ==
  ASSUME TypeInv, ResultsInv, UNCHANGED <<queue, pending>>,
         \A r \in Rooms : Same(r) \/ Starts(r) \/ Leaves(r),
         UNCHANGED <<setup, store, worker, up, lost>>
  PROVE  ResultsInv'
<1>1. \A q \in Rooms : (Held(q))' <=> Held(q)
  BY DEF Held
<1>2. Durable' = Durable
  BY DEF Durable
<1>3. \A q \in Rooms : Starts(q) => /\ ~rooms[q].ended /\ ~rooms'[q].ended /\ q \notin Durable
                                    /\ ~Held(q) /\ q \notin lost
  BY DEF Starts, Turns, Early, ResultsInv, PhasesKnown, ResultsKnown
<1>4. QueueKnown'
  <2>1. \A q \in Rooms : (Held(q))' => rooms'[q].phase \in {"gone", "stopped"} \/ rooms'[q].queued
    BY <1>1, <1>3 DEF ResultsInv, QueueKnown, Same, Alike, Leaves, Turns
  <2> QED
    BY <2>1 DEF ResultsInv, QueueKnown
<1>5. PhasesKnown'
  <2>1. ASSUME NEW q \in Rooms
        PROVE  /\ rooms'[q].phase \in {"free", "lobby", "loading", "running"} => ~rooms'[q].ended
               /\ rooms'[q].phase = "over" =>
                    rooms'[q].ended /\ (rooms'[q].persisted => rooms'[q].queued)
               /\ rooms'[q].phase = "gone" => ~rooms'[q].queued
    <3>1. CASE Same(q)
      BY <3>1 DEF ResultsInv, PhasesKnown, Same, Alike
    <3>2. CASE Starts(q)
      BY <1>3, <3>2 DEF Starts, Turns, Early
    <3>3. CASE Leaves(q)
      BY <3>3 DEF Leaves, Turns
    <3> QED
      BY <3>1, <3>2, <3>3
  <2> QED
    BY <2>1 DEF PhasesKnown
<1>6. ResultsKnown'
  <2>1. ASSUME NEW q \in Rooms
        PROVE  /\ q \in Durable' \/ (Held(q))' \/ q \in lost' => rooms'[q].ended
               /\ q \in lost' => rooms'[q].phase = "gone"
               /\ rooms'[q].persisted => q \in Durable'
    <3>1. CASE Same(q)
      BY <1>1, <1>2, <3>1 DEF ResultsInv, ResultsKnown, Same, Alike
    <3>2. CASE Starts(q)
      BY <1>1, <1>2, <1>3, <3>2 DEF ResultsInv, ResultsKnown, Starts, Turns
    <3>3. CASE Leaves(q)
      BY <1>1, <1>2, <3>3 DEF ResultsInv, ResultsKnown, Leaves, Turns
    <3> QED
      BY <3>1, <3>2, <3>3
  <2> QED
    BY <2>1 DEF ResultsKnown
<1>7. WorkerKnown' /\ StoreKnown'
  BY DEF ResultsInv, WorkerKnown, StoreKnown, Durable, Kind
<1>8. EndsAreDurable'
  <2>1. \A q \in Rooms : rooms'[q].told => rooms[q].told
    BY DEF Same, Alike, Starts, Leaves, Turns
  <2> QED
    BY <2>1 DEF ResultsInv, EndsAreDurable
<1>9. NothingLost'
  <2>1. ASSUME NEW q \in Rooms, rooms'[q].ended
        PROVE  q \in Durable \cup lost \/ (InFlight(q))' \/ (Dropped(q))'
    <3>1. CASE Same(q)
      <4>1. (InFlight(q) => (InFlight(q))') /\ (Dropped(q) => (Dropped(q))') /\ rooms[q].ended
        BY <2>1, <3>1 DEF Same, Alike, InFlight, Dropped
      <4> QED
        BY <4>1 DEF ResultsInv, NothingLost
    <3>2. CASE Starts(q)
      BY <1>3, <2>1, <3>2
    <3>3. CASE Leaves(q)
      <4>1. rooms[q].ended /\ ~Dropped(q) /\ (InFlight(q) => (InFlight(q))')
        BY <2>1, <3>3 DEF Leaves, Turns, InFlight, Dropped
      <4> QED
        BY <4>1 DEF ResultsInv, NothingLost
    <3> QED
      BY <3>1, <3>2, <3>3
  <2> QED
    BY <1>2, <2>1 DEF NothingLost
<1> QED
  BY <1>4, <1>5, <1>6, <1>7, <1>8, <1>9 DEF ResultsInv

\* Every step of the manager keeps ResultsInv.
LEMMA RoomingResults ==
  ASSUME TypeInv, ResultsInv, Rooming, UNCHANGED <<setup, playVars>>
  PROVE  ResultsInv'
<1>1. UNCHANGED <<setup, store, worker, lost>>
  BY RoomingFrame DEF unheld, playVars
<1>2. up' = up
  BY RoomingFrame
<1> QED
  BY <1>1, <1>2, RoomingMoves, EndsResults, MovesResults DEF RoomsMove

-----------------------------------------------------------------------------
(* The results: commands, deliveries and the process *)

\* A step that leaves the rooms and the worker alone.
LEMMA DurableStays ==
  ASSUME ResultsInv, StoreOK(store'), Durable' = Durable, up => up',
         store.ready \cup store.retired \subseteq store'.ready \cup store'.retired,
         store.ranked \subseteq store'.ranked,
         UNCHANGED <<setup, rooms, queue, pending, worker, lost>>
  PROVE  ResultsInv'
<1>1. \A q \in Rooms : (Held(q))' <=> Held(q)
  BY DEF Held
<1>2. PhasesKnown' /\ EndsAreDurable' /\ QueueKnown' /\ ResultsKnown'
  BY <1>1 DEF ResultsInv, PhasesKnown, EndsAreDurable, QueueKnown, ResultsKnown
<1>3. WorkerKnown'
  BY DEF ResultsInv, WorkerKnown, Kind
<1>4. StoreKnown'
  BY DEF StoreKnown, StoreOK, Kind
<1>5. NothingLost'
  BY DEF ResultsInv, NothingLost, InFlight, Dropped
<1> QED
  BY <1>2, <1>3, <1>4, <1>5 DEF ResultsInv

\* A claim leaves the order of the store as it was.
LEMMA ClaimRanks ==
  ASSUME NEW s \in Stores, NEW a, NEW r
  PROVE  ClaimIn(s, a, r).ranked = s.ranked
BY DEF ClaimIn, Settle, Stores

\* The steps of a delivery keep ResultsInv.
LEMMA DeliveryResults ==
  ASSUME TypeInv, ResultsInv, setup' = setup, NEW a \in Accounts, Delivers(a)
  PROVE  ResultsInv'
<1>1. store \in Stores /\ StoreOK(store) /\ PlayTypeOK
  BY KnownStore, TypeParts DEF TypeInv, TypeOK, ResultsTypeOK, ResultsInv
<1>2. CASE Record(a)
  <2>1. /\ UNCHANGED <<setup, rooms, queue, pending, worker, lost, up>>
        /\ \E r : store' = AcceptIn(store, a, r)
    BY <1>2 DEF Record, roomVars, process
  <2>2. /\ store'.saved = store.saved /\ store'.ready = store.ready
        /\ store'.retired = store.retired /\ store'.ranked = store.ranked
    BY <1>1, <2>1 DEF AcceptIn, Stores
  <2>3. StoreOK(store') /\ Durable' = Durable
    BY <1>1, <2>2 DEF StoreOK, Durable
  <2> QED
    BY <2>1, <2>2, <2>3, DurableStays
<1>3. CASE Accept(a)
  <2>1. UNCHANGED <<setup, rooms, queue, pending, worker, lost, up, store>>
    BY <1>3 DEF Accept, resultVars
  <2> QED
    BY <1>1, <2>1, DurableStays DEF Durable
<1>4. CASE Claim(a)
  <2> DEFINE r == Head(events[a])[2]
  <2>1. /\ UNCHANGED <<setup, rooms, queue, pending, worker, lost, up>>
        /\ r \in Rooms /\ store' = ClaimIn(store, a, r)
    BY <1>1, <1>4, HeadRoom DEF Claim, roomVars, process
  <2>2. /\ StoreOK(store') /\ store'.saved \cup store'.retired = store.saved \cup store.retired
        /\ store.ready \cup store.retired \subseteq store'.ready \cup store'.retired
        /\ store'.ranked = store.ranked
    BY <1>1, <2>1, ClaimKeeps, ClaimRanks
  <2> QED
    BY <2>1, <2>2, DurableStays DEF Durable
<1> QED
  BY <1>2, <1>3, <1>4 DEF Delivers

\* What recoverResults does to the store.
LEMMA RecoverKeeps ==
  ASSUME TypeInv, ResultsInv, NEW r \in Rooms, RecoverResult(r)
  PROVE  /\ StoreOK(store') /\ Keeps(store, store', r)
         /\ store'.saved \cup store'.retired = store.saved \cup store.retired
<1> DEFINE s == RankIn(store, r)
<1>1. store \in Stores /\ StoreOK(store) /\ r \in store.saved /\ store' = ReadyIn(s, r)
  BY KnownStore DEF RecoverResult, TypeInv, TypeOK, ResultsTypeOK, ResultsInv
<1>2. /\ StoreOK(s) /\ s.saved = store.saved /\ s.retired = store.retired /\ s.ready = store.ready
      /\ s.claims = store.claims /\ s.runs = store.runs /\ store.ranked \subseteq s.ranked
      /\ Kind = "action" => r \in s.ranked
  BY <1>1, RankKeeps DEF Keeps
<1>3. s \in Stores
  BY <1>1 DEF RankIn, Stores
<1> HIDE DEF s
<1>4. /\ StoreOK(store') /\ Keeps(s, store', r)
      /\ store'.saved \cup store'.retired = s.saved \cup s.retired
  BY <1>1, <1>2, <1>3, ReadyKeeps
<1> QED
  BY <1>2, <1>4 DEF Keeps

\* A start of the process keeps ResultsInv.
LEMMA BeginsResults ==
  ASSUME TypeInv, ResultsInv, setup' = setup, Begins
  PROVE  ResultsInv'
<1>1. CASE Restart
  <2>1. UNCHANGED <<setup, rooms, queue, pending, worker, lost, store>> /\ up'
    BY <1>1 DEF Restart, resultVars, playVars
  <2>2. StoreOK(store)
    BY KnownStore DEF ResultsInv
  <2> QED
    BY <2>1, <2>2, DurableStays DEF Durable
<1>2. ASSUME NEW r \in Rooms, Recover(r) PROVE ResultsInv'
  <2>1. /\ UNCHANGED <<setup, rooms, queue, pending, worker, lost, up>> /\ RecoverResult(r)
    BY <1>2 DEF Recover, RecoverResult, roomVars, process, playVars
  <2>2. /\ StoreOK(store') /\ Keeps(store, store', r)
        /\ store'.saved \cup store'.retired = store.saved \cup store.retired
    BY <2>1, RecoverKeeps
  <2> QED
    BY <2>1, <2>2, DurableStays DEF Durable, Keeps
<1> QED
  BY <1>1, <1>2 DEF Begins

\* What is left of the rooms when the process ends.
LEMMA HaltedRooms ==
  ASSUME TypeInv, ResultsInv, Halt
  PROVE  \A r \in Rooms :
           /\ rooms'[r].ended = rooms[r].ended /\ (rooms'[r].told => rooms[r].told)
           /\ rooms'[r].persisted = FALSE /\ rooms'[r].queued = FALSE
           /\ rooms[r].phase = "free" => rooms'[r].phase = "free" /\ ~rooms[r].ended
           /\ rooms[r].phase # "free" => rooms'[r].phase = "gone"
           /\ rooms[r].phase = "gone" /\ rooms[r].ended /\ rooms[r].closed => rooms'[r].closed
<1>1. SUFFICES ASSUME NEW r \in Rooms
      PROVE  /\ rooms'[r].ended = rooms[r].ended /\ (rooms'[r].told => rooms[r].told)
             /\ rooms'[r].persisted = FALSE /\ rooms'[r].queued = FALSE
             /\ rooms[r].phase = "free" => rooms'[r].phase = "free" /\ ~rooms[r].ended
             /\ rooms[r].phase # "free" => rooms'[r].phase = "gone"
             /\ rooms[r].phase = "gone" /\ rooms[r].ended /\ rooms[r].closed => rooms'[r].closed
  OBVIOUS
<1>2. rooms[r] \in RoomStates
  BY DEF TypeInv, TypeOK, ManagerTypeOK
<1>3. rooms'[r] = IF rooms[r].phase = "free" THEN NoRoom ELSE Removed(rooms[r])
  BY DEF Halt
<1>4. CASE rooms[r].phase = "free"
  <2>1. ~rooms[r].ended
    BY <1>4 DEF ResultsInv, PhasesKnown
  <2>2. rooms[r].ended = FALSE
    BY <1>2, <2>1 DEF RoomStates
  <2>3. rooms'[r] = NoRoom
    BY <1>3, <1>4
  <2>4. /\ NoRoom.ended = FALSE /\ NoRoom.told = FALSE /\ NoRoom.persisted = FALSE
        /\ NoRoom.queued = FALSE /\ NoRoom.phase = "free"
    BY DEF NoRoom
  <2>5. rooms'[r].ended = rooms[r].ended
    BY <2>2, <2>3, <2>4
  <2> QED
    BY <1>4, <2>1, <2>3, <2>4, <2>5
<1>5. CASE rooms[r].phase # "free"
  <2>1. rooms'[r] = Removed(rooms[r])
    BY <1>3, <1>5
  <2>2. rooms[r].phase = "gone" => ~rooms[r].queued
    BY DEF ResultsInv, PhasesKnown
  <2> QED
    BY <1>2, <1>5, <2>1, <2>2, RemovedRoom
<1> QED
  BY <1>4, <1>5

\* A stop of the process keeps ResultsInv.
LEMMA QuitResults ==
  ASSUME TypeInv, ResultsInv, setup' = setup, Crash \/ Exit
  PROVE  ResultsInv'
<1>1. /\ Halt /\ UNCHANGED <<setup, store>> /\ ~up' /\ queue' = << >> /\ worker' = Idle
  BY DEF Crash, Exit, Quit, Halt
<1>2. \A r \in Rooms : ~(Held(r))'
  <2>1. Range(queue') = {}
    BY <1>1 DEF Range
  <2> QED
    BY <1>1, <2>1, RoomAssumption DEF Held, Idle
<1>3. Durable' = Durable
  BY <1>1 DEF Durable
<1>4. PhasesKnown'
  BY <1>1, HaltedRooms DEF PhasesKnown
<1>5. \A r \in Rooms : r \in lost' => rooms[r].ended /\ rooms'[r].phase = "gone"
  <2>1. \A r \in Rooms : r \in lost' => rooms[r].ended
    BY DEF Crash, Exit, ResultsInv, ResultsKnown
  <2> QED
    BY <1>1, <2>1, HaltedRooms
<1>6. ResultsKnown'
  <2>1. ASSUME NEW r \in Rooms
        PROVE  /\ r \in Durable' \/ (Held(r))' \/ r \in lost' => rooms'[r].ended
               /\ r \in lost' => rooms'[r].phase = "gone"
               /\ rooms'[r].persisted => r \in Durable'
    <3>1. r \in Durable' \/ (Held(r))' \/ r \in lost' => rooms[r].ended
      BY <1>2, <1>3, <1>5 DEF ResultsInv, ResultsKnown
    <3>2. rooms'[r].ended = rooms[r].ended /\ rooms'[r].persisted = FALSE
      BY <1>1, HaltedRooms
    <3> QED
      BY <1>5, <3>1, <3>2
  <2> QED
    BY <2>1 DEF ResultsKnown
<1>7. QueueKnown'
  <2>1. Len(queue') = 0
    BY <1>1
  <2>2. 1..0 = {}
    OBVIOUS
  <2> QED
    BY <1>2, <2>1, <2>2 DEF QueueKnown
<1>8. WorkerKnown' /\ StoreKnown'
  BY <1>1 DEF ResultsInv, WorkerKnown, StoreKnown, Kind, Idle
<1>9. EndsAreDurable'
  BY <1>1, HaltedRooms DEF ResultsInv, EndsAreDurable
<1>10. NothingLost'
  <2>1. ASSUME NEW r \in Rooms, rooms[r].ended
        PROVE  r \in Durable \cup lost' \/ (Dropped(r))'
    <3>1. CASE Crash
      BY <2>1, <3>1 DEF Crash
    <3>2. CASE Exit
      <4>1. Drained /\ lost' = lost
        BY <3>2 DEF Exit
      <4>2. ~InFlight(r)
        <5>1. Range(queue) = {} /\ worker.room = None
          BY <4>1 DEF Drained, Range, Idle
        <5>2. rooms[r].phase # "over"
          BY <4>1 DEF Drained
        <5> QED
          BY <5>1, <5>2, RoomAssumption DEF InFlight
      <4>3. Dropped(r) => (Dropped(r))'
        BY <1>1, <2>1, HaltedRooms DEF Dropped
      <4> QED
        BY <2>1, <4>1, <4>2, <4>3 DEF ResultsInv, NothingLost
    <3> QED
      BY <3>1, <3>2
  <2>2. \A r \in Rooms : rooms'[r].ended = rooms[r].ended
    BY <1>1, HaltedRooms
  <2> QED
    BY <1>3, <2>1, <2>2 DEF NothingLost
<1> QED
  BY <1>4, <1>6, <1>7, <1>8, <1>9, <1>10 DEF ResultsInv

\* Every step keeps ResultsInv.
LEMMA ResultsStep ==
  ASSUME TypeInv, ResultsInv, [Next]_vars
  PROVE  ResultsInv'
<1>1. StoreOK(store)
  BY KnownStore DEF ResultsInv
<1>2. CASE UNCHANGED vars
  <2>1. UNCHANGED <<setup, rooms, queue, pending, worker, lost, store, up>>
    BY <1>2 DEF vars, resultVars, roomVars, process, playVars
  <2> QED
    BY <1>1, <2>1, DurableStays DEF Durable
<1>3. CASE Next
  <2>1. setup' = setup
    BY <1>3 DEF Next
  <2>2. CASE Rooming /\ UNCHANGED playVars
    BY <2>1, <2>2, RoomingResults
  <2>3. CASE (Worker \/ Defer) /\ UNCHANGED <<roomVars, playVars>>
    BY <2>1, <2>3, TakeResults, TransactionResults, DeferResults DEF Worker
  <2>4. CASE Acknowledge /\ UNCHANGED playVars
    BY <2>1, <2>4, AcknowledgeResults
  <2>5. CASE Commands
    <3>1. UNCHANGED <<rooms, queue, pending, worker, lost, store, up>>
      BY <2>5, CommandSteps DEF TypeInv, roomVars, process
    <3> QED
      BY <1>1, <2>1, <3>1, DurableStays DEF Durable
  <2>6. CASE \E a \in Accounts : Delivers(a)
    BY <2>1, <2>6, DeliveryResults
  <2>7. CASE Crash \/ Exit \/ Begins
    BY <2>1, <2>7, QuitResults, BeginsResults
  <2> QED
    BY <1>3, <2>2, <2>3, <2>4, <2>5, <2>6, <2>7 DEF Next, Persists
<1> QED
  BY <1>2, <1>3

\* The first state has ResultsInv.
LEMMA ResultsStart == Init => ResultsInv
<1>1. SUFFICES ASSUME Init PROVE ResultsInv
  OBVIOUS
<1>2. /\ rooms = [r \in Rooms |-> NoRoom] /\ queue = << >> /\ worker = Idle
      /\ store = EmptyStore /\ lost = {}
  BY <1>1 DEF Init, ResultsInit, ManagerInit
<1>3. Range(queue) = {} /\ Len(queue) = 0 /\ 1..0 = {}
  BY <1>2 DEF Range
<1>4. \A r \in Rooms : ~Held(r)
  BY <1>2, <1>3, RoomAssumption DEF Held, Idle
<1>5. PhasesKnown /\ EndsAreDurable /\ NothingLost
  BY <1>2 DEF PhasesKnown, EndsAreDurable, NothingLost, NoRoom
<1>6. ResultsKnown /\ StoreKnown
  BY <1>2, <1>4 DEF ResultsKnown, StoreKnown, Durable, EmptyStore, NoRoom
<1>7. QueueKnown /\ WorkerKnown
  BY <1>2, <1>3, <1>4 DEF QueueKnown, WorkerKnown, Idle
<1> QED
  BY <1>5, <1>6, <1>7 DEF ResultsInv

-----------------------------------------------------------------------------
(* The deliveries: lists of events *)

Events == Topics \X Rooms

\* The list that stays when the first event is gone.
LEMMA TailEvents ==
  ASSUME NEW s \in Seq(Events), s # << >>
  PROVE  LET t == Tail(s) IN
         /\ t \in Seq(Events) /\ Len(s) \in Nat /\ Len(t) = Len(s) - 1 /\ Head(s) = s[1]
         /\ 1 \in 1..Len(s)
         /\ \A i \in 1..Len(t) : i + 1 \in 1..Len(s) /\ t[i] = s[i + 1]
         /\ \A x : x \in Range(s) <=> x = Head(s) \/ x \in Range(t)
<1> DEFINE t == Tail(s)  n == Len(s)
<1>1. t \in Seq(Events) /\ Len(t) = n - 1 /\ n \in Nat \ {0} /\ Head(s) = s[1]
  OBVIOUS
<1>2. \A i \in 1..(n - 1) : t[i] = s[i + 1]
  OBVIOUS
<1> HIDE DEF t
<1>0. \A p \in Seq(Events) : Range(p) = {p[i] : i \in 1..Len(p)}
  BY DEF Range
<1>3. Range(s) = {s[i] : i \in 1..n} /\ Range(t) = {t[i] : i \in 1..(n - 1)}
  BY <1>0, <1>1
<1> HIDE DEF t, n
<1>4. \A i \in 1..(n - 1) : i + 1 \in 1..n
  BY <1>1
<1>5. 1 \in 1..n
  BY <1>1
<1>6. \A i \in 1..n : i = 1 \/ (i - 1 \in 1..(n - 1) /\ (i - 1) + 1 = i)
  BY <1>1
<1>7. ASSUME NEW x PROVE x \in Range(s) <=> x = Head(s) \/ x \in Range(t)
  <2>1. x \in Range(s) => x = Head(s) \/ x \in Range(t)
    <3>1. ASSUME NEW i \in 1..n, x = s[i], i # 1 PROVE x \in Range(t)
      <4>1. i - 1 \in 1..(n - 1) /\ (i - 1) + 1 = i
        BY <1>6, <3>1
      <4>2. t[i - 1] = x
        BY <1>2, <3>1, <4>1
      <4> QED
        BY <1>3, <4>1, <4>2
    <3> QED
      BY <1>1, <1>3, <3>1
  <2>2. x = Head(s) => x \in Range(s)
    BY <1>1, <1>3, <1>5
  <2>3. x \in Range(t) => x \in Range(s)
    BY <1>2, <1>3, <1>4
  <2> QED
    BY <2>1, <2>2, <2>3
<1> QED
  BY <1>1, <1>2, <1>4, <1>5, <1>7 DEF t, n

\* The list when others are added.
LEMMA MoreEvents ==
  ASSUME NEW s \in Seq(Events), NEW t \in Seq(Events)
  PROVE  LET u == s \o t  n == Len(s)  m == Len(t) IN
         /\ u \in Seq(Events) /\ n \in Nat /\ m \in Nat /\ Len(u) = n + m
         /\ \A i \in 1..n : i \in 1..Len(u) /\ u[i] = s[i]
         /\ \A i \in 1..Len(u) : i \in 1..n \/ (i > n /\ i - n \in 1..m /\ u[i] = t[i - n])
         /\ \A x : x \in Range(u) <=> x \in Range(s) \/ x \in Range(t)
<1> DEFINE u == s \o t  n == Len(s)  m == Len(t)
<1>1. u \in Seq(Events) /\ n \in Nat /\ m \in Nat /\ Len(u) = n + m
  BY ConcatProperties
<1>2. \A i \in 1..(n + m) : u[i] = IF i <= n THEN s[i] ELSE t[i - n]
  BY ConcatProperties
<1>3. /\ Range(s) = {s[i] : i \in 1..n} /\ Range(t) = {t[i] : i \in 1..m}
      /\ Range(u) = {u[i] : i \in 1..(n + m)}
  BY <1>1 DEF Range
<1> HIDE DEF u, n, m
<1>4. \A i \in 1..n : i \in 1..(n + m) /\ i <= n
  BY <1>1
<1>5. \A i \in 1..m : i + n \in 1..(n + m) /\ ~(i + n <= n) /\ (i + n) - n = i
  BY <1>1
<1>6. \A i \in 1..(n + m) : i \in 1..n \/ (i > n /\ ~(i <= n) /\ i - n \in 1..m)
  BY <1>1
<1>7. \A i \in 1..n : u[i] = s[i]
  BY <1>2, <1>4
<1>8. \A i \in 1..(n + m) : i \in 1..n \/ (i > n /\ i - n \in 1..m /\ u[i] = t[i - n])
  BY <1>2, <1>6
<1>9. ASSUME NEW x PROVE x \in Range(u) <=> x \in Range(s) \/ x \in Range(t)
  <2>1. x \in Range(s) => x \in Range(u)
    BY <1>3, <1>4, <1>7
  <2>2. x \in Range(t) => x \in Range(u)
    <3>1. ASSUME NEW i \in 1..m, x = t[i] PROVE x \in Range(u)
      <4>1. i + n \in 1..(n + m) /\ u[i + n] = t[(i + n) - n]
        BY <1>2, <1>5
      <4>2. u[i + n] = x
        BY <1>5, <3>1, <4>1
      <4> QED
        BY <1>3, <4>1, <4>2
    <3> QED
      BY <1>3, <3>1
  <2>3. x \in Range(u) => x \in Range(s) \/ x \in Range(t)
    BY <1>3, <1>7, <1>8
  <2> QED
    BY <2>1, <2>2, <2>3
<1> QED
  BY <1>1, <1>4, <1>7, <1>8, <1>9 DEF u, n, m

\* What the lists of events hold, place by place.
LEMMA EventLists ==
  ASSUME TypeInv
  PROVE  /\ published \subseteq Topics \X Accounts \X Rooms
         /\ \A a \in Accounts :
              /\ events[a] \in Seq(Events) /\ Len(events[a]) \in Nat
              /\ \A x : x \in Range(events[a]) <=> \E i \in 1..Len(events[a]) : x = events[a][i]
              /\ \A i \in 1..Len(events[a]) :
                   /\ events[a][i] \in Events /\ events[a][i] \in Range(events[a])
                   /\ events[a][i][1] \in Topics /\ events[a][i][2] \in Rooms
                   /\ events[a][i] = <<events[a][i][1], events[a][i][2]>>
<1>1. published \subseteq Topics \X Accounts \X Rooms /\ events \in [Accounts -> Seq(Events)]
  BY DEF TypeInv, TypeOK, Events
<1>2. ASSUME NEW a \in Accounts
      PROVE  /\ events[a] \in Seq(Events) /\ Len(events[a]) \in Nat
             /\ Range(events[a]) = {events[a][i] : i \in 1..Len(events[a])}
             /\ \A i \in 1..Len(events[a]) : events[a][i] \in Events
  <2>1. events[a] \in Seq(Events)
    BY <1>1
  <2> QED
    BY <2>1 DEF Range
<1>3. \A e \in Events : e[1] \in Topics /\ e[2] \in Rooms /\ e = <<e[1], e[2]>>
  BY DEF Events
<1> QED
  BY <1>1, <1>2, <1>3

-----------------------------------------------------------------------------
(* The deliveries: rooms, worker and process *)

\* Rooms that have started keep their members; no event is published.
LEMMA StoreDelivery ==
  ASSUME TypeInv, DeliveryInv, NEW q, Keeps(store, store', q),
         UNCHANGED <<setup, published, events, run, applied>>,
         \A a \in Accounts : prepared'[a] = "result" => prepared[a] = "result",
         \A r \in Rooms : r \in store'.retired => members'[r] = members[r],
         MembersKnown'
  PROVE  DeliveryInv'
<1>1. EventsKnown'
  BY DEF DeliveryInv, EventsKnown
<1>2. \A r \in Rooms : r \in Durable => r \in Durable'
  BY DEF Keeps, Durable
<1>3. \A a \in Accounts, r \in Rooms :
        <<a, r>> \in store.runs => <<a, r>> \in store'.runs \/ r \in Durable'
  BY DEF Keeps, Durable
<1>4. \A a \in Accounts, r \in Rooms : (Unclaimed(a, r))' <=> Unclaimed(a, r)
  BY DEF Unclaimed
<1>5. ClaimsKnown'
  <2>1. ASSUME NEW a \in Accounts, NEW r \in Rooms
        PROVE  /\ <<a, r>> \in store'.claims => ~Unclaimed(a, r)
               /\ r \in store'.retired /\ a \in In(r) => ~Unclaimed(a, r)
               /\ <<"accepted", a, r>> \in published /\ Unclaimed(a, r) =>
                    \/ r \in Durable' \/ <<a, r>> \in store'.runs
                    \/ <<"accepted", r>> \in Range(events[a])
    <3>1. <<a, r>> \in store'.claims => <<a, r>> \in store.claims
      BY DEF Keeps
    <3>2. r \in store'.retired /\ a \in In(r) => r \in store.retired \/ <<a, r>> \in store.claims
      BY DEF Keeps
    <3> QED
      BY <1>2, <1>3, <3>1, <3>2 DEF DeliveryInv, ClaimsKnown
  <2>2. \A a \in Accounts, r \in Rooms : r \in store'.retired /\ a \in (In(r))' => a \in In(r)
    BY DEF In
  <2>3. ASSUME NEW a \in Accounts, NEW r \in Rooms
        PROVE  /\ <<"claimed", a, r>> \in published => <<"accepted", a, r>> \in published
               /\ run[a] = r => <<"accepted", a, r>> \in published
    BY DEF DeliveryInv, ClaimsKnown
  <2> QED
    BY <1>4, <2>1, <2>2, <2>3 DEF ClaimsKnown
<1>6. AppliedKnown'
  <2>1. ASSUME NEW a \in Accounts, applied[a]
        PROVE  /\ Head(events[a])[1] = "accepted"
               /\ Unclaimed(a, Head(events[a])[2]) =>
                    Head(events[a])[2] \in Durable' \/ <<a, Head(events[a])[2]>> \in store'.runs
    <3>1. Head(events[a])[2] \in Rooms
      BY <2>1, HeadRoom, TypeParts DEF TypeInv, HandsKnown
    <3> QED
      BY <1>2, <1>3, <2>1, <3>1 DEF DeliveryInv, AppliedKnown
  <2>2. \A a \in Accounts : applied[a] => ((Unclaimed(a, Head(events[a])[2]))' <=> Unclaimed(a, Head(events[a])[2]))
    BY DEF Unclaimed
  <2> QED
    BY <2>1, <2>2 DEF AppliedKnown
<1>7. EndsKnown'
  BY DEF DeliveryInv, EndsKnown, Keeps, Kind
<1> QED
  BY <1>1, <1>5, <1>6, <1>7 DEF DeliveryInv

\* Only a room that gathers changes its list of members.
LEMMA RoomingLists ==
  ASSUME TypeInv, Rooming
  PROVE  \A r \in Rooms : rooms[r].phase \notin {"free", "lobby"} => members'[r] = members[r]
<1>1. members \in [Rooms -> Seq(Accounts)]
  BY DEF TypeInv, TypeOK, ResultsTypeOK
<1>2. ASSUME NEW q \in Rooms, rooms[q].phase \in {"free", "lobby"}, NEW x, members' = [members EXCEPT ![q] = x]
      PROVE  \A r \in Rooms : rooms[r].phase \notin {"free", "lobby"} => members'[r] = members[r]
  BY <1>1, <1>2
<1>3. CASE Matching
  <2>1. PICK a \in Accounts :
          \/ Search(a) \/ Move(a) \/ CloseOld(a) \/ Rematch(a)
          \/ \E r \in Rooms :
               \/ \E auto \in BOOLEAN : Create(a, r, auto)
               \/ Join(a, r) \/ LeaveMatching(a, r) \/ HostStarts(a, r) \/ StopSearch(a, r)
    BY <1>3 DEF Matching
  <2>2. CASE Search(a) \/ CloseOld(a) \/ Rematch(a)
    BY <2>2 DEF Search, CloseOld, Rematch
  <2>3. CASE Move(a)
    <3>1. moving[a].to \in Rooms
      BY <2>3 DEF Move, Moves, Still, TypeInv, TypeOK, ManagerTypeOK
    <3> QED
      BY <1>2, <2>3, <3>1 DEF Move, Enter, Admits
  <2>4. ASSUME NEW r \in Rooms, NEW auto \in BOOLEAN, Create(a, r, auto)
        PROVE  \A q \in Rooms : rooms[q].phase \notin {"free", "lobby"} => members'[q] = members[q]
    BY <1>2, <2>4 DEF Create
  <2>5. ASSUME NEW r \in Rooms, Join(a, r) \/ LeaveMatching(a, r) \/ HostStarts(a, r) \/ StopSearch(a, r)
        PROVE  \A q \in Rooms : rooms[q].phase \notin {"free", "lobby"} => members'[q] = members[q]
    BY <1>2, <2>5 DEF Join, Enter, Admits, LeaveMatching, HostStarts, StopSearch
  <2> QED
    BY <2>1, <2>2, <2>3, <2>4, <2>5
<1>4. CASE Game
  <2>1. PICK a \in Accounts, r \in Rooms :
          \/ Attach(a, r) \/ Reconnect(a, r) \/ Disconnect(a, r)
          \/ Ready(a, r) \/ Sail(a, r) \/ Leave(a, r) \/ Slain(a, r)
          \/ \E client \in {"dead", "left", "cleared"} : Fare(a, r, client)
    BY <1>4 DEF Game
  <2>2. CASE Attach(a, r) \/ Reconnect(a, r) \/ Disconnect(a, r) \/ Ready(a, r) \/ Sail(a, r)
    BY <2>2 DEF Attach, Reconnect, Disconnect, Ready, Sail
  <2>3. CASE Leave(a, r) \/ Slain(a, r) \/ \E client \in {"dead", "left", "cleared"} : Fare(a, r, client)
    BY <2>3 DEF Leave, Slain, Fare
  <2> QED
    BY <2>1, <2>2, <2>3
<1>5. CASE Ticks
  <2>1. ASSUME NEW r \in Rooms, ExpireMatching(r) \/ \E late \in SUBSET Gone(r) : ExpireLobby(r, late)
        PROVE  \A q \in Rooms : rooms[q].phase \notin {"free", "lobby"} => members'[q] = members[q]
    BY <1>2, <2>1 DEF ExpireMatching, ExpireLobby
  <2>2. ASSUME NEW r \in Rooms, NEW late, NEW limit, Expire(r, late, limit) PROVE members' = members
    BY <2>2, Zenon DEF Expire
  <2>3. ASSUME NEW r \in Rooms, Stop(r) PROVE members' = members
    BY <2>3 DEF Stop
  <2> QED
    BY <1>5, <2>1, <2>2, <2>3 DEF Ticks, Limit
<1>6. CASE Close
  BY <1>6 DEF Close
<1> QED
  BY <1>3, <1>4, <1>5, <1>6 DEF Rooming

\* A room that has started does not gather again, nor start.
LEMMA MovesStarted ==
  ASSUME RoomsMove, NEW r \in Rooms, rooms[r].phase \notin {"free", "lobby"}
  PROVE  /\ rooms'[r].phase \notin {"free", "lobby"}
         /\ rooms'[r].ended \/ rooms'[r].phase \in Playing => rooms[r].ended \/ rooms[r].phase \in Playing
<1>1. Same(r) \/ Starts(r) \/ Leaves(r) \/ Ends(r)
  BY DEF RoomsMove
<1>2. CASE Same(r)
  BY <1>2 DEF Same, Alike
<1>3. CASE Starts(r)
  BY <1>3 DEF Starts, Turns, Early, Playing
<1>4. CASE Leaves(r) \/ Ends(r)
  BY <1>4 DEF Leaves, Ends, Turns, Playing
<1> QED
  BY <1>1, <1>2, <1>3, <1>4

\* A store that stays keeps its results.
LEMMA KeepsSame == ASSUME NEW q PROVE Keeps(store, store, q)
BY DEF Keeps

\* Every step of the manager keeps DeliveryInv.
LEMMA RoomingDelivery ==
  ASSUME TypeInv, ResultsInv, DeliveryInv, Rooming, UNCHANGED <<setup, playVars>>
  PROVE  DeliveryInv'
<1>1. UNCHANGED <<setup, published, events, run, applied, store, prepared>>
  BY RoomingFrame DEF unheld, playVars
<1>2. MembersKnown'
  <2>1. ASSUME NEW t \in Topics, NEW a \in Accounts, NEW r \in Rooms, <<t, a, r>> \in published
        PROVE  /\ rooms'[r].phase \notin {"free", "lobby"}
               /\ rooms'[r].ended \/ rooms'[r].phase \in Playing => a \in (In(r))'
    <3>1. /\ rooms[r].phase \notin {"free", "lobby"}
          /\ rooms[r].ended \/ rooms[r].phase \in Playing => a \in In(r)
      BY <2>1 DEF DeliveryInv, MembersKnown
    <3>2. (In(r))' = In(r)
      BY <3>1, RoomingLists DEF In
    <3> QED
      BY <3>1, <3>2, RoomingMoves, MovesStarted
  <2> QED
    BY <1>1, <2>1 DEF MembersKnown
<1>3. \A r \in Rooms : r \in store.retired => members'[r] = members[r]
  <2>1. \A r \in Rooms : r \in store.retired => rooms[r].phase \notin {"free", "lobby"}
    BY DEF ResultsInv, ResultsKnown, PhasesKnown, Durable
  <2> QED
    BY <2>1, RoomingLists
<1> QED
  BY <1>1, <1>2, <1>3, StoreDelivery, KeepsSame

\* Rooms, members and events stay as they are.
LEMMA QuietDelivery ==
  ASSUME TypeInv, DeliveryInv, NEW q, Keeps(store, store', q),
         UNCHANGED <<setup, rooms, members, published, events, run, applied>>,
         \A a \in Accounts : prepared'[a] = "result" => prepared[a] = "result"
  PROVE  DeliveryInv'
<1>1. MembersKnown'
  BY DEF DeliveryInv, MembersKnown, In
<1> QED
  BY <1>1, StoreDelivery

\* The steps of the worker keep DeliveryInv.
LEMMA PersistsDelivery ==
  ASSUME TypeInv, ResultsInv, DeliveryInv,
         Persists \/ (Defer /\ UNCHANGED roomVars), UNCHANGED <<setup, playVars>>
  PROVE  DeliveryInv'
<1>1. UNCHANGED <<setup, members, published, events, run, applied, prepared>>
  BY DEF playVars, Persists, Worker, Take, Save, Rank, MarkReady, Defer, Acknowledge
<1>2. CASE (Take \/ Defer) /\ UNCHANGED roomVars
  BY <1>1, <1>2, QuietDelivery, KeepsSame DEF Take, Defer, roomVars
<1>3. CASE (Save \/ Rank \/ MarkReady) /\ UNCHANGED roomVars
  <2> DEFINE r == worker.room
  <2>1. r \in Rooms /\ store \in Stores /\ StoreOK(store)
    BY <1>3, InHands DEF Save, Rank, MarkReady
  <2>2. Keeps(store, store', r)
    <3>1. CASE Save
      BY <2>1, <3>1, SaveKeeps DEF Save
    <3>2. CASE Rank
      BY <2>1, <3>2, RankKeeps DEF Rank
    <3>3. CASE MarkReady
      <4>1. r \in Durable /\ Kind = "action" => r \in store.ranked
        BY <3>3 DEF MarkReady, ResultsInv, WorkerKnown
      <4>2. r \in Durable
        BY <3>3 DEF MarkReady, ResultsInv, WorkerKnown
      <4> QED
        BY <2>1, <3>3, <4>1, <4>2, ReadyKeeps DEF MarkReady, Durable
    <3> QED
      BY <1>3, <3>1, <3>2, <3>3
  <2> QED
    BY <1>1, <1>3, <2>2, QuietDelivery DEF roomVars
<1>4. CASE Acknowledge
  <2>1. MembersKnown'
    <3>1. \A r \in Rooms : rooms'[r].phase = rooms[r].phase /\ rooms'[r].ended = rooms[r].ended
      BY <1>4, InHands, AcknowledgedRooms DEF Acknowledge
    <3> QED
      BY <1>1, <3>1 DEF DeliveryInv, MembersKnown, In
  <2> QED
    BY <1>1, <1>4, <2>1, StoreDelivery, KeepsSame DEF Acknowledge
<1> QED
  BY <1>2, <1>3, <1>4 DEF Persists, Worker

\* A start of the process keeps DeliveryInv.
LEMMA BeginsDelivery ==
  ASSUME TypeInv, ResultsInv, DeliveryInv, setup' = setup, Begins
  PROVE  DeliveryInv'
<1>1. CASE Restart
  BY <1>1, QuietDelivery, KeepsSame DEF Restart, resultVars, playVars
<1>2. ASSUME NEW r \in Rooms, Recover(r) PROVE DeliveryInv'
  <2>1. Keeps(store, store', r)
    BY <1>2, RecoverKeeps DEF Recover
  <2> QED
    BY <1>2, <2>1, QuietDelivery DEF Recover, RecoverResult, roomVars, playVars
<1> QED
  BY <1>1, <1>2 DEF Begins

\* A stop of the process keeps DeliveryInv.
LEMMA QuitDelivery ==
  ASSUME TypeInv, ResultsInv, DeliveryInv, setup' = setup, Crash \/ Exit
  PROVE  DeliveryInv'
<1>1. /\ Halt /\ UNCHANGED <<setup, store, published, events, run, applied>>
      /\ \A a \in Accounts : prepared'[a] = "none"
  BY DEF Crash, Exit, Quit, Halt
<1>2. \A r \in Rooms : rooms[r].ended => members'[r] = members[r]
  BY <1>1 DEF Halt
<1>3. MembersKnown'
  <2>1. ASSUME NEW t \in Topics, NEW a \in Accounts, NEW r \in Rooms, <<t, a, r>> \in published
        PROVE  /\ rooms'[r].phase \notin {"free", "lobby"}
               /\ rooms'[r].ended \/ rooms'[r].phase \in Playing => a \in (In(r))'
    <3>1. /\ rooms[r].phase \notin {"free", "lobby"} /\ (rooms[r].ended => a \in In(r))
      BY <2>1 DEF DeliveryInv, MembersKnown
    <3>2. rooms'[r].phase = "gone" /\ rooms'[r].ended = rooms[r].ended
      BY <1>1, <3>1, HaltedRooms
    <3>3. rooms[r].ended => (In(r))' = In(r)
      BY <1>2 DEF In
    <3> QED
      BY <3>1, <3>2, <3>3 DEF Playing
  <2> QED
    BY <1>1, <2>1 DEF MembersKnown
<1>4. \A r \in Rooms : r \in store.retired => members'[r] = members[r]
  BY <1>2 DEF ResultsInv, ResultsKnown, Durable
<1> QED
  BY <1>1, <1>3, <1>4, StoreDelivery, KeepsSame

-----------------------------------------------------------------------------
(* The deliveries: commands *)

\* Every event of list is new to the outbox of account a, and may be published.
Proper(a, list) ==
  /\ list \in Seq(Events)
  /\ \A i, j \in 1..Len(list) : list[i] = list[j] => i = j
  /\ \A e \in Range(list) :
       /\ <<e[1], a, e[2]>> \notin published
       /\ e[1] = "claimed" => <<"accepted", a, e[2]>> \in published
       /\ rooms[e[2]].phase \notin {"free", "lobby"}
       /\ rooms[e[2]].ended \/ rooms[e[2]].phase \in Playing => a \in In(e[2])

\* What is known of a list that may be published.
LEMMA ProperEvents ==
  ASSUME NEW a, NEW list, Proper(a, list), NEW t, NEW r, <<t, r>> \in Range(list)
  PROVE  /\ <<t, a, r>> \notin published
         /\ t = "claimed" => <<"accepted", a, r>> \in published
         /\ rooms[r].phase \notin {"free", "lobby"}
         /\ rooms[r].ended \/ rooms[r].phase \in Playing => a \in In(r)
<1>1. <<t, r>>[1] = t /\ <<t, r>>[2] = r
  OBVIOUS
<1> QED
  BY <1>1 DEF Proper

\* Publishing a proper list keeps the undelivered events in order.
LEMMA AnnounceEvents ==
  ASSUME TypeInv, DeliveryInv, NEW a \in Accounts, NEW list, Proper(a, list), Announce(a, list)
  PROVE  EventsKnown'
<1> DEFINE s == events[a]  u == s \o list  n == Len(s)
<1>1. /\ s \in Seq(Events) /\ list \in Seq(Events)
      /\ events' = [events EXCEPT ![a] = u] /\ events'[a] = u
      /\ \A b \in Accounts : b # a => events'[b] = events[b]
      /\ published' = published \cup {<<e[1], a, e[2]>> : e \in Range(list)}
  BY EventLists DEF Announce, Proper, TypeInv, TypeOK
<1>2. /\ n \in Nat /\ Len(u) \in Nat
      /\ \A i \in 1..n : u[i] = s[i]
      /\ \A i \in 1..Len(u) : i \in 1..n \/ (i > n /\ i - n \in 1..Len(list) /\ u[i] = list[i - n])
  BY <1>1, MoreEvents
<1> HIDE DEF u, n
<1>3. \A i \in 1..Len(list) : list[i] \in Range(list) /\ list[i] \in Events
  BY <1>1, MoreEvents DEF Range
<1>4. \A i \in 1..n : /\ <<u[i][1], a, u[i][2]>> \in published
                      /\ u[i] = <<u[i][1], u[i][2]>>
                      /\ u[i][1] = "claimed" => <<"accepted", a, u[i][2]>> \in published
  <2>1. \A i \in 1..n : /\ <<s[i][1], a, s[i][2]>> \in published /\ s[i][2] \in Rooms
                        /\ s[i] = <<s[i][1], s[i][2]>>
    BY EventLists DEF DeliveryInv, EventsKnown, n
  <2>2. \A r \in Rooms : <<"claimed", a, r>> \in published => <<"accepted", a, r>> \in published
    BY DEF DeliveryInv, ClaimsKnown
  <2> QED
    BY <1>2, <2>1, <2>2
<1>5. \A i \in 1..Len(u) : i \in 1..n \/
        (/\ i > n /\ i - n \in 1..Len(list) /\ u[i] = list[i - n]
         /\ <<u[i][1], a, u[i][2]>> \notin published /\ <<u[i][1], a, u[i][2]>> \in published'
         /\ u[i] = <<u[i][1], u[i][2]>>
         /\ u[i][1] = "claimed" => <<"accepted", a, u[i][2]>> \in published)
  <2>1. \A e \in Events : e = <<e[1], e[2]>>
    BY DEF Events
  <2>2. \A e \in Range(list) :
          /\ <<e[1], a, e[2]>> \notin published /\ <<e[1], a, e[2]>> \in published'
          /\ e[1] = "claimed" => <<"accepted", a, e[2]>> \in published
    BY <1>1 DEF Proper
  <2> QED
    BY <1>2, <1>3, <2>1, <2>2
<1>6. \A i \in 1..Len(u) : <<u[i][1], a, u[i][2]>> \in published'
  BY <1>1, <1>4, <1>5
<1>7. ASSUME NEW i \in 1..Len(u), NEW j \in 1..Len(u)
      PROVE  /\ u[i] = u[j] => i = j
             /\ u[i][1] = "claimed" /\ u[j][1] = "accepted" /\ u[i][2] = u[j][2] => j < i
  <2>1. CASE i \in 1..n /\ j \in 1..n
    <3>1. \A x, y \in 1..n : /\ s[x] = s[y] => x = y
                             /\ s[x][1] = "claimed" /\ s[y][1] = "accepted" /\ s[x][2] = s[y][2] => y < x
      BY DEF DeliveryInv, EventsKnown, n
    <3> QED
      BY <1>2, <2>1, <3>1
  <2>2. CASE i \in 1..n /\ j \notin 1..n
    BY <1>4, <1>5, <2>2
  <2>3. CASE i \notin 1..n /\ j \in 1..n
    <3>1. u[i] # u[j]
      BY <1>4, <1>5, <2>3
    <3>2. i > n /\ j <= n /\ i \in Nat /\ j \in Nat
      BY <1>2, <1>5, <2>3
    <3> QED
      BY <1>2, <3>1, <3>2
  <2>4. CASE i \notin 1..n /\ j \notin 1..n
    <3>0. \A x, y \in 1..Len(list) : list[x] = list[y] => x = y
      BY DEF Proper
    <3>1. u[i] = u[j] => i - n = j - n
      <4>1. /\ i - n \in 1..Len(list) /\ u[i] = list[i - n]
            /\ j - n \in 1..Len(list) /\ u[j] = list[j - n]
        BY <1>5, <2>4
      <4> QED
        BY <3>0, <4>1, Zenon
    <3>2. i - n = j - n => i = j
      BY <1>2
    <3> QED
      BY <1>5, <2>4, <3>1, <3>2
  <2> QED
    BY <2>1, <2>2, <2>3, <2>4
<1>8. ASSUME NEW b \in Accounts, b # a, NEW i \in 1..Len(events'[b])
      PROVE  /\ <<events'[b][i][1], b, events'[b][i][2]>> \in published'
             /\ \A j \in 1..Len(events'[b]) :
                  /\ events'[b][i] = events'[b][j] => i = j
                  /\ /\ events'[b][i][1] = "claimed" /\ events'[b][j][1] = "accepted"
                     /\ events'[b][i][2] = events'[b][j][2]
                     => j < i
  BY <1>1, <1>8 DEF DeliveryInv, EventsKnown
<1> QED
  BY <1>1, <1>6, <1>7, <1>8 DEF EventsKnown

\* Publishing a proper list keeps DeliveryInv.
LEMMA AnnounceDelivery ==
  ASSUME TypeInv, DeliveryInv, NEW a \in Accounts, NEW list, Proper(a, list), Announce(a, list),
         UNCHANGED <<setup, rooms, members, store, applied>>,
         \A b \in Accounts, r \in Rooms :
           run'[b] = r => run[b] = r \/ <<"accepted", b, r>> \in published',
         EndsKnown'
  PROVE  DeliveryInv'
<1>1. EventsKnown'
  BY AnnounceEvents
<1>2. /\ list \in Seq(Events) /\ \A e \in Range(list) : e \in Events /\ e = <<e[1], e[2]>>
      /\ published \subseteq published'
      /\ \A t, b, r : <<t, b, r>> \in published' <=>
           <<t, b, r>> \in published \/ (b = a /\ <<t, r>> \in Range(list))
  <2>1. list \in Seq(Events) /\ \A e \in Range(list) : e \in Events
    BY RangeOfSeq DEF Proper
  <2>2. \A e \in Events : e = <<e[1], e[2]>>
    BY DEF Events
  <2>3. published' = published \cup {<<e[1], a, e[2]>> : e \in Range(list)}
    BY DEF Announce
  <2> QED
    BY <2>1, <2>2, <2>3
<1>3. MembersKnown'
  <2>1. ASSUME NEW t \in Topics, NEW b \in Accounts, NEW r \in Rooms, <<t, b, r>> \in published'
        PROVE  /\ rooms[r].phase \notin {"free", "lobby"}
               /\ rooms[r].ended \/ rooms[r].phase \in Playing => b \in In(r)
    <3>1. CASE <<t, b, r>> \in published
      BY <3>1 DEF DeliveryInv, MembersKnown
    <3>2. CASE b = a /\ <<t, r>> \in Range(list)
      BY <3>2, ProperEvents
    <3> QED
      BY <1>2, <2>1, <3>1, <3>2
  <2> QED
    BY <2>1 DEF MembersKnown, In
<1>4. \A b \in Accounts : \A x : x \in Range(events'[b]) <=>
        x \in Range(events[b]) \/ (b = a /\ x \in Range(list))
  <2>1. events[a] \in Seq(Events) /\ events'[a] = events[a] \o list
        /\ \A b \in Accounts : b # a => events'[b] = events[b]
    BY EventLists DEF Announce, TypeInv, TypeOK
  <2>2. \A x : x \in Range(events[a] \o list) <=> x \in Range(events[a]) \/ x \in Range(list)
    BY <1>2, <2>1, MoreEvents
  <2> QED
    BY <2>1, <2>2
<1>5. \A b \in Accounts, r \in Rooms : (Unclaimed(b, r))' <=> Unclaimed(b, r)
  <2>1. \A r : <<"claimed", r>> \in Range(list) => <<"claimed", a, r>> \notin published
    BY ProperEvents
  <2>2. ASSUME NEW b \in Accounts, NEW r \in Rooms
        PROVE  (Unclaimed(b, r))' <=> Unclaimed(b, r)
    <3>1. <<"claimed", b, r>> \in published' <=>
            <<"claimed", b, r>> \in published \/ (b = a /\ <<"claimed", r>> \in Range(list))
      BY <1>2
    <3>2. <<"claimed", r>> \in Range(events'[b]) <=>
            <<"claimed", r>> \in Range(events[b]) \/ (b = a /\ <<"claimed", r>> \in Range(list))
      BY <1>4
    <3> QED
      BY <2>1, <3>1, <3>2 DEF Unclaimed
  <2> QED
    BY <2>2
<1>6. ClaimsKnown'
  <2>1. ASSUME NEW b \in Accounts, NEW r \in Rooms
        PROVE  /\ <<"claimed", b, r>> \in published' => <<"accepted", b, r>> \in published'
               /\ run'[b] = r => <<"accepted", b, r>> \in published'
               /\ <<b, r>> \in store.claims => ~Unclaimed(b, r)
               /\ r \in store.retired /\ b \in In(r) => ~Unclaimed(b, r)
               /\ <<"accepted", b, r>> \in published' /\ Unclaimed(b, r) =>
                    \/ r \in Durable \/ <<b, r>> \in store.runs
                    \/ <<"accepted", r>> \in Range(events'[b])
    <3>1. <<"claimed", r>> \in Range(list) => <<"accepted", a, r>> \in published
      BY ProperEvents
    <3>2. <<"claimed", b, r>> \in published' => <<"accepted", b, r>> \in published'
      <4>1. <<"claimed", b, r>> \in published => <<"accepted", b, r>> \in published
        BY DEF DeliveryInv, ClaimsKnown
      <4>2. <<"claimed", b, r>> \in published' <=>
              <<"claimed", b, r>> \in published \/ (b = a /\ <<"claimed", r>> \in Range(list))
        BY <1>2
      <4> QED
        BY <1>2, <3>1, <4>1, <4>2
    <3>3. run'[b] = r => <<"accepted", b, r>> \in published'
      BY <1>2 DEF DeliveryInv, ClaimsKnown
    <3>4. /\ <<b, r>> \in store.claims => ~Unclaimed(b, r)
          /\ r \in store.retired /\ b \in In(r) => ~Unclaimed(b, r)
          /\ <<"accepted", b, r>> \in published /\ Unclaimed(b, r) =>
               \/ r \in Durable \/ <<b, r>> \in store.runs
               \/ <<"accepted", r>> \in Range(events[b])
      BY DEF DeliveryInv, ClaimsKnown
    <3> QED
      BY <1>2, <1>4, <3>2, <3>3, <3>4
  <2> QED
    BY <1>5, <2>1 DEF ClaimsKnown, Durable, In
<1>7. AppliedKnown'
  <2>1. ASSUME NEW b \in Accounts, applied[b]
        PROVE  Head(events'[b]) = Head(events[b])
    <3>1. events[b] \in Seq(Events) /\ events[b] # << >>
      BY <2>1, EventLists DEF TypeInv, HandsKnown
    <3>2. events'[b] = events[b] \/ events'[b] = events[b] \o list
      BY DEF Announce, TypeInv, TypeOK
    <3>3. CASE events'[b] = events[b] \o list
      <4>1. events'[b] \in Seq(Events) /\ 1 \in 1..Len(events[b]) /\ Head(events[b]) = events[b][1]
        BY <1>2, <3>1, <3>3, MoreEvents, TailEvents
      <4>2. 1 \in 1..Len(events'[b]) /\ events'[b][1] = events[b][1]
        BY <1>2, <3>1, <3>3, <4>1, MoreEvents
      <4>3. events'[b] # << >>
        BY <4>2
      <4>4. Head(events'[b]) = events'[b][1]
        BY <4>1, <4>3, TailEvents
      <4> QED
        BY <4>1, <4>2, <4>4
    <3> QED
      BY <3>2, <3>3
  <2>2. ASSUME NEW b \in Accounts, applied[b]
        PROVE  /\ Head(events[b])[2] \in Rooms /\ Head(events[b])[1] = "accepted"
               /\ Unclaimed(b, Head(events[b])[2]) =>
                    Head(events[b])[2] \in Durable \/ <<b, Head(events[b])[2]>> \in store.runs
    BY <2>2, HeadRoom, TypeParts DEF TypeInv, HandsKnown, DeliveryInv, AppliedKnown
  <2> QED
    BY <1>5, <2>1, <2>2 DEF AppliedKnown, Durable
<1> QED
  BY <1>1, <1>3, <1>6, <1>7 DEF DeliveryInv

\* The empty list may be published.
LEMMA ProperEmpty == ASSUME NEW a PROVE Proper(a, << >>)
<1>1. Range(<< >>) = {} /\ << >> \in Seq(Events) /\ Len(<< >>) = 0
  BY EmptySeq DEF Range
<1> QED
  BY <1>1 DEF Proper

\* An event not published before may be, and is not twice.
LEMMA ProperFresh ==
  ASSUME NEW t \in Topics, NEW a \in Accounts, NEW r \in Rooms,
         t = "claimed" => <<"accepted", a, r>> \in published,
         rooms[r].phase \notin {"free", "lobby"},
         rooms[r].ended \/ rooms[r].phase \in Playing => a \in In(r)
  PROVE  /\ Proper(a, Fresh(t, a, r))
         /\ \A x \in Range(Fresh(t, a, r)) : x = <<t, r>>
         /\ <<t, a, r>> \in published \/ <<t, r>> \in Range(Fresh(t, a, r))
<1>1. CASE <<t, a, r>> \in published
  <2>1. Fresh(t, a, r) = << >> /\ Range(<< >>) = {}
    BY <1>1 DEF Fresh, Range
  <2> QED
    BY <1>1, <2>1, ProperEmpty
<1>2. CASE <<t, a, r>> \notin published
  <2> DEFINE s == <<<<t, r>>>>
  <2>1. Fresh(t, a, r) = s
    BY <1>2 DEF Fresh
  <2>2. s \in Seq(Events) /\ Len(s) = 1 /\ s[1] = <<t, r>>
    BY DEF Events
  <2>3. Range(s) = {<<t, r>>}
    BY DEF Range
  <2> HIDE DEF s
  <2>4. \A i, j \in 1..Len(s) : s[i] = s[j] => i = j
    BY <2>2
  <2>5. Proper(a, s)
    BY <1>2, <2>2, <2>3, <2>4 DEF Proper
  <2> QED
    BY <2>1, <2>3, <2>5
<1> QED
  BY <1>1, <1>2

\* Two lists apart may be published together.
LEMMA ProperTwo ==
  ASSUME NEW a, NEW s, NEW t, Proper(a, s), Proper(a, t), \A x \in Range(s) : x \notin Range(t)
  PROVE  Proper(a, s \o t) /\ \A x : x \in Range(s \o t) <=> x \in Range(s) \/ x \in Range(t)
<1> DEFINE u == s \o t  n == Len(s)
<1>1. s \in Seq(Events) /\ t \in Seq(Events)
  BY DEF Proper
<1>2. /\ u \in Seq(Events) /\ n \in Nat /\ Len(u) \in Nat
      /\ \A i \in 1..n : i \in 1..Len(u) /\ u[i] = s[i]
      /\ \A i \in 1..Len(u) : i \in 1..n \/ (i > n /\ i - n \in 1..Len(t) /\ u[i] = t[i - n])
      /\ \A x : x \in Range(u) <=> x \in Range(s) \/ x \in Range(t)
  BY <1>1, MoreEvents
<1> HIDE DEF u, n
<1>3. (\A i \in 1..n : s[i] \in Range(s)) /\ (\A i \in 1..Len(t) : t[i] \in Range(t))
  BY <1>1 DEF Range, n
<1>4. /\ \A x, y \in 1..n : s[x] = s[y] => x = y
      /\ \A x, y \in 1..Len(t) : t[x] = t[y] => x = y
  BY DEF Proper, n
<1>5. ASSUME NEW i \in 1..Len(u), NEW j \in 1..Len(u), u[i] = u[j] PROVE i = j
  <2>1. CASE i \in 1..n /\ j \in 1..n
    BY <1>2, <1>4, <1>5, <2>1
  <2>2. CASE i \in 1..n /\ j \notin 1..n
    BY <1>2, <1>3, <1>5, <2>2
  <2>3. CASE i \notin 1..n /\ j \in 1..n
    BY <1>2, <1>3, <1>5, <2>3
  <2>4. CASE i \notin 1..n /\ j \notin 1..n
    <3>1. /\ i - n \in 1..Len(t) /\ u[i] = t[i - n]
          /\ j - n \in 1..Len(t) /\ u[j] = t[j - n]
      BY <1>2, <2>4
    <3>2. i - n = j - n
      BY <1>4, <1>5, <3>1, Zenon
    <3> QED
      BY <1>2, <3>2
  <2> QED
    BY <2>1, <2>2, <2>3, <2>4
<1>6. \A e \in Range(u) :
        /\ <<e[1], a, e[2]>> \notin published
        /\ e[1] = "claimed" => <<"accepted", a, e[2]>> \in published
        /\ rooms[e[2]].phase \notin {"free", "lobby"}
        /\ rooms[e[2]].ended \/ rooms[e[2]].phase \in Playing => a \in In(e[2])
  BY <1>2 DEF Proper
<1> QED
  BY <1>2, <1>5, <1>6 DEF Proper, u

\* The run of an account is of a room that has started, and its event is published.
LEMMA RunKept ==
  ASSUME TypeInv, DeliveryInv, NEW a \in Accounts, run[a] # None
  PROVE  /\ run[a] \in Rooms /\ <<"accepted", a, run[a]>> \in published
         /\ rooms[run[a]].phase \notin {"free", "lobby"}
         /\ rooms[run[a]].ended \/ rooms[run[a]].phase \in Playing => a \in In(run[a])
<1>1. run[a] \in Rooms /\ "accepted" \in Topics
  BY DEF TypeInv, TypeOK, Topics
<1>2. <<"accepted", a, run[a]>> \in published
  BY <1>1 DEF DeliveryInv, ClaimsKnown
<1> QED
  BY <1>1, <1>2 DEF DeliveryInv, MembersKnown

\* Every step of a command keeps DeliveryInv.
LEMMA CommandsDelivery ==
  ASSUME TypeInv, ResultsInv, DeliveryInv, setup' = setup, Commands
  PROVE  DeliveryInv'
<1>1. PICK a \in Accounts :
        Look(a) \/ LookAtRoom(a) \/ Refused(a) \/ Start(a) \/ End(a) \/ Sets(a) \/ Lands(a)
  BY DEF Commands
<1>2. UNCHANGED <<setup, rooms, members, store, applied, lost>>
  BY CommandSteps DEF TypeInv, roomVars
<1>3. /\ run \in [Accounts -> Rooms \cup {None}] /\ membership \in [Accounts -> Rooms \cup {None}]
      /\ prepared \in [Accounts -> {"none", "looking", "result", "abandoned"}]
      /\ "accepted" \in Topics /\ "claimed" \in Topics
  BY DEF TypeInv, TypeOK, ManagerTypeOK, Topics
<1>4. CASE Look(a) \/ LookAtRoom(a) \/ Refused(a)
  <2>1. UNCHANGED <<events, published, run>>
    BY <1>4 DEF Look, LookAtRoom, Refused
  <2>2. \A b \in Accounts : prepared'[b] = "result" =>
          prepared[b] = "result" \/ (b = a /\ run[a] \in store.ready)
    BY <1>3, <1>4 DEF Look, LookAtRoom, Refused
  <2>3. EndsKnown'
    BY <1>2, <2>1, <2>2 DEF DeliveryInv, EndsKnown, Kind
  <2>4. \A b \in Accounts, r \in Rooms : (Unclaimed(b, r))' <=> Unclaimed(b, r)
    BY <2>1 DEF Unclaimed
  <2>5. MembersKnown' /\ EventsKnown' /\ ClaimsKnown'
    BY <1>2, <2>1, <2>4 DEF DeliveryInv, MembersKnown, EventsKnown, ClaimsKnown, In, Durable
  <2>6. AppliedKnown'
    BY <1>2, <2>1 DEF DeliveryInv, AppliedKnown, Unclaimed, Durable
  <2> QED
    BY <2>3, <2>5, <2>6 DEF DeliveryInv
<1>5. CASE Start(a)
  <2> DEFINE r == membership[a]  list == Fresh("accepted", a, r)
  <2>1. /\ r \in Rooms /\ a \in In(r) /\ rooms[r].phase = "running"
        /\ Announce(a, list) /\ run' = [run EXCEPT ![a] = r]
        /\ prepared' = [prepared EXCEPT ![a] = "none"]
    BY <1>3, <1>5 DEF Start, Startable
  <2>2. Proper(a, list) /\ (<<"accepted", a, r>> \in published \/ <<"accepted", r>> \in Range(list))
        /\ \A x \in Range(list) : x = <<"accepted", r>>
    BY <1>3, <2>1, ProperFresh
  <2> HIDE DEF list
  <2>3. <<"accepted", a, r>> \in published' /\ published \subseteq published'
        /\ \A b, q : <<"claimed", b, q>> \in published' => <<"claimed", b, q>> \in published
    <3>1. published' = published \cup {<<e[1], a, e[2]>> : e \in Range(list)}
      BY <2>1 DEF Announce
    <3>2. <<"accepted", r>>[1] = "accepted" /\ <<"accepted", r>>[2] = r
      OBVIOUS
    <3> QED
      BY <2>2, <3>1, <3>2
  <2>4. EndsKnown'
    BY <1>2, <1>3, <2>1, <2>3 DEF DeliveryInv, EndsKnown, Kind
  <2> QED
    BY <1>2, <1>3, <2>1, <2>2, <2>3, <2>4, AnnounceDelivery
<1>6. CASE End(a) \/ Lands(a)
  <2> DEFINE r == run[a]  list == Fresh("claimed", a, r)
  <2>1. /\ r # None /\ Announce(a, list) /\ run' = [run EXCEPT ![a] = None]
        /\ prepared' = [prepared EXCEPT ![a] = "none"]
        /\ Kind # "fishing" => prepared[a] = "result"
    BY <1>6 DEF End, Lands
  <2>2. r \in Rooms
    BY <2>1, RunKept
  <2>3. Proper(a, list) /\ \A x \in Range(list) : x = <<"claimed", r>>
    BY <1>3, <2>1, RunKept, ProperFresh
  <2> HIDE DEF list
  <2>4. \A b, q : <<"claimed", b, q>> \in published' =>
          <<"claimed", b, q>> \in published \/ (b = a /\ q = r)
    <3>1. published' = published \cup {<<e[1], a, e[2]>> : e \in Range(list)}
      BY <2>1 DEF Announce
    <3>2. <<"claimed", r>>[2] = r
      OBVIOUS
    <3> QED
      BY <2>3, <3>1, <3>2
  <2>5. Kind # "fishing" => r \in store.ready \cup store.retired
    BY <2>1, <2>2 DEF DeliveryInv, EndsKnown
  <2>6. EndsKnown'
    BY <1>2, <1>3, <2>1, <2>4, <2>5 DEF DeliveryInv, EndsKnown, Kind
  <2>7. \A b \in Accounts, q \in Rooms : run'[b] = q => run[b] = q
    BY <1>3, <2>1, RoomAssumption
  <2> QED
    BY <1>2, <2>1, <2>3, <2>6, <2>7, AnnounceDelivery
<1>7. CASE Sets(a)
  <2> DEFINE r == membership[a]  old == run[a]  one == Fresh("accepted", a, r)
             before == IF old = None THEN << >> ELSE Fresh("claimed", a, old)
             list == before \o one
  <2>1. /\ Kind = "fishing" /\ r \in Rooms /\ a \in In(r) /\ rooms[r].phase \in {"loading", "running"}
        /\ Announce(a, list) /\ run' = [run EXCEPT ![a] = r]
    BY <1>3, <1>7 DEF Sets, Startable
  <2>2. Proper(a, one) /\ (<<"accepted", a, r>> \in published \/ <<"accepted", r>> \in Range(one))
        /\ \A x \in Range(one) : x = <<"accepted", r>>
    BY <1>3, <2>1, ProperFresh
  <2>3. Proper(a, before) /\ \A x \in Range(before) : x = <<"claimed", old>>
    <3>1. CASE old = None
      <4>1. Range(<< >>) = {}
        BY DEF Range
      <4> QED
        BY <3>1, <4>1, ProperEmpty
    <3>2. CASE old # None
      BY <1>3, <3>2, RunKept, ProperFresh
    <3> QED
      BY <3>1, <3>2
  <2> HIDE DEF before, one
  <2>4. \A x \in Range(before) : x \notin Range(one)
    <3>1. <<"claimed", old>> # <<"accepted", r>>
      <4>1. <<"claimed", old>>[1] # <<"accepted", r>>[1]
        OBVIOUS
      <4> QED
        BY <4>1
    <3> QED
      BY <2>2, <2>3, <3>1
  <2>5. Proper(a, list) /\ \A x : x \in Range(list) <=> x \in Range(before) \/ x \in Range(one)
    BY <2>2, <2>3, <2>4, ProperTwo
  <2> HIDE DEF list
  <2>6. <<"accepted", a, r>> \in published'
    <3>1. published' = published \cup {<<e[1], a, e[2]>> : e \in Range(list)}
      BY <2>1 DEF Announce
    <3>2. <<"accepted", r>>[1] = "accepted" /\ <<"accepted", r>>[2] = r
      OBVIOUS
    <3> QED
      BY <2>2, <2>5, <3>1, <3>2
  <2>7. EndsKnown'
    BY <1>2, <2>1 DEF EndsKnown, Kind
  <2>8. \A b \in Accounts, q \in Rooms : run'[b] = q => run[b] = q \/ <<"accepted", b, q>> \in published'
    BY <1>3, <2>1, <2>6
  <2> QED
    BY <1>2, <2>1, <2>5, <2>7, <2>8, AnnounceDelivery
<1> QED
  BY <1>1, <1>4, <1>5, <1>6, <1>7

-----------------------------------------------------------------------------
(* The deliveries: the dispatcher *)

\* The head of the events of account a, and what is left without it.
LEMMA HeadGone ==
  ASSUME TypeInv, DeliveryInv, NEW a \in Accounts, events[a] # << >>, Delivered(a),
         published' = published
  PROVE  /\ EventsKnown'
         /\ \A x : x \in Range(events[a]) <=> x = Head(events[a]) \/ x \in Range(events'[a])
         /\ Head(events[a]) \notin Range(events'[a])
         /\ Head(events[a]) = <<Head(events[a])[1], Head(events[a])[2]>>
         /\ Head(events[a])[1] \in Topics /\ Head(events[a])[2] \in Rooms
         /\ <<Head(events[a])[1], a, Head(events[a])[2]>> \in published
         /\ \A b \in Accounts : b # a => events'[b] = events[b] /\ applied'[b] = applied[b]
         /\ applied'[a] = FALSE
<1> DEFINE s == events[a]  t == Tail(s)  n == Len(s)
<1>1. /\ s \in Seq(Events) /\ events'[a] = t
      /\ \A b \in Accounts : b # a => events'[b] = events[b] /\ applied'[b] = applied[b]
      /\ applied'[a] = FALSE
  BY EventLists DEF Delivered, TypeInv, TypeOK
<1>2. /\ t \in Seq(Events) /\ n \in Nat /\ Len(t) = n - 1 /\ Head(s) = s[1] /\ 1 \in 1..n
      /\ \A i \in 1..Len(t) : i + 1 \in 1..n /\ t[i] = s[i + 1]
      /\ \A x : x \in Range(s) <=> x = Head(s) \/ x \in Range(t)
  BY <1>1, TailEvents
<1> HIDE DEF s, t, n
<1>3. \A i \in 1..n : /\ <<s[i][1], a, s[i][2]>> \in published
                      /\ s[i] = <<s[i][1], s[i][2]>> /\ s[i][1] \in Topics /\ s[i][2] \in Rooms
  BY EventLists DEF DeliveryInv, EventsKnown, s, n
<1>4. \A i, j \in 1..n : /\ s[i] = s[j] => i = j
                         /\ s[i][1] = "claimed" /\ s[j][1] = "accepted" /\ s[i][2] = s[j][2] => j < i
  BY DEF DeliveryInv, EventsKnown, s, n
<1>5. Len(t) \in Nat /\ \A i \in 1..Len(t) : i \in Nat /\ i + 1 # 1
  BY <1>2
<1>6. Head(s) \notin Range(t)
  <2>1. \A i \in 1..Len(t) : t[i] # s[1]
    BY <1>2, <1>4, <1>5
  <2>2. Range(t) = {t[i] : i \in 1..Len(t)}
    BY <1>2 DEF Range
  <2> QED
    BY <1>2, <2>1, <2>2
<1>7. ASSUME NEW i \in 1..Len(t), NEW j \in 1..Len(t)
      PROVE  /\ <<t[i][1], a, t[i][2]>> \in published
             /\ t[i] = t[j] => i = j
             /\ t[i][1] = "claimed" /\ t[j][1] = "accepted" /\ t[i][2] = t[j][2] => j < i
  <2>1. i + 1 \in 1..n /\ j + 1 \in 1..n /\ t[i] = s[i + 1] /\ t[j] = s[j + 1]
    BY <1>2
  <2>2. /\ <<s[i + 1][1], a, s[i + 1][2]>> \in published
        /\ s[i + 1] = s[j + 1] => i + 1 = j + 1
        /\ s[i + 1][1] = "claimed" /\ s[j + 1][1] = "accepted" /\ s[i + 1][2] = s[j + 1][2] => j + 1 < i + 1
    BY <1>3, <1>4, <2>1
  <2>3. i \in Nat /\ j \in Nat
    BY <1>5
  <2>4. (i + 1 = j + 1 => i = j) /\ (j + 1 < i + 1 => j < i)
    BY <2>3
  <2> QED
    BY <2>1, <2>2, <2>4
<1>8. EventsKnown'
  <2>1. ASSUME NEW b \in Accounts, b # a, NEW i \in 1..Len(events'[b])
        PROVE  /\ <<events'[b][i][1], b, events'[b][i][2]>> \in published
               /\ \A j \in 1..Len(events'[b]) :
                    /\ events'[b][i] = events'[b][j] => i = j
                    /\ /\ events'[b][i][1] = "claimed" /\ events'[b][j][1] = "accepted"
                       /\ events'[b][i][2] = events'[b][j][2]
                       => j < i
    BY <1>1, <2>1 DEF DeliveryInv, EventsKnown
  <2>2. ASSUME NEW i \in 1..Len(events'[a])
        PROVE  /\ <<events'[a][i][1], a, events'[a][i][2]>> \in published
               /\ \A j \in 1..Len(events'[a]) :
                    /\ events'[a][i] = events'[a][j] => i = j
                    /\ /\ events'[a][i][1] = "claimed" /\ events'[a][j][1] = "accepted"
                       /\ events'[a][i][2] = events'[a][j][2]
                       => j < i
    BY <1>1, <1>7, <2>2
  <2> QED
    BY <2>1, <2>2 DEF EventsKnown
<1> QED
  BY <1>1, <1>2, <1>3, <1>6, <1>8 DEF s, t, n

\* A delivery that leaves what the others wait for.
LEMMA DeliveredKept ==
  ASSUME TypeInv, DeliveryInv, NEW a \in Accounts, events[a] # << >>, Delivered(a),
         published' = published,
         NEW e, e = Head(events[a])
  PROVE  /\ \A b \in Accounts, r \in Rooms :
              (Unclaimed(b, r))' <=> Unclaimed(b, r) /\ ~(b = a /\ e = <<"claimed", r>>)
         /\ \A b \in Accounts, r \in Rooms :
              <<"accepted", r>> \in Range(events[b]) =>
                <<"accepted", r>> \in Range(events'[b]) \/ (b = a /\ e = <<"accepted", r>>)
<1>1. /\ \A x : x \in Range(events[a]) <=> x = e \/ x \in Range(events'[a])
      /\ e \notin Range(events'[a]) /\ e = <<e[1], e[2]>> /\ <<e[1], a, e[2]>> \in published
      /\ \A b \in Accounts : b # a => events'[b] = events[b]
  BY HeadGone
<1>2. \A r \in Rooms : e = <<"claimed", r>> => <<"claimed", a, r>> \in published
  <2>1. \A r \in Rooms : <<"claimed", r>>[1] = "claimed" /\ <<"claimed", r>>[2] = r
    OBVIOUS
  <2> QED
    BY <1>1, <2>1
<1>3. ASSUME NEW b \in Accounts, NEW r \in Rooms
      PROVE  (Unclaimed(b, r))' <=> Unclaimed(b, r) /\ ~(b = a /\ e = <<"claimed", r>>)
  <2>1. CASE b = a
    <3>1. <<"claimed", r>> \in Range(events[a]) <=> <<"claimed", r>> = e \/ <<"claimed", r>> \in Range(events'[a])
      BY <1>1
    <3> QED
      BY <1>1, <1>2, <2>1, <3>1 DEF Unclaimed
  <2>2. CASE b # a
    BY <1>1, <2>2 DEF Unclaimed
  <2> QED
    BY <2>1, <2>2
<1>4. ASSUME NEW b \in Accounts, NEW r \in Rooms, <<"accepted", r>> \in Range(events[b])
      PROVE  <<"accepted", r>> \in Range(events'[b]) \/ (b = a /\ e = <<"accepted", r>>)
  BY <1>1, <1>4
<1> QED
  BY <1>3, <1>4

\* Recording a delivery keeps DeliveryInv.
LEMMA RecordDelivery ==
  ASSUME TypeInv, DeliveryInv, setup' = setup, NEW a \in Accounts, Record(a)
  PROVE  DeliveryInv'
<1> DEFINE r == Head(events[a])[2]
<1>1. /\ UNCHANGED <<setup, rooms, members, run, prepared, events, published>>
      /\ Head(events[a])[1] = "accepted" /\ store' = AcceptIn(store, a, r)
      /\ \A b \in Accounts : b # a => applied'[b] = applied[b]
  BY DEF Record, roomVars, TypeInv, TypeOK
<1>2. /\ store'.saved = store.saved /\ store'.ready = store.ready /\ store'.claims = store.claims
      /\ store'.retired = store.retired /\ store'.runs = store.runs \cup {<<a, r>>}
  BY <1>1 DEF AcceptIn, Stores, TypeInv, TypeOK, ResultsTypeOK
<1> HIDE DEF r
<1>3. Durable' = Durable /\ \A b \in Accounts, q \in Rooms : (Unclaimed(b, q))' <=> Unclaimed(b, q)
  BY <1>1, <1>2 DEF Durable, Unclaimed
<1>4. MembersKnown' /\ EventsKnown'
  BY <1>1 DEF DeliveryInv, MembersKnown, EventsKnown, In
<1>5. EndsKnown'
  BY <1>1, <1>2 DEF DeliveryInv, EndsKnown, Kind
<1>6. ClaimsKnown'
  BY <1>1, <1>2, <1>3 DEF DeliveryInv, ClaimsKnown, In
<1>7. AppliedKnown'
  <2>1. ASSUME NEW b \in Accounts, applied'[b]
        PROVE  /\ Head(events[b])[1] = "accepted"
               /\ (Unclaimed(b, Head(events[b])[2]))' =>
                    Head(events[b])[2] \in Durable' \/ <<b, Head(events[b])[2]>> \in store'.runs
    <3>1. CASE b = a
      BY <1>1, <1>2, <3>1 DEF r
    <3>2. CASE b # a
      <4>1. applied[b] /\ ((Unclaimed(b, Head(events[b])[2]))' => Unclaimed(b, Head(events[b])[2]))
        BY <1>1, <2>1, <3>2 DEF Unclaimed
      <4> QED
        BY <1>2, <1>3, <4>1 DEF DeliveryInv, AppliedKnown
    <3> QED
      BY <3>1, <3>2
  <2> QED
    BY <1>1, <2>1 DEF AppliedKnown
<1> QED
  BY <1>4, <1>5, <1>6, <1>7 DEF DeliveryInv

\* Delivering an accepted run keeps DeliveryInv.
LEMMA AcceptDelivery ==
  ASSUME TypeInv, DeliveryInv, setup' = setup, NEW a \in Accounts, Accept(a)
  PROVE  DeliveryInv'
<1> DEFINE e == Head(events[a])
<1>1. /\ UNCHANGED <<setup, rooms, members, store, run, prepared, published>>
      /\ applied[a] /\ events[a] # << >> /\ Delivered(a)
  BY DEF Accept, resultVars, TypeInv, HandsKnown
<1>2. /\ e[1] = "accepted" /\ e[2] \in Rooms /\ e = <<e[1], e[2]>>
      /\ Unclaimed(a, e[2]) => e[2] \in Durable \/ <<a, e[2]>> \in store.runs
      /\ EventsKnown'
      /\ \A b \in Accounts : b # a => events'[b] = events[b] /\ applied'[b] = applied[b]
      /\ applied'[a] = FALSE
  BY <1>1, HeadGone DEF DeliveryInv, AppliedKnown
<1>3. /\ \A b \in Accounts, q \in Rooms :
           (Unclaimed(b, q))' <=> Unclaimed(b, q) /\ ~(b = a /\ e = <<"claimed", q>>)
      /\ \A b \in Accounts, q \in Rooms :
           <<"accepted", q>> \in Range(events[b]) =>
             <<"accepted", q>> \in Range(events'[b]) \/ (b = a /\ e = <<"accepted", q>>)
  BY <1>1, DeliveredKept
<1> HIDE DEF e
<1>4. Durable' = Durable /\ \A b \in Accounts, q \in Rooms : (Unclaimed(b, q))' <=> Unclaimed(b, q)
  <2>1. \A q \in Rooms : e # <<"claimed", q>>
    BY <1>2
  <2> QED
    BY <1>1, <1>3, <2>1 DEF Durable
<1>5. MembersKnown' /\ EndsKnown'
  BY <1>1 DEF DeliveryInv, MembersKnown, EndsKnown, In, Kind
<1>6. ClaimsKnown'
  <2>1. \A q \in Rooms : e = <<"accepted", q>> => e[2] = q
    OBVIOUS
  <2>2. ASSUME NEW b \in Accounts, NEW q \in Rooms
        PROVE  /\ <<"claimed", b, q>> \in published => <<"accepted", b, q>> \in published
               /\ run[b] = q => <<"accepted", b, q>> \in published
               /\ <<b, q>> \in store.claims => ~Unclaimed(b, q)
               /\ q \in store.retired /\ b \in In(q) => ~Unclaimed(b, q)
               /\ <<"accepted", b, q>> \in published /\ Unclaimed(b, q) =>
                    \/ q \in Durable \/ <<b, q>> \in store.runs
                    \/ <<"accepted", q>> \in Range(events'[b])
    <3>1. /\ <<"claimed", b, q>> \in published => <<"accepted", b, q>> \in published
          /\ run[b] = q => <<"accepted", b, q>> \in published
          /\ <<b, q>> \in store.claims => ~Unclaimed(b, q)
          /\ q \in store.retired /\ b \in In(q) => ~Unclaimed(b, q)
          /\ <<"accepted", b, q>> \in published /\ Unclaimed(b, q) =>
               \/ q \in Durable \/ <<b, q>> \in store.runs
               \/ <<"accepted", q>> \in Range(events[b])
      BY DEF DeliveryInv, ClaimsKnown
    <3> QED
      BY <1>2, <1>3, <2>1, <3>1
  <2> QED
    BY <1>1, <1>4, <2>2 DEF ClaimsKnown, In
<1>7. AppliedKnown'
  <2>1. ASSUME NEW b \in Accounts, applied'[b]
        PROVE  /\ b # a /\ Head(events[b])[1] = "accepted"
               /\ Unclaimed(b, Head(events[b])[2]) =>
                    Head(events[b])[2] \in Durable' \/ <<b, Head(events[b])[2]>> \in store'.runs
    BY <1>1, <1>2, <1>4, <2>1 DEF DeliveryInv, AppliedKnown
  <2>2. ASSUME NEW b \in Accounts, b # a
        PROVE  /\ events'[b] = events[b]
               /\ (Unclaimed(b, Head(events[b])[2]))' <=> Unclaimed(b, Head(events[b])[2])
    BY <1>1, <1>2, <2>2 DEF Unclaimed
  <2> QED
    BY <2>1, <2>2 DEF AppliedKnown
<1> QED
  BY <1>2, <1>5, <1>6, <1>7 DEF DeliveryInv

\* Delivering a claim keeps DeliveryInv.
LEMMA ClaimDelivery ==
  ASSUME TypeInv, ResultsInv, DeliveryInv, setup' = setup, NEW a \in Accounts, Claim(a)
  PROVE  DeliveryInv'
<1> DEFINE e == Head(events[a])  r == e[2]
<1>1. /\ UNCHANGED <<setup, rooms, members, run, prepared, published>>
      /\ events[a] # << >> /\ Delivered(a) /\ e[1] = "claimed" /\ store' = ClaimIn(store, a, r)
  BY DEF Claim, roomVars
<1>2. /\ r \in Rooms /\ e = <<e[1], e[2]>> /\ EventsKnown'
      /\ \A b \in Accounts : b # a => events'[b] = events[b] /\ applied'[b] = applied[b]
      /\ applied'[a] = FALSE
  BY <1>1, HeadGone
<1>3. /\ \A b \in Accounts, q \in Rooms :
           (Unclaimed(b, q))' <=> Unclaimed(b, q) /\ ~(b = a /\ e = <<"claimed", q>>)
      /\ \A b \in Accounts, q \in Rooms :
           <<"accepted", q>> \in Range(events[b]) =>
             <<"accepted", q>> \in Range(events'[b]) \/ (b = a /\ e = <<"accepted", q>>)
  BY <1>1, DeliveredKept
<1>4. store \in Stores /\ StoreOK(store)
  BY KnownStore DEF TypeInv, TypeOK, ResultsTypeOK, ResultsInv
<1>5. /\ store'.saved \cup store'.retired = store.saved \cup store.retired
      /\ store.ready \cup store.retired \subseteq store'.ready \cup store'.retired
      /\ store.retired \subseteq store'.retired /\ store'.retired \subseteq store.retired \cup {r}
      /\ store'.claims \subseteq store.claims \cup {<<a, r>>}
      /\ \A b \in Accounts : r \in store'.retired \ store.retired /\ b \in In(r) =>
                              <<b, r>> \in store.claims \cup {<<a, r>>}
      /\ \A b \in Accounts, q \in Rooms : <<b, q>> \in store.runs =>
           <<b, q>> \in store'.runs \/ q \in store'.retired \/ (b = a /\ q = r)
  BY <1>1, <1>2, <1>4, ClaimKeeps
<1> HIDE DEF e, r
<1>6. /\ e = <<"claimed", r>>
      /\ \A b \in Accounts, q \in Rooms : (Unclaimed(b, q))' <=> Unclaimed(b, q) /\ ~(b = a /\ q = r)
      /\ \A b \in Accounts, q \in Rooms : <<"accepted", q>> \in Range(events[b]) => <<"accepted", q>> \in Range(events'[b])
  <2>1. e = <<"claimed", r>>
    BY <1>1, <1>2 DEF r
  <2>2. \A q \in Rooms : e # <<"accepted", q>> /\ (e = <<"claimed", q>> <=> q = r)
    BY <2>1
  <2> QED
    BY <1>3, <2>1, <2>2
<1>7. Durable' = Durable
  BY <1>5 DEF Durable
<1>8. MembersKnown' /\ EndsKnown'
  BY <1>1, <1>5 DEF DeliveryInv, MembersKnown, EndsKnown, In, Kind
<1>9. ClaimsKnown'
  <2>1. ASSUME NEW b \in Accounts, NEW q \in Rooms
        PROVE  /\ <<"claimed", b, q>> \in published => <<"accepted", b, q>> \in published
               /\ run[b] = q => <<"accepted", b, q>> \in published
               /\ <<b, q>> \in store'.claims => ~(Unclaimed(b, q))'
               /\ q \in store'.retired /\ b \in In(q) => ~(Unclaimed(b, q))'
               /\ <<"accepted", b, q>> \in published /\ (Unclaimed(b, q))' =>
                    \/ q \in Durable' \/ <<b, q>> \in store'.runs
                    \/ <<"accepted", q>> \in Range(events'[b])
    <3>1. /\ <<"claimed", b, q>> \in published => <<"accepted", b, q>> \in published
          /\ run[b] = q => <<"accepted", b, q>> \in published
          /\ <<b, q>> \in store.claims => ~Unclaimed(b, q)
          /\ q \in store.retired /\ b \in In(q) => ~Unclaimed(b, q)
          /\ <<"accepted", b, q>> \in published /\ Unclaimed(b, q) =>
               \/ q \in Durable \/ <<b, q>> \in store.runs
               \/ <<"accepted", q>> \in Range(events[b])
      BY DEF DeliveryInv, ClaimsKnown
    <3>2. <<b, q>> \in store'.claims => <<b, q>> \in store.claims \/ (b = a /\ q = r)
      BY <1>5
    <3>3. q \in store'.retired /\ b \in In(q) =>
            q \in store.retired \/ <<b, q>> \in store.claims \/ (b = a /\ q = r)
      BY <1>5
    <3>4. q \in store'.retired => q \in Durable'
      BY DEF Durable
    <3> QED
      BY <1>5, <1>6, <1>7, <3>1, <3>2, <3>3, <3>4
  <2> QED
    BY <1>1, <2>1 DEF ClaimsKnown, In
<1>10. AppliedKnown'
  <2>1. ASSUME NEW b \in Accounts, applied'[b]
        PROVE  /\ b # a /\ Head(events[b])[1] = "accepted"
               /\ Unclaimed(b, Head(events[b])[2]) =>
                    Head(events[b])[2] \in Durable' \/ <<b, Head(events[b])[2]>> \in store'.runs
    <3>1. b # a /\ applied[b]
      BY <1>2, <2>1
    <3>2. Head(events[b])[2] \in Rooms
      BY <3>1, HeadRoom, TypeParts DEF TypeInv, HandsKnown
    <3>3. \A q \in Rooms : <<b, q>> \in store.runs => <<b, q>> \in store'.runs \/ q \in Durable'
      BY <1>5, <3>1 DEF Durable
    <3> QED
      BY <1>7, <3>1, <3>2, <3>3 DEF DeliveryInv, AppliedKnown
  <2>2. ASSUME NEW b \in Accounts, b # a
        PROVE  /\ events'[b] = events[b]
               /\ (Unclaimed(b, Head(events[b])[2]))' <=> Unclaimed(b, Head(events[b])[2])
    BY <1>1, <1>2, <2>2 DEF Unclaimed
  <2> QED
    BY <2>1, <2>2 DEF AppliedKnown
<1> QED
  BY <1>2, <1>8, <1>9, <1>10 DEF DeliveryInv

\* Every step keeps DeliveryInv.
LEMMA DeliveryStep ==
  ASSUME TypeInv, ResultsInv, DeliveryInv, [Next]_vars
  PROVE  DeliveryInv'
<1>1. CASE UNCHANGED vars
  <2>1. UNCHANGED <<setup, rooms, members, published, events, run, applied, store, prepared>>
    BY <1>1 DEF vars, resultVars, roomVars, playVars
  <2> QED
    BY <2>1, QuietDelivery, KeepsSame
<1>2. CASE Next
  <2>1. setup' = setup
    BY <1>2 DEF Next
  <2> QED
    BY <1>2, <2>1, RoomingDelivery, PersistsDelivery, CommandsDelivery, RecordDelivery,
       AcceptDelivery, ClaimDelivery, QuitDelivery, BeginsDelivery DEF Next, Delivers
<1> QED
  BY <1>1, <1>2

\* The first state has DeliveryInv.
LEMMA DeliveryStart == Init => DeliveryInv
<1>1. SUFFICES ASSUME Init PROVE DeliveryInv
  OBVIOUS
<1>2. /\ published = {} /\ store = EmptyStore /\ run = [a \in Accounts |-> None]
      /\ events = [a \in Accounts |-> << >>] /\ applied = [a \in Accounts |-> FALSE]
      /\ prepared = [a \in Accounts |-> "none"]
  BY <1>1 DEF Init, ResultsInit
<1>3. \A a \in Accounts : Len(events[a]) = 0
  BY <1>2
<1>4. 1..0 = {}
  OBVIOUS
<1>5. MembersKnown /\ AppliedKnown /\ EndsKnown
  BY <1>2 DEF MembersKnown, AppliedKnown, EndsKnown
<1>6. EventsKnown
  BY <1>3, <1>4 DEF EventsKnown
<1>7. ClaimsKnown
  BY <1>2, RoomAssumption DEF ClaimsKnown, EmptyStore
<1> QED
  BY <1>5, <1>6, <1>7 DEF DeliveryInv

-----------------------------------------------------------------------------
(* Abandoned runs: a room that departed stays so *)

\* A departed room stays so while rooms and results stay.
LEMMA DepartedKeeps ==
  ASSUME NEW r \in Rooms, Departed(r), rooms'[r].phase \in {"gone", "stopped"},
         r \in Durable' => r \in Durable, (Held(r))' => Held(r)
  PROVE  (Departed(r))'
BY DEF Departed

\* The manager leaves departed rooms departed,
LEMMA RoomingDeparted ==
  ASSUME TypeInv, ResultsInv, Rooming, NEW r \in Rooms, Departed(r)
  PROVE  (Departed(r))'
<1>1. store' = store /\ worker' = worker
  BY RoomingFrame DEF unheld
<1>2. rooms[r].phase \in {"gone", "stopped"} /\ ~Starts(r) /\ ~Leaves(r) /\ ~Ends(r)
  BY DEF Departed, Starts, Leaves, Ends, Turns, Early, Playing
<1>3. rooms'[r].phase \in {"gone", "stopped"}
  BY <1>2, RoomingMoves DEF RoomsMove, Same
<1>4. (Held(r))' => Held(r)
  <2>1. CASE UNCHANGED queue
    BY <1>1, <2>1 DEF Held
  <2>2. ASSUME NEW q \in Rooms, Ends(q) PROVE (Held(r))' => Held(r)
    BY <1>1, <1>2, <2>2, EndsPublish
  <2> QED
    BY <2>1, <2>2, RoomingMoves DEF RoomsMove
<1> QED
  BY <1>1, <1>3, <1>4, DepartedKeeps DEF Durable

\* and so does the worker.
LEMMA PersistsDeparted ==
  ASSUME TypeInv, ResultsInv, Persists \/ (Defer /\ UNCHANGED roomVars),
         setup' = setup, NEW r \in Rooms, Departed(r)
  PROVE  (Departed(r))'
<1>1. ~Held(r) /\ r # worker.room /\ rooms[r].phase \in {"gone", "stopped"} /\ r # None
  BY RoomAssumption DEF Departed, Held
<1>2. CASE Take /\ UNCHANGED roomVars
  <2>1. /\ queue \in Seq(Rooms) /\ queue # << >> /\ worker'.room = Head(queue) /\ queue' = Tail(queue)
        /\ UNCHANGED <<store, rooms>>
    BY <1>2 DEF Take, TypeInv, TypeOK, ResultsTypeOK, roomVars
  <2>2. Range(queue) = {Head(queue)} \cup Range(Tail(queue))
    BY <2>1, QueueRange
  <2> QED
    BY <1>1, <2>1, <2>2, DepartedKeeps DEF Held, Durable
<1>3. CASE (Save \/ Rank \/ MarkReady) /\ UNCHANGED roomVars
  <2> DEFINE q == worker.room
  <2>1. q \in Rooms /\ store \in Stores /\ StoreOK(store)
    BY <1>3, InHands DEF Save, Rank, MarkReady
  <2>2. Keeps(store, store', q)
    <3>1. CASE Save
      BY <2>1, <3>1, SaveKeeps DEF Save
    <3>2. CASE Rank
      BY <2>1, <3>2, RankKeeps DEF Rank
    <3>3. CASE MarkReady
      <4>1. /\ q \in Durable
            /\ Kind = "action" => q \in store.ranked
        BY <3>3 DEF MarkReady, ResultsInv, WorkerKnown
      <4> QED
        BY <2>1, <3>3, <4>1, ReadyKeeps DEF MarkReady, Durable
    <3> QED
      BY <1>3, <3>1, <3>2, <3>3
  <2>3. /\ UNCHANGED <<rooms, queue>> /\ worker'.room = worker.room
    BY <1>3 DEF Save, Rank, MarkReady, roomVars, TypeInv, TypeOK, ResultsTypeOK
  <2> QED
    BY <1>1, <2>2, <2>3, DepartedKeeps DEF Held, Durable, Keeps
<1>4. CASE Defer /\ UNCHANGED roomVars
  <2>1. UNCHANGED <<rooms, queue, store>> /\ worker'.room = worker.room
    BY <1>4 DEF Defer, roomVars, TypeInv, TypeOK, ResultsTypeOK
  <2> QED
    BY <1>1, <2>1, DepartedKeeps DEF Held, Durable
<1>5. CASE Acknowledge
  <2>1. UNCHANGED <<queue, store>> /\ worker'.room = None
    BY <1>5 DEF Acknowledge, Idle
  <2>2. rooms'[r].phase = rooms[r].phase
    BY <1>5, InHands, AcknowledgedRooms DEF Acknowledge
  <2> QED
    BY <1>1, <2>1, <2>2, DepartedKeeps DEF Held, Durable
<1> QED
  BY <1>2, <1>3, <1>4, <1>5 DEF Persists, Worker

\* A departed room stays departed.
LEMMA DepartedStays ==
  ASSUME TypeInv, ResultsInv, Next, NEW r \in Rooms, Departed(r)
  PROVE  (Departed(r))'
<1>1. setup' = setup /\ store \in Stores /\ StoreOK(store)
  BY KnownStore DEF Next, ResultsInv, TypeInv, TypeOK, ResultsTypeOK
<1>2. ASSUME UNCHANGED <<rooms, queue, worker>>, Durable' = Durable PROVE (Departed(r))'
  BY <1>2 DEF Departed, Held
<1>3. CASE Rooming \/ Persists \/ (Defer /\ UNCHANGED roomVars)
  BY <1>1, <1>3, RoomingDeparted, PersistsDeparted
<1>4. CASE Commands
  BY <1>2, <1>4, CommandSteps DEF TypeInv, roomVars, Durable
<1>5. ASSUME NEW a \in Accounts, Delivers(a) PROVE (Departed(r))'
  <2>1. UNCHANGED <<rooms, queue, worker>>
    BY <1>5 DEF Delivers, Record, Accept, Claim, roomVars, resultVars
  <2>2. CASE Record(a)
    <3>1. \E q : store' = AcceptIn(store, a, q)
      BY <2>2 DEF Record
    <3>2. Durable' = Durable
      BY <1>1, <3>1 DEF AcceptIn, Stores, Durable
    <3> QED
      BY <1>2, <2>1, <3>2
  <2>3. CASE Accept(a)
    BY <1>2, <2>1, <2>3 DEF Accept, resultVars, Durable
  <2>4. CASE Claim(a)
    <3>1. Head(events[a])[2] \in Rooms /\ store' = ClaimIn(store, a, Head(events[a])[2])
      BY <2>4, HeadRoom, TypeParts DEF Claim, TypeInv
    <3>2. Durable' = Durable
      BY <1>1, <3>1, ClaimKeeps DEF Durable
    <3> QED
      BY <1>2, <2>1, <3>2
  <2> QED
    BY <1>5, <2>2, <2>3, <2>4 DEF Delivers
<1>6. CASE Crash \/ Exit
  <2>1. Halt
    BY <1>6 DEF Crash, Exit, Quit
  <2>2. Range(queue') = {} /\ worker'.room = None /\ store' = store
    BY <2>1 DEF Halt, Range, Idle
  <2>3. rooms'[r].phase = "gone"
    BY <2>1, HaltedRooms DEF Departed
  <2>4. ~(Held(r))'
    BY <2>2, RoomAssumption DEF Held
  <2> QED
    BY <2>2, <2>3, <2>4, DepartedKeeps DEF Durable
<1>7. CASE Begins
  <2>1. CASE Restart
    BY <1>2, <2>1 DEF Restart, resultVars, Durable
  <2>2. ASSUME NEW q \in Rooms, Recover(q) PROVE (Departed(r))'
    <3>1. Durable' = Durable
      BY <2>2, RecoverKeeps DEF Recover, Durable
    <3> QED
      BY <1>2, <2>2, <3>1 DEF Recover, RecoverResult, roomVars
  <2> QED
    BY <1>7, <2>1, <2>2 DEF Begins
<1> QED
  BY <1>3, <1>4, <1>5, <1>6, <1>7 DEF Next

-----------------------------------------------------------------------------
(* Abandoned runs: who loses a place *)

\* Account a, in a room that has started, loses its place as the history says,
\* or after the end of the room, or with a room removed while it does not look.
KeepsPlace(a, r) ==
  rooms[r].phase \notin {"free", "lobby"} /\ membership[a] = r =>
    \/ membership'[a] = r
    \/ <<a, r>> \in excused'
    \/ rooms[r].phase = "over" /\ rooms[r].queued /\ rooms' = rooms /\ a \notin reading
    \/ rooms'[r].phase = "gone" /\ (a \notin reading \/ rooms[r].persisted)

\* An account that has a place in another room is not affected.
LEMMA OtherPlace ==
  ASSUME TypeInv, NEW b \in Accounts, NEW x, membership' = [membership EXCEPT ![b] = x],
         NEW a \in Accounts, NEW r \in Rooms,
         a = b /\ membership[b] = r => x = r \/ rooms[r].phase = "lobby" \/ <<b, r>> \in excused'
  PROVE  KeepsPlace(a, r)
BY DEF KeepsPlace, TypeInv, TypeOK, ManagerTypeOK

\* Matching keeps the place of an account with a run,
LEMMA MatchingPlaces ==
  ASSUME TypeInv, Matching, NEW a \in Accounts, NEW r \in Rooms
  PROVE  KeepsPlace(a, r) /\ excused \subseteq excused'
<1>0. /\ rooms \in [Rooms -> RoomStates] /\ membership \in [Accounts -> Rooms \cup {None}]
      /\ None \notin Rooms
  BY RoomAssumption DEF TypeInv, TypeOK, ManagerTypeOK
<1>1. PICK b \in Accounts :
        \/ Search(b) \/ Move(b) \/ CloseOld(b) \/ Rematch(b)
        \/ \E q \in Rooms :
             \/ \E auto \in BOOLEAN : Create(b, q, auto)
             \/ Join(b, q) \/ LeaveMatching(b, q) \/ HostStarts(b, q) \/ StopSearch(b, q)
  BY DEF Matching
<1>2. ASSUME membership' = membership PROVE KeepsPlace(a, r)
  BY <1>2 DEF KeepsPlace
<1>3. CASE Search(b) \/ CloseOld(b)
  BY <1>2, <1>3 DEF Search, CloseOld
<1>4. CASE Move(b)
  <2>1. CASE membership' = membership /\ excused' = excused
    BY <1>2, <2>1
  <2>2. CASE ~(membership' = membership /\ excused' = excused)
    <3>1. /\ membership[b] = moving[b].from /\ Enter(b, moving[b].to)
          /\ excused' = excused \cup (IF rooms[membership[b]].phase = "lobby" THEN {}
                                       ELSE {<<b, membership[b]>>})
      BY <1>4, <2>2 DEF Move
    <3>2. membership' = [membership EXCEPT ![b] = moving[b].to]
      BY <3>1 DEF Enter
    <3>3. membership[b] = r => rooms[r].phase = "lobby" \/ <<b, r>> \in excused'
      BY <3>1
    <3> QED
      BY <3>1, <3>2, <3>3, OtherPlace
  <2> QED
    BY <2>1, <2>2
<1>5. CASE Rematch(b)
  <2>1. /\ membership' = [membership EXCEPT ![b] = None] /\ rooms' = rooms
        /\ rooms[membership[b]].phase = "over"
        /\ excused' = IF rooms[membership[b]].queued /\ b \notin reading THEN excused
                      ELSE excused \cup {<<b, membership[b]>>}
    BY <1>5 DEF Rematch
  <2>2. a # b => membership'[a] = membership[a]
    BY <1>0, <2>1
  <2>3. membership[b] = r /\ ~(rooms[r].queued /\ b \notin reading) => <<b, r>> \in excused'
    BY <2>1
  <2> QED
    BY <2>1, <2>2, <2>3 DEF KeepsPlace
<1>6. ASSUME NEW q \in Rooms, NEW auto \in BOOLEAN, Create(b, q, auto)
      PROVE  KeepsPlace(a, r) /\ excused \subseteq excused'
  <2>1. membership[b] = None /\ membership' = [membership EXCEPT ![b] = q] /\ excused' = excused
    BY <1>6 DEF Create
  <2> QED
    BY <1>0, <2>1, OtherPlace
<1>7. ASSUME NEW q \in Rooms, Join(b, q)
      PROVE  KeepsPlace(a, r) /\ excused \subseteq excused'
  <2>1. membership[b] = None /\ membership' = [membership EXCEPT ![b] = q] /\ excused' = excused
    BY <1>7 DEF Join, Enter
  <2> QED
    BY <1>0, <2>1, OtherPlace
<1>8. ASSUME NEW q \in Rooms, LeaveMatching(b, q)
      PROVE  KeepsPlace(a, r) /\ excused \subseteq excused'
  <2>1. /\ membership' = [membership EXCEPT ![b] = None] /\ rooms[q].phase = "lobby"
        /\ excused' = excused \cup PlacesLost({b}, q)
    BY <1>8 DEF LeaveMatching
  <2>2. membership[b] = r /\ r # q => <<b, r>> \in PlacesLost({b}, q)
    BY <1>0 DEF PlacesLost
  <2> QED
    BY <2>1, <2>2, OtherPlace
<1>9. ASSUME NEW q \in Rooms, HostStarts(b, q) \/ StopSearch(b, q)
      PROVE  KeepsPlace(a, r) /\ excused \subseteq excused'
  BY <1>2, <1>9 DEF HostStarts, StopSearch
<1> QED
  BY <1>1, <1>3, <1>4, <1>5, <1>6, <1>7, <1>8, <1>9

\* so does a game,
LEMMA GamePlaces ==
  ASSUME Game
  PROVE  membership' = membership /\ excused' = excused
<1>1. PICK a \in Accounts, r \in Rooms :
        \/ Attach(a, r) \/ Reconnect(a, r) \/ Disconnect(a, r)
        \/ Ready(a, r) \/ Sail(a, r) \/ Leave(a, r) \/ Slain(a, r)
        \/ \E client \in {"dead", "left", "cleared"} : Fare(a, r, client)
  BY DEF Game
<1>2. CASE Attach(a, r) \/ Reconnect(a, r) \/ Disconnect(a, r) \/ Ready(a, r) \/ Sail(a, r)
  BY <1>2 DEF Attach, Reconnect, Disconnect, Ready, Sail, places
<1>3. CASE Leave(a, r) \/ Slain(a, r) \/ \E client \in {"dead", "left", "cleared"} : Fare(a, r, client)
  BY <1>3 DEF Leave, Slain, Fare, places
<1> QED
  BY <1>1, <1>2, <1>3

\* so does a removal, or it excuses the account,
LEMMA ExpirePlaces ==
  ASSUME TypeInv, NEW q \in Rooms, NEW late, NEW limit, Expire(q, late, limit),
         NEW a \in Accounts, NEW r \in Rooms
  PROVE  KeepsPlace(a, r) /\ excused \subseteq excused'
<1>0. /\ rooms \in [Rooms -> RoomStates] /\ membership \in [Accounts -> Rooms \cup {None}]
  BY DEF TypeInv, TypeOK, ManagerTypeOK
<1>1. \/ UNCHANGED places
      \/ /\ rooms[q].closed \/ Retires(q, limit)
         /\ \E x \in {Over(rooms[q]), rooms[q]} : rooms' = [rooms EXCEPT ![q] = Removed(x)]
         /\ membership' = Unlist({}, q)
         /\ excused' = excused \cup
              {<<b, q>> : b \in {c \in reading : rooms[q].closed /\ membership[c] = q}}
  BY DEF Expire
<1>2. CASE UNCHANGED places
  BY <1>2 DEF places, KeepsPlace
<1>3. CASE /\ rooms[q].closed \/ Retires(q, limit)
           /\ \E x \in {Over(rooms[q]), rooms[q]} : rooms' = [rooms EXCEPT ![q] = Removed(x)]
           /\ membership' = Unlist({}, q)
           /\ excused' = excused \cup
                {<<b, q>> : b \in {c \in reading : rooms[q].closed /\ membership[c] = q}}
  <2>1. membership'[a] = IF membership[a] = q THEN None ELSE membership[a]
    BY <1>3 DEF Unlist
  <2>2. rooms'[q].phase = "gone"
    <3>1. PICK x : rooms' = [rooms EXCEPT ![q] = Removed(x)]
      BY <1>3
    <3>2. rooms'[q] = Removed(x)
      BY <1>0, <3>1
    <3>3. Removed(x).phase = "gone"
      BY Zenon DEF Removed, NoRoom
    <3> QED
      BY <3>2, <3>3
  <2>3. ~rooms[q].closed => rooms[q].persisted
    BY <1>3 DEF Retires
  <2>4. membership[a] = q /\ a \in reading /\ rooms[q].closed => <<a, q>> \in excused'
    BY <1>3
  <2> QED
    BY <1>3, <2>1, <2>2, <2>3, <2>4 DEF KeepsPlace
<1> QED
  BY <1>1, <1>2, <1>3

\* so do the timers,
LEMMA TickPlaces ==
  ASSUME TypeInv, Ticks, NEW a \in Accounts, NEW r \in Rooms
  PROVE  KeepsPlace(a, r) /\ excused \subseteq excused'
<1>1. ASSUME NEW q \in Rooms, ExpireMatching(q)
      PROVE  KeepsPlace(a, r) /\ excused \subseteq excused'
  <2>1. /\ rooms[q].phase = "lobby" /\ excused' = excused
        /\ membership'[a] = IF membership[a] = q THEN None ELSE membership[a]
    BY <1>1 DEF ExpireMatching, Unlist
  <2> QED
    BY <2>1 DEF KeepsPlace
<1>2. ASSUME NEW q \in Rooms, NEW late \in SUBSET Gone(q), ExpireLobby(q, late)
      PROVE  KeepsPlace(a, r) /\ excused \subseteq excused'
  <2>1. /\ rooms[q].phase = "lobby" /\ excused' = excused \cup PlacesLost(late, q)
        /\ \/ membership'[a] = membership[a] \/ membership[a] = q \/ a \in late
    BY <1>2 DEF ExpireLobby, Unlist
  <2>2. membership[a] = r /\ r # q /\ a \in late => <<a, r>> \in PlacesLost(late, q)
    BY RoomAssumption DEF PlacesLost
  <2> QED
    BY <2>1, <2>2 DEF KeepsPlace
<1>3. ASSUME NEW q \in Rooms, Stop(q)
      PROVE  KeepsPlace(a, r) /\ excused \subseteq excused'
  BY <1>3 DEF Stop, places, KeepsPlace
<1> QED
  BY <1>1, <1>2, <1>3, ExpirePlaces DEF Ticks, Limit

\* and so does every step of the manager.
LEMMA RoomingPlaces ==
  ASSUME TypeInv, Rooming, NEW a \in Accounts, NEW r \in Rooms
  PROVE  KeepsPlace(a, r) /\ excused \subseteq excused'
<1>1. CASE Game
  BY <1>1, GamePlaces DEF KeepsPlace
<1>2. CASE Close
  BY <1>2 DEF Close, places, KeepsPlace
<1> QED
  BY <1>1, <1>2, MatchingPlaces, TickPlaces DEF Rooming

-----------------------------------------------------------------------------
(* Abandoned runs: what a command knows *)

\* The run of an unclaimed result is not of a room that was retired.
LEMMA LooksAtDurable ==
  ASSUME TypeInv, ResultsInv, DeliveryInv, NEW a \in Accounts, NEW r \in Rooms, run[a] = r,
         RunKnown(a, r), r \notin store.saved
  PROVE  r \notin Durable
<1>1. rooms[r].ended => a \in In(r)
  BY RunKept, RoomAssumption
<1>2. r \in store.retired => rooms[r].ended
  BY DEF ResultsInv, ResultsKnown, Durable
<1>3. r \in store.retired => <<"claimed", a, r>> \in published
  BY <1>1, <1>2 DEF DeliveryInv, ClaimsKnown, Unclaimed
<1> QED
  BY <1>3 DEF RunKnown, Durable

\* A run of a room whose result is not durable when the store is looked at,
\* and that its account is not in any more, is of a room that departed.
LEMMA LooksAtDeparted ==
  ASSUME TypeInv, ResultsInv, DeliveryInv, NEW a \in Accounts, NEW r \in Rooms, run[a] = r,
         RunKnown(a, r), <<a, r>> \notin excused, r \notin store.saved
  PROVE  r \notin pending => membership[a] = r \/ Departed(r)
<1>1. /\ <<"accepted", a, r>> \in published /\ rooms[r].phase \notin {"free", "lobby"}
      /\ rooms[r].ended => a \in In(r)
  BY RunKept, RoomAssumption
<1>2. r \notin Durable
  BY LooksAtDurable
<1>3. r \notin pending => ~Held(r)
  <2>1. ASSUME r \in Range(queue) PROVE r \in pending
    <3>1. Range(queue) = {queue[i] : i \in 1..Len(queue)}
      BY QueueRange DEF TypeInv, TypeOK, ResultsTypeOK
    <3> QED
      BY <2>1, <3>1 DEF ResultsInv, QueueKnown
  <2>2. worker.room = r => worker.step # "idle"
    BY RoomAssumption DEF TypeInv, HandsKnown
  <2> QED
    BY <1>2, <2>1, <2>2 DEF Held, ResultsInv, WorkerKnown
<1>4. ASSUME r \notin pending, membership[a] # r PROVE rooms[r].phase \in {"gone", "stopped"}
  <2>1. rooms[r].phase = "over" => ~rooms[r].queued
    <3>1. rooms[r].phase = "over" => rooms[r].ended /\ r \notin lost /\ ~Dropped(r)
      BY DEF ResultsInv, PhasesKnown, ResultsKnown, Dropped
    <3>2. ~Held(r)
      BY <1>3, <1>4
    <3>3. rooms[r].phase = "over" => InFlight(r)
      BY <1>2, <3>1 DEF ResultsInv, NothingLost
    <3> QED
      BY <3>2, <3>3 DEF InFlight, Held
  <2>2. rooms[r].phase \notin Playing \/ (rooms[r].phase = "over" /\ rooms[r].queued)
    BY <1>4 DEF RunKnown
  <2>3. rooms[r] \in RoomStates
    BY DEF TypeInv, TypeOK, ManagerTypeOK
  <2>4. rooms[r].phase \in {"free", "lobby", "stopped", "gone"} \cup Playing
    BY <2>3 DEF RoomStates
  <2> QED
    BY <1>1, <2>1, <2>2, <2>4
<1> QED
  BY <1>2, <1>3, <1>4 DEF Departed

\* Runs that stay what they are, while the rooms and the places move on.
LEMMA RunStays ==
  ASSUME TypeInv, ResultsInv, DeliveryInv, NEW a \in Accounts, NEW r \in Rooms,
         run[a] = r, RunKnown(a, r), <<"claimed", a, r>> \notin published',
         prepared'[a] \in {prepared[a], "none"}, excused \subseteq excused',
         prepared'[a] = "looking" => (r \in Durable' => r \in Durable),
         Departed(r) => (Departed(r))', KeepsPlace(a, r),
         \/ rooms'[r].phase \in {"gone", "stopped"}
         \/ rooms'[r].phase = rooms[r].phase /\ rooms'[r].queued = rooms[r].queued
         \/ rooms'[r].phase \in Playing /\ rooms[r].phase \in Playing /\ ~rooms[r].queued
         \/ rooms'[r].phase \in Playing /\ rooms[r].phase \in {"loading", "running"}
  PROVE  (RunKnown(a, r))'
<1>1. rooms[r].phase \notin {"free", "lobby"}
  BY RunKept, RoomAssumption
<1>2. prepared[a] = "looking" <=> a \in reading
  BY DEF TypeInv, TypeOK
<1>3. prepared'[a] = "looking" => prepared[a] = "looking" /\ r \notin Durable'
  BY DEF RunKnown
<1>4. CASE <<a, r>> \in excused'
  BY <1>3, <1>4 DEF RunKnown
<1>5. CASE <<a, r>> \notin excused'
  <2>1. /\ prepared[a] = "abandoned" => Departed(r)
        /\ prepared[a] = "looking" => membership[a] = r \/ Departed(r)
        /\ \/ membership[a] = r \/ rooms[r].phase \notin Playing
           \/ rooms[r].phase = "over" /\ rooms[r].queued
    BY <1>5 DEF RunKnown
  <2>2. membership[a] = r =>
          \/ membership'[a] = r
          \/ rooms[r].phase = "over" /\ rooms[r].queued /\ rooms' = rooms /\ a \notin reading
          \/ rooms'[r].phase = "gone" /\ (a \notin reading \/ rooms[r].persisted)
    BY <1>1, <1>5 DEF KeepsPlace
  <2>3. rooms[r].persisted => r \in Durable
    BY DEF ResultsInv, ResultsKnown
  <2>4. prepared'[a] = "looking" => membership'[a] = r \/ (Departed(r))'
    BY <1>2, <1>3, <2>1, <2>2, <2>3 DEF RunKnown
  <2>5. prepared'[a] = "abandoned" => (Departed(r))'
    BY <2>1
  <2>6. \/ membership'[a] = r \/ rooms'[r].phase \notin Playing
        \/ rooms'[r].phase = "over" /\ rooms'[r].queued
    BY <2>1, <2>2 DEF Playing
  <2> QED
    BY <1>3, <2>4, <2>5, <2>6 DEF RunKnown
<1> QED
  BY <1>4, <1>5

\* What the steps of the rooms do to one that has started.
LEMMA StartedPhases ==
  ASSUME RoomsMove, NEW r \in Rooms, rooms[r].phase \notin {"free", "lobby"}
  PROVE  \/ rooms'[r].phase \in {"gone", "stopped"}
         \/ rooms'[r].phase = rooms[r].phase /\ rooms'[r].queued = rooms[r].queued
         \/ rooms'[r].phase \in Playing /\ rooms[r].phase \in Playing /\ ~rooms[r].queued
         \/ rooms'[r].phase \in Playing /\ rooms[r].phase \in {"loading", "running"}
<1>1. Same(r) \/ Starts(r) \/ Leaves(r) \/ Ends(r)
  BY DEF RoomsMove
<1>2. CASE Same(r)
  BY <1>2 DEF Same, Alike
<1>3. CASE Starts(r)
  BY <1>3 DEF Starts, Turns, Early, Playing
<1>4. CASE Leaves(r)
  BY <1>4 DEF Leaves, Turns
<1>5. CASE Ends(r)
  BY <1>5 DEF Ends, Turns, Playing
<1> QED
  BY <1>1, <1>2, <1>3, <1>4, <1>5

\* Rooms, places and what is known of the runs stay as they are.
LEMMA RunQuiet ==
  ASSUME TypeInv, ResultsInv, DeliveryInv, Next, NEW a \in Accounts, NEW r \in Rooms,
         run[a] = r, RunKnown(a, r), UNCHANGED <<membership, excused, published>>,
         prepared'[a] \in {prepared[a], "none"},
         prepared'[a] = "looking" => (r \in Durable' => r \in Durable),
         rooms'[r].phase = rooms[r].phase, rooms'[r].queued = rooms[r].queued
  PROVE  (RunKnown(a, r))'
<1>1. <<"claimed", a, r>> \notin published'
  BY DEF RunKnown
<1>2. KeepsPlace(a, r)
  BY DEF KeepsPlace
<1>3. Departed(r) => (Departed(r))'
  BY DepartedStays
<1> QED
  BY <1>1, <1>2, <1>3, RunStays

\* The manager keeps what commands know of the runs,
LEMMA RoomingRuns ==
  ASSUME TypeInv, ResultsInv, DeliveryInv, Rooming, UNCHANGED playVars,
         NEW a \in Accounts, NEW r \in Rooms, run[a] = r, RunKnown(a, r)
  PROVE  (RunKnown(a, r))'
<1>1. UNCHANGED <<published, prepared, store>>
  BY RoomingFrame DEF playVars, unheld
<1>2. rooms[r].phase \notin {"free", "lobby"}
  BY RunKept, RoomAssumption
<1>3. <<"claimed", a, r>> \notin published'
  BY <1>1 DEF RunKnown
<1>4. Departed(r) => (Departed(r))'
  BY RoomingDeparted
<1>5. /\ KeepsPlace(a, r) /\ excused \subseteq excused'
  BY RoomingPlaces
<1>6. Durable' = Durable
  BY <1>1 DEF Durable
<1>7. RoomsMove
  BY RoomingMoves
<1> QED
  BY <1>1, <1>2, <1>3, <1>4, <1>5, <1>6, <1>7, StartedPhases, RunStays

\* so does the worker,
LEMMA PersistsRuns ==
  ASSUME TypeInv, ResultsInv, DeliveryInv, Next, Persists \/ (Defer /\ UNCHANGED roomVars),
         UNCHANGED playVars, NEW a \in Accounts, NEW r \in Rooms, run[a] = r, RunKnown(a, r)
  PROVE  (RunKnown(a, r))'
<1>1. UNCHANGED <<published, prepared>>
  BY DEF playVars
<1>2. UNCHANGED <<membership, excused>>
  BY DEF Persists, Worker, Acknowledge, roomVars, places
<1>3. prepared[a] = "looking" => Durable' = Durable
  <2>1. prepared[a] = "looking" => ~StoreFree
    BY DEF TypeInv, TypeOK, StoreFree
  <2> QED
    BY <2>1 DEF Persists, Worker, Take, Save, Rank, MarkReady, Defer, Acknowledge, Durable
<1>4. rooms'[r].phase = rooms[r].phase /\ rooms'[r].queued = rooms[r].queued
  <2>1. CASE Acknowledge
    BY <2>1, InHands, AcknowledgedRooms DEF Acknowledge
  <2>2. CASE UNCHANGED roomVars
    BY <2>2 DEF roomVars
  <2> QED
    BY <2>1, <2>2 DEF Persists
<1> QED
  BY <1>1, <1>2, <1>3, <1>4, RunQuiet

\* so do deliveries,
LEMMA DeliveryRuns ==
  ASSUME TypeInv, ResultsInv, DeliveryInv, Next, NEW b \in Accounts, Delivers(b),
         NEW a \in Accounts, NEW r \in Rooms, run[a] = r, RunKnown(a, r)
  PROVE  (RunKnown(a, r))'
<1>1. UNCHANGED <<membership, excused, published, prepared, rooms>>
  BY DEF Delivers, Record, Accept, Claim, roomVars, places
<1>2. prepared[a] = "looking" => Durable' = Durable
  <2>1. prepared[a] = "looking" => ~StoreFree
    BY DEF TypeInv, TypeOK, StoreFree
  <2> QED
    BY <2>1 DEF Delivers, Record, Accept, Claim, resultVars, Durable
<1> QED
  BY <1>1, <1>2, RunQuiet

\* so does a stop,
LEMMA QuitRuns ==
  ASSUME TypeInv, ResultsInv, DeliveryInv, Next, Crash \/ Exit,
         NEW a \in Accounts, NEW r \in Rooms, run[a] = r, RunKnown(a, r)
  PROVE  (RunKnown(a, r))'
<1>1. /\ Halt /\ prepared'[a] = "none" /\ UNCHANGED <<published, excused>>
  BY DEF Crash, Exit, Quit, Halt
<1>2. rooms[r].phase \notin {"free", "lobby"}
  BY RunKept, RoomAssumption
<1>3. rooms'[r].phase = "gone"
  BY <1>1, <1>2, HaltedRooms
<1>4. <<"claimed", a, r>> \notin published'
  BY <1>1 DEF RunKnown
<1> QED
  BY <1>1, <1>3, <1>4 DEF RunKnown, Playing

\* and so does a start.
LEMMA BeginsRuns ==
  ASSUME TypeInv, ResultsInv, DeliveryInv, Next, Begins,
         NEW a \in Accounts, NEW r \in Rooms, run[a] = r, RunKnown(a, r)
  PROVE  (RunKnown(a, r))'
<1>1. UNCHANGED <<membership, excused, published, prepared, rooms>>
  BY DEF Begins, Restart, Recover, roomVars, places, playVars
<1>2. Durable' = Durable
  <2>1. CASE Restart
    BY <2>1 DEF Restart, resultVars, Durable
  <2>2. ASSUME NEW q \in Rooms, Recover(q) PROVE Durable' = Durable
    BY <2>2, RecoverKeeps DEF Recover, Durable
  <2> QED
    BY <2>1, <2>2 DEF Begins
<1> QED
  BY <1>1, <1>2, RunQuiet

\* The commands of an account are about its own run.
LEMMA OtherRuns ==
  ASSUME TypeInv, Commands
  PROVE  \E b \in Accounts :
           /\ Look(b) \/ LookAtRoom(b) \/ Refused(b) \/ Start(b) \/ End(b) \/ Sets(b) \/ Lands(b)
           /\ \A a \in Accounts \ {b} :
                /\ run'[a] = run[a] /\ prepared'[a] = prepared[a]
                /\ \A t, r : <<t, a, r>> \in published' => <<t, a, r>> \in published
<1>1. PICK b \in Accounts :
        Look(b) \/ LookAtRoom(b) \/ Refused(b) \/ Start(b) \/ End(b) \/ Sets(b) \/ Lands(b)
  BY DEF Commands
<1>2. /\ run \in [Accounts -> Rooms \cup {None}]
      /\ prepared \in [Accounts -> {"none", "looking", "result", "abandoned"}]
  BY DEF TypeInv, TypeOK
<1>3. \A a \in Accounts \ {b} : run'[a] = run[a] /\ prepared'[a] = prepared[a]
  BY <1>1, <1>2 DEF Look, LookAtRoom, Refused, Start, End, Sets, Lands
<1>4. published' = published \/ \E list : published' = published \cup {<<e[1], b, e[2]>> : e \in Range(list)}
  BY <1>1 DEF Look, LookAtRoom, Refused, Start, End, Sets, Lands, Announce
<1> QED
  BY <1>1, <1>3, <1>4

\* The commands keep it, of their own run and of others.
LEMMA CommandRuns ==
  ASSUME TypeInv, ResultsInv, DeliveryInv, Next, Commands, Kind # "fishing",
         \A a \in Accounts, r \in Rooms : run[a] = r => RunKnown(a, r),
         NEW a \in Accounts, NEW r \in Rooms, run'[a] = r
  PROVE  (RunKnown(a, r))'
<1>1. PICK b \in Accounts :
        /\ Look(b) \/ LookAtRoom(b) \/ Refused(b) \/ Start(b) \/ End(b) \/ Sets(b) \/ Lands(b)
        /\ \A c \in Accounts \ {b} :
             /\ run'[c] = run[c] /\ prepared'[c] = prepared[c]
             /\ \A t, q : <<t, c, q>> \in published' => <<t, c, q>> \in published
  BY OtherRuns
<1>2. /\ UNCHANGED <<store, pending, rooms, membership, excused>> /\ Durable' = Durable
      /\ run \in [Accounts -> Rooms \cup {None}] /\ membership \in [Accounts -> Rooms \cup {None}]
      /\ prepared \in [Accounts -> {"none", "looking", "result", "abandoned"}]
      /\ None \notin Rooms
  BY CommandSteps, RoomAssumption DEF TypeInv, TypeOK, ManagerTypeOK, roomVars, places, Durable
<1>3. KeepsPlace(a, r)
  BY <1>2 DEF KeepsPlace
<1>4. Departed(r) => (Departed(r))'
  BY DepartedStays
<1>5. CASE a # b
  <2>1. run[a] = r /\ prepared'[a] = prepared[a] /\ <<"claimed", a, r>> \notin published'
        /\ RunKnown(a, r)
    <3>1. run[a] = r /\ prepared'[a] = prepared[a]
          /\ (<<"claimed", a, r>> \in published' => <<"claimed", a, r>> \in published)
      BY <1>1, <1>5
    <3>2. RunKnown(a, r)
      BY <3>1
    <3> QED
      BY <3>1, <3>2 DEF RunKnown
  <2> QED
    BY <1>2, <1>3, <1>4, <2>1, RunStays
<1>6. CASE a = b /\ Look(a)
  <2>1. /\ run[a] = r /\ published' = published
        /\ \/ prepared'[a] = "result"
           \/ prepared'[a] = "looking" /\ r \notin store.saved /\ r \notin pending
    BY <1>2, <1>6 DEF Look
  <2>2. RunKnown(a, r) /\ <<"claimed", a, r>> \notin published'
    BY <2>1 DEF RunKnown
  <2>3. \/ membership[a] = r \/ rooms[r].phase \notin Playing
        \/ rooms[r].phase = "over" /\ rooms[r].queued
        \/ <<a, r>> \in excused
    BY <2>2 DEF RunKnown
  <2>4. CASE prepared'[a] = "result"
    BY <1>2, <2>2, <2>3, <2>4 DEF RunKnown
  <2>5. CASE prepared'[a] = "looking" /\ r \notin store.saved /\ r \notin pending
    <3>1. r \notin Durable
      BY <2>1, <2>2, <2>5, LooksAtDurable
    <3>2. <<a, r>> \in excused \/ membership[a] = r \/ Departed(r)
      BY <2>1, <2>2, <2>5, LooksAtDeparted
    <3> QED
      BY <1>2, <1>4, <2>2, <2>3, <2>5, <3>1, <3>2 DEF RunKnown
  <2> QED
    BY <2>1, <2>4, <2>5
<1>7. CASE a = b /\ LookAtRoom(a)
  <2>1. /\ run[a] = r /\ published' = published /\ prepared[a] = "looking"
        /\ prepared'[a] = IF membership[a] = r THEN "none" ELSE "abandoned"
    BY <1>2, <1>7 DEF LookAtRoom, TypeInv, TypeOK
  <2>2. RunKnown(a, r) /\ <<"claimed", a, r>> \notin published'
    BY <2>1 DEF RunKnown
  <2>3. prepared'[a] = "abandoned" => <<a, r>> \in excused \/ Departed(r)
    BY <2>1, <2>2 DEF RunKnown
  <2> QED
    BY <1>2, <1>4, <2>1, <2>2, <2>3 DEF RunKnown
<1>8. CASE a = b /\ Refused(a)
  <2>1. /\ run[a] = r /\ published' = published /\ prepared'[a] = "none"
    BY <1>2, <1>8 DEF Refused
  <2>2. RunKnown(a, r) /\ <<"claimed", a, r>> \notin published'
    BY <2>1 DEF RunKnown
  <2> QED
    BY <1>2, <2>1, <2>2 DEF RunKnown
<1>9. CASE a = b /\ Start(a)
  <2>1. /\ membership[a] = r /\ rooms[r].phase = "running" /\ prepared'[a] = "none"
        /\ Announce(a, Fresh("accepted", a, r))
    BY <1>2, <1>9 DEF Start, Startable
  <2>2. <<"claimed", a, r>> \notin published
    <3>1. ~rooms[r].ended
      BY <2>1 DEF ResultsInv, PhasesKnown
    <3>2. r \notin store.ready \cup store.retired
      BY <3>1 DEF ResultsInv, ResultsKnown, StoreKnown, Durable
    <3> QED
      BY <3>2 DEF DeliveryInv, EndsKnown
  <2>3. <<"claimed", a, r>> \notin published'
    <3>1. published' = published \cup {<<e[1], a, e[2]>> : e \in Range(Fresh("accepted", a, r))}
      BY <2>1 DEF Announce
    <3>2. \A e \in Range(Fresh("accepted", a, r)) : e[1] = "accepted"
      <4>1. Range(<< >>) = {} /\ Range(<<<<"accepted", r>>>>) = {<<"accepted", r>>}
        BY DEF Range
      <4> QED
        BY <4>1 DEF Fresh
    <3> QED
      BY <2>2, <3>1, <3>2
  <2> QED
    BY <1>2, <2>1, <2>3 DEF RunKnown
<1>10. CASE a = b /\ (End(a) \/ Lands(a) \/ Sets(a))
  <2>1. run'[a] = None
    BY <1>2, <1>10 DEF End, Lands, Sets
  <2> QED
    BY <1>2, <2>1
<1> QED
  BY <1>1, <1>5, <1>6, <1>7, <1>8, <1>9, <1>10

\* Every step keeps AbandonInv.
LEMMA AbandonStep ==
  ASSUME TypeInv, ResultsInv, DeliveryInv, AbandonInv, [Next]_vars
  PROVE  AbandonInv'
<1>1. CASE UNCHANGED vars
  <2>1. UNCHANGED <<setup, run, prepared, published, givenUp, excused, membership, rooms, queue, worker, store>>
    BY <1>1 DEF vars, resultVars, roomVars, places, playVars
  <2>2. \A r \in Rooms : (Departed(r))' <=> Departed(r)
    BY <2>1 DEF Departed, Durable, Held
  <2>3. \A a \in Accounts, r \in Rooms : (RunKnown(a, r))' <=> RunKnown(a, r)
    BY <2>1, <2>2 DEF RunKnown, Durable
  <2> QED
    BY <2>1, <2>2, <2>3 DEF AbandonInv, Kind
<1>2. CASE Next
  <2>1. setup' = setup
    BY <1>2 DEF Next
  <2>2. /\ run \in [Accounts -> Rooms \cup {None}]
        /\ givenUp \subseteq Accounts \X Rooms
    BY DEF TypeInv, TypeOK
  <2>3. ASSUME NEW a \in Accounts, NEW r \in Rooms PROVE <<a, r>> \in excused => <<a, r>> \in excused'
    <3>1. excused \subseteq excused'
      <4>1. CASE Rooming
        BY <4>1, RoomingPlaces
      <4>2. CASE ~Rooming
        BY <1>2, <4>2, CommandSteps DEF Next, Persists, Acknowledge, Delivers, Record, Accept, Claim,
           Crash, Exit, Quit, Halt, Begins, Restart, Recover, roomVars, places, TypeInv
      <4> QED
        BY <4>1, <4>2
    <3> QED
      BY <3>1
  <2>4. \A a \in Accounts, r \in Rooms : <<a, r>> \in givenUp' =>
          \/ <<a, r>> \in givenUp
          \/ Kind # "fishing" /\ run[a] = r /\ prepared[a] = "abandoned"
    <3>1. CASE Commands
      <4>1. givenUp' = givenUp \/ \E a \in Accounts : Start(a)
        BY <3>1 DEF Commands, Look, LookAtRoom, Refused, End, Sets, Lands
      <4>2. ASSUME NEW b \in Accounts, Start(b)
            PROVE  \A a \in Accounts, r \in Rooms : <<a, r>> \in givenUp' =>
                     \/ <<a, r>> \in givenUp
                     \/ Kind # "fishing" /\ run[a] = r /\ prepared[a] = "abandoned"
        BY <4>2 DEF Start
      <4> QED
        BY <4>1, <4>2
    <3>2. CASE ~Commands
      BY <1>2, <3>2 DEF Next, Delivers, Record, Accept, Claim, Crash, Exit, Quit,
         Begins, Restart, Recover, playVars
    <3> QED
      BY <3>1, <3>2
  <2>5. (Kind = "fishing" => givenUp = {})'
    <3>1. ASSUME Kind = "fishing", NEW x \in givenUp' PROVE FALSE
      <4>1. givenUp' \subseteq Accounts \X Rooms
        BY <1>2, TypeStep DEF TypeInv, TypeOK
      <4> QED
        BY <2>4, <3>1, <4>1 DEF AbandonInv
    <3> QED
      BY <2>1, <3>1 DEF Kind
  <2>6. ASSUME NEW a \in Accounts, NEW r \in Rooms, <<a, r>> \in givenUp' \ excused'
        PROVE  (Departed(r))'
    <3>1. <<a, r>> \notin excused
      BY <2>3, <2>6
    <3>2. Departed(r)
      BY <2>4, <2>6, <3>1 DEF AbandonInv, RunKnown
    <3> QED
      BY <1>2, <3>2, DepartedStays
  <2>7. ASSUME Kind # "fishing", NEW a \in Accounts, NEW r \in Rooms, run'[a] = r
        PROVE  (RunKnown(a, r))'
    <3>1. \A b \in Accounts, q \in Rooms : run[b] = q => RunKnown(b, q)
      BY <2>7 DEF AbandonInv
    <3>2. CASE Commands
      BY <1>2, <2>7, <3>1, <3>2, CommandRuns
    <3>3. CASE ~Commands
      <4>1. run' = run
        BY <1>2, <3>3 DEF Next, Delivers, Record, Accept, Claim, Crash, Exit, Quit,
           Begins, Restart, Recover, playVars
      <4>2. run[a] = r /\ RunKnown(a, r)
        BY <2>7, <3>1, <4>1
      <4> QED
        BY <1>2, <3>3, <4>2, RoomingRuns, PersistsRuns, DeliveryRuns, QuitRuns, BeginsRuns DEF Next
    <3> QED
      BY <3>2, <3>3
  <2> QED
    BY <2>1, <2>5, <2>6, <2>7 DEF AbandonInv, Kind
<1> QED
  BY <1>1, <1>2

\* The first state has AbandonInv.
LEMMA AbandonStart == Init => AbandonInv
BY RoomAssumption DEF Init, AbandonInv

\* The inductive invariant holds at every step.
LEMMA InvStart == Init => IInv
BY TypeInit, ResultsStart, DeliveryStart, AbandonStart DEF IInv

\* Every step keeps the inductive invariant.
LEMMA InvStep ==
  ASSUME IInv, [Next]_vars
  PROVE  IInv'
BY TypeStep, ResultsStep, DeliveryStep, AbandonStep DEF IInv

\* The inductive invariant gives ClaimsAreBacked.
LEMMA InvClaims ==
  ASSUME IInv
  PROVE  ClaimsAreBacked
<1>1. TypeInv /\ ResultsInv /\ DeliveryInv
  BY DEF IInv
<1>2. SUFFICES ASSUME NEW a \in Accounts, NEW i \in 1..Len(events[a]), events[a][i][1] = "claimed"
      PROVE  \/ events[a][i][2] \in store.ready
             \/ /\ Kind = "fishing"
                /\ \/ events[a][i][2] \in store.saved \/ <<a, events[a][i][2]>> \in store.runs
                   \/ \E j \in 1..(i - 1) : events[a][j] = <<"accepted", events[a][i][2]>>
  BY DEF ClaimsAreBacked
<1> DEFINE r == events[a][i][2]  n == Len(events[a])
<1>3. /\ r \in Rooms /\ events[a][i] = <<"claimed", r>> /\ n \in Nat
      /\ events[a][i] \in Range(events[a])
      /\ \A x : x \in Range(events[a]) <=> \E j \in 1..n : x = events[a][j]
  BY <1>1, <1>2, EventLists
<1>4. <<"claimed", a, r>> \in published
  BY <1>1, <1>2 DEF DeliveryInv, EventsKnown
<1>5. Unclaimed(a, r)
  BY <1>3 DEF Unclaimed
<1>6. <<"accepted", a, r>> \in published
  BY <1>1, <1>3, <1>4 DEF DeliveryInv, ClaimsKnown
<1>7. r \notin store.retired
  <2>1. rooms[r].ended => a \in In(r)
    BY <1>1, <1>3, <1>6 DEF DeliveryInv, MembersKnown, Topics
  <2>2. r \in store.retired => rooms[r].ended
    BY <1>1, <1>3 DEF ResultsInv, ResultsKnown, Durable
  <2> QED
    BY <1>1, <1>3, <1>5, <2>1, <2>2 DEF DeliveryInv, ClaimsKnown
<1>8. CASE Kind # "fishing"
  BY <1>1, <1>3, <1>4, <1>7, <1>8 DEF DeliveryInv, EndsKnown
<1>9. CASE Kind = "fishing"
  <2>1. r \in store.saved \/ <<a, r>> \in store.runs \/ <<"accepted", r>> \in Range(events[a])
    BY <1>1, <1>3, <1>5, <1>6, <1>7 DEF DeliveryInv, ClaimsKnown, Durable
  <2>2. ASSUME <<"accepted", r>> \in Range(events[a])
        PROVE  \E j \in 1..(i - 1) : events[a][j] = <<"accepted", r>>
    <3>1. PICK j \in 1..n : events[a][j] = <<"accepted", r>>
      BY <1>3, <2>2
    <3>2. events[a][j][1] = "accepted" /\ events[a][j][2] = r
      BY <3>1
    <3>3. j < i
      BY <1>1, <1>2, <3>2 DEF DeliveryInv, EventsKnown
    <3>4. j \in 1..(i - 1)
      BY <1>3, <3>3
    <3> QED
      BY <3>1, <3>4
  <2> QED
    BY <1>9, <2>1, <2>2
<1> QED
  BY <1>8, <1>9

\* The inductive invariant gives ResultsAreKept.
LEMMA InvKept ==
  ASSUME IInv
  PROVE  ResultsAreKept
<1>1. NothingLost /\ EndsAreDurable
  BY DEF IInv, ResultsInv
<1>2. KeptUntilClaimed
  <2>1. members \in [Rooms -> Seq(Accounts)]
    BY DEF IInv, TypeInv, TypeOK, ResultsTypeOK
  <2>2. \A r \in Rooms : \A a \in In(r) : a \in Accounts
    BY <2>1, RangeOfSeq DEF In
  <2>3. store.retired \subseteq Rooms
    BY DEF IInv, TypeInv, TypeOK, ResultsTypeOK, Stores
  <2>4. \A r \in store.retired : \A a \in In(r) : <<"claimed", a, r>> \in published
    BY <2>2, <2>3 DEF IInv, DeliveryInv, ClaimsKnown, Unclaimed
  <2> QED
    BY <2>4 DEF IInv, ResultsInv, StoreKnown, KeptUntilClaimed
<1>3. AbandonedHaveNoResult
  <2>1. givenUp \subseteq Accounts \X Rooms
    BY DEF IInv, TypeInv, TypeOK
  <2>2. ASSUME NEW a \in Accounts, NEW r \in Rooms, <<a, r>> \in givenUp \ excused
        PROVE  r \notin Durable /\ ~InFlight(r) /\ rooms[r].phase \notin Playing
    <3>1. Departed(r)
      BY <2>2 DEF IInv, AbandonInv
    <3> QED
      BY <3>1 DEF Departed, InFlight, Held, Playing
  <2> QED
    BY <2>1, <2>2 DEF AbandonedHaveNoResult
<1> QED
  BY <1>1, <1>2, <1>3, InvClaims DEF ResultsAreKept

\* A result outlives crashes, full queues and retries until every member has
\* committed a claim of it; the members hear of an end only once its result is
\* durable; a committed claim always finds what it claims; and a run given up
\* as abandoned has no result, now or later (room results, inbox and outbox).
THEOREM ResultsAlwaysKept == Spec => []ResultsAreKept
<1>1. IInv => ResultsAreKept
  BY InvKept
<1> QED
  BY <1>1, InvStart, InvStep, PTL DEF Spec

\* A room that ended without a result never gets one later, whatever fails,
\* starts again or is retried: whoever took its run for abandoned stays right.
THEOREM DepartedForGood == Spec => [][\A r \in Rooms : Departed(r) => (Departed(r))']_vars
<1>1. IInv /\ [Next]_vars => [\A r \in Rooms : Departed(r) => (Departed(r))']_vars
  <2> SUFFICES ASSUME IInv, Next, NEW r \in Rooms, Departed(r) PROVE (Departed(r))'
    OBVIOUS
  <2> QED
    BY DepartedStays DEF IInv
<1> QED
  BY <1>1, InvStart, InvStep, PTL DEF Spec

=============================================================================
