----------------------- MODULE PlayerRegistry_proofs -----------------------
(***************************************************************************)
(* Proofs about PlayerRegistry, for every value of its constants.           *)
(***************************************************************************)
EXTENDS PlayerRegistry, TLAPS, FiniteSetTheorems, SequenceTheorems

\* The caller counts in the leases of the slot.
Holds(c, s) == calls[c].at \in {"awaitsReady", "leased"} /\ calls[c].slot = s

Holders(s) == {c \in Callers : Holds(c, s)}

LeasesCounted == \A s \in Slots : slots[s].leases = Cardinality(Holders(s))

\* Whoever waits for a slot or holds one refers to an object.
SlotsKnown ==
  \A c \in Callers :
    calls[c].at \in {"awaitsRetired", "awaitsReady", "leased"} => calls[c].slot \in Slots

\* The channel holds the queued slots, each once.
QueueCoherent ==
  /\ \A i \in 1..Len(loads) : slots[loads[i]].load = "queued"
  /\ \A i, j \in 1..Len(loads) : loads[i] = loads[j] => i = j
  /\ \A s \in Slots : slots[s].load = "queued" => \E i \in 1..Len(loads) : loads[i] = s

\* What may own a file, or will, is in the map.
MapCoherent ==
  \A s \in Slots :
    slots[s].load \in {"queued", "opening", "open"} \/ slots[s].closed = "error" =>
      players[slots[s].account] = s

\* Runtimes close exactly once, in retiring slots.
RetirementCoherent ==
  /\ \A s \in Slots : slots[s].load = "closed" <=> slots[s].closed # "no"
  /\ \A s \in Slots : slots[s].load = "closed" => slots[s].retiring
  /\ \A s \in sweeping \cup unloading :
       slots[s].retiring /\ slots[s].load \in {"open", "closed"}

\* In service a lease keeps its slot from retiring.
Held ==
  ~closing =>
    \A c \in Callers : \A s \in Slots :
      Holds(c, s) => /\ slots[s].load # "closed" /\ ~slots[s].retiring
                     /\ calls[c].at = "leased" => slots[s].load = "open"

\* Shutdown retires everything that is open, when nothing opens any more.
ShutdownCoherent ==
  /\ shutdown \in {"retiring", "done"} =>
       \A s \in Slots : /\ slots[s].load \notin {"queued", "opening"}
                        /\ slots[s].load = "open" => s \in unloading
  /\ shutdown = "done" => unloading = {}

IInv ==
  /\ TypeOK
  /\ SlotsKnown
  /\ LeasesCounted
  /\ QueueCoherent
  /\ MapCoherent
  /\ RetirementCoherent
  /\ Held
  /\ ShutdownCoherent

-----------------------------------------------------------------------------
(* What a step leaves of the invariant depends on few things. *)

\* The fields of a slot that leases and time do not touch.
SameState ==
  \A s \in Slots : /\ slots'[s].account = slots[s].account
                   /\ slots'[s].load = slots[s].load
                   /\ slots'[s].retiring = slots[s].retiring
                   /\ slots'[s].closed = slots[s].closed

\* Steps that change neither the state of a slot nor the map, the queue or a
\* list of slots to retire keep what speaks of those alone.
LEMMA StateKept ==
  ASSUME IInv, SameState, UNCHANGED <<players, loads, sweeping, unloading, shutdown>>
  PROVE  /\ QueueCoherent' /\ MapCoherent' /\ RetirementCoherent' /\ ShutdownCoherent'
<1>0. loads \in Seq(Slots) /\ sweeping \subseteq Slots /\ unloading \subseteq Slots
  BY DEF IInv, TypeOK
<1>1. QueueCoherent'
  <2>1. \A i \in 1..Len(loads) : loads[i] \in Slots
    BY <1>0
  <2> QED
    BY <2>1 DEF IInv, SameState, QueueCoherent
<1>2. MapCoherent'
  BY DEF IInv, SameState, MapCoherent
<1>3. RetirementCoherent'
  BY <1>0 DEF IInv, SameState, RetirementCoherent
<1>4. ShutdownCoherent'
  BY <1>0 DEF IInv, SameState, ShutdownCoherent
<1> QED
  BY <1>1, <1>2, <1>3, <1>4

\* A slot with other leases, idle time, load, retirement.
LEMMA SlotFields ==
  ASSUME NEW r \in Slot
  PROVE  /\ \A n \in Nat : [r EXCEPT !.leases = n] \in Slot
         /\ \A i \in 0..IdleLimit : [r EXCEPT !.idle = i] \in Slot
         /\ \A l \in Loads : [r EXCEPT !.load = l] \in Slot
         /\ \A b \in BOOLEAN : [r EXCEPT !.retiring = b] \in Slot
         /\ \A w \in {"no", "yes", "error"} : [r EXCEPT !.closed = w] \in Slot
<1>1. \A n \in Nat : [r EXCEPT !.leases = n] \in Slot
  BY Zenon DEF Slot
<1>2. \A i \in 0..IdleLimit : [r EXCEPT !.idle = i] \in Slot
  BY Zenon DEF Slot
<1>3. \A l \in Loads : [r EXCEPT !.load = l] \in Slot
  BY Zenon DEF Slot
<1>4. \A b \in BOOLEAN : [r EXCEPT !.retiring = b] \in Slot
  BY Zenon DEF Slot
<1>5. \A w \in {"no", "yes", "error"} : [r EXCEPT !.closed = w] \in Slot
  BY Zenon DEF Slot
<1> QED
  BY <1>1, <1>2, <1>3, <1>4, <1>5

\* The callers are finitely many, and so are those that hold a slot.
LEMMA HoldersFinite ==
  ASSUME NEW s
  PROVE  IsFiniteSet(Holders(s)) /\ Cardinality(Holders(s)) \in Nat
<1>1. Holders(s) \subseteq Callers
  BY DEF Holders
<1> QED
  BY <1>1, RegistryAssumption, FS_Subset, FS_CardinalityType

\* A step of one caller leaves the other callers where they are.
LEMMA CallStep ==
  ASSUME TypeOK, NEW c \in Callers, NEW place \in {"idle", "looping", "awaitsRetired", "awaitsReady", "leased"},
         NEW t \in Slots \cup {NoSlot},
         calls' = [calls EXCEPT ![c].at = place, ![c].slot = t]
  PROVE  /\ calls' \in [Callers -> Call]
         /\ calls'[c].at = place /\ calls'[c].slot = t
         /\ \A d \in Callers \ {c} : calls'[d] = calls[d]
BY DEF TypeOK, Call

\* A new slot.
LEMMA MadeFields ==
  ASSUME NEW a, NEW load, NEW leases
  PROVE  LET new == Made(a, load, leases)
         IN  /\ new.account = a /\ new.load = load /\ new.leases = leases
             /\ ~new.retiring /\ new.closed = "no"
BY DEF Made

LEMMA MadeType ==
  ASSUME NEW a \in Accounts, NEW load \in Loads, NEW leases \in Nat
  PROVE  Made(a, load, leases) \in Slot
<1>1. FALSE \in BOOLEAN /\ "no" \in {"no", "yes", "error"}
  OBVIOUS
<1>2. 0 \in 0..IdleLimit
  BY RegistryAssumption
<1> QED
  BY <1>1, <1>2, Zenon DEF Made, Slot

-----------------------------------------------------------------------------

LEMMA InitStep == ASSUME Init PROVE IInv
<1>1. \A s \in Slots : slots[s] = Made(CHOOSE a \in Accounts : TRUE, "unused", 0)
  BY DEF Init
<1>2. (CHOOSE a \in Accounts : TRUE) \in Accounts
  BY RegistryAssumption
<1>3. TypeOK
  <2>1. "unused" \in Loads /\ 0 \in Nat
    BY DEF Loads
  <2>2. slots \in [Slots -> Slot]
    BY <1>2, <2>1, MadeType DEF Init
  <2>3. sweeperDone \in BOOLEAN
    BY Zenon DEF Init
  <2> QED
    BY <1>2, <2>2, <2>3 DEF Init, TypeOK, Call
<1>4. SlotsKnown /\ QueueCoherent /\ MapCoherent /\ RetirementCoherent /\ Held /\ ShutdownCoherent
  BY <1>1, MadeFields DEF Init, SlotsKnown, QueueCoherent, MapCoherent,
                          RetirementCoherent, Held, Holds, ShutdownCoherent
<1>5. LeasesCounted
  <2>1. \A s \in Slots : Holders(s) = {}
    BY DEF Init, Holders, Holds
  <2>2. \A s \in Slots : slots[s].leases = 0
    BY <1>1, MadeFields
  <2>3. \A s \in Slots : Cardinality(Holders(s)) = 0
    <3>1. Cardinality({}) = 0
      BY FS_EmptySet
    <3> QED
      BY <2>1, <3>1
  <2> QED
    BY <2>2, <2>3, Zenon DEF LeasesCounted
<1> QED
  BY <1>3, <1>4, <1>5 DEF IInv

-----------------------------------------------------------------------------
(* Steps of the callers. *)

\* A caller that neither takes nor gives back a lease.
LEMMA CallerMoves ==
  ASSUME IInv, NEW c \in Callers,
         UNCHANGED <<players, slots, loads, sweepVars, closeVars>>,
         calls' \in [Callers -> Call],
         \A d \in Callers \ {c} : calls'[d] = calls[d],
         calls'[c].at \in {"awaitsRetired", "awaitsReady", "leased"} => calls'[c].slot \in Slots,
         \A s \in Slots : Holds(c, s)' <=> Holds(c, s),
         calls'[c].at = "leased" => slots[calls'[c].slot].load = "open"
  PROVE  IInv'
<1>1. TypeOK'
  BY DEF IInv, TypeOK, sweepVars, closeVars
<1>2. SlotsKnown'
  BY DEF IInv, SlotsKnown
<1>3. \A s \in Slots : \A d \in Callers : Holds(d, s)' <=> Holds(d, s)
  BY DEF Holds
<1>4. LeasesCounted'
  <2>1. \A s \in Slots : Holders(s)' = Holders(s)
    BY <1>3 DEF Holders
  <2> QED
    BY <2>1 DEF IInv, LeasesCounted
<1>5. QueueCoherent' /\ MapCoherent' /\ RetirementCoherent' /\ ShutdownCoherent'
  BY StateKept DEF SameState, sweepVars, closeVars
<1>6. Held'
  <2>1. SUFFICES ASSUME ~closing', NEW d \in Callers, NEW s \in Slots, Holds(d, s)'
                 PROVE  /\ slots'[s].load # "closed" /\ ~slots'[s].retiring
                        /\ calls'[d].at = "leased" => slots'[s].load = "open"
    BY DEF Held
  <2>2. ~closing /\ Holds(d, s)
    BY <1>3, <2>1 DEF closing, closeVars
  <2>3. CASE d = c
    BY <2>1, <2>2, <2>3 DEF IInv, Held, Holds
  <2>4. CASE d # c
    BY <2>1, <2>2, <2>4 DEF IInv, Held
  <2> QED
    BY <2>3, <2>4
<1> QED
  BY <1>1, <1>2, <1>4, <1>5, <1>6 DEF IInv

LEMMA CallerMovesSteps ==
  ASSUME IInv, NEW c \in Callers,
         \/ \E a \in Accounts : Start(c, a)
         \/ AcquireRefused(c)
         \/ AcquireAwaitsRetired(c)
         \/ RetiredSeen(c)
         \/ RetiredWaitCancelled(c)
         \/ ReadySeen(c)
  PROVE  IInv'
<1>0. TypeOK /\ SlotsKnown /\ calls[c] \in Call /\ NoSlot \notin Slots
  BY RegistryAssumption DEF IInv, TypeOK
<1>1. ASSUME NEW a \in Accounts, Start(c, a) PROVE IInv'
  <2>1. calls' \in [Callers -> Call] /\ calls'[c].at = "looping"
        /\ \A d \in Callers \ {c} : calls'[d] = calls[d]
    BY <1>0, <1>1 DEF TypeOK, Start, Call
  <2> QED
    BY <1>1, <2>1, CallerMoves DEF Start, Holds
<1>2. ASSUME NEW place \in {"idle", "looping"}, Goes(c, place, NoSlot), UNCHANGED slots,
             calls[c].at \in {"looping", "awaitsRetired"}
      PROVE  IInv'
  <2>1. calls' \in [Callers -> Call] /\ calls'[c].at = place
        /\ \A d \in Callers \ {c} : calls'[d] = calls[d]
    BY <1>0, <1>2, CallStep DEF Goes
  <2> QED
    BY <1>2, <2>1, CallerMoves DEF Goes, Holds
<1>3. CASE AcquireRefused(c)
  BY <1>2, <1>3 DEF AcquireRefused, Looping
<1>4. CASE AcquireAwaitsRetired(c)
  <2>1. SlotOf(c) \in Slots
    BY <1>0, <1>4 DEF AcquireAwaitsRetired, SlotOf, TypeOK, Call
  <2>2. calls' \in [Callers -> Call] /\ calls'[c].at = "awaitsRetired" /\ calls'[c].slot = SlotOf(c)
        /\ \A d \in Callers \ {c} : calls'[d] = calls[d]
    BY <1>0, <1>4, <2>1, CallStep DEF AcquireAwaitsRetired, Goes
  <2> QED
    BY <1>4, <2>1, <2>2, CallerMoves DEF AcquireAwaitsRetired, Goes, Holds, Looping
<1>5. CASE RetiredSeen(c)
  BY <1>2, <1>5 DEF RetiredSeen
<1>6. CASE RetiredWaitCancelled(c)
  BY <1>2, <1>6 DEF RetiredWaitCancelled
<1>7. CASE ReadySeen(c)
  <2>1. calls[c].at = "awaitsReady" /\ calls[c].slot \in Slots
    BY <1>0, <1>7 DEF ReadySeen, SlotsKnown
  <2>2. calls' \in [Callers -> Call] /\ calls'[c].at = "leased" /\ calls'[c].slot = calls[c].slot
        /\ \A d \in Callers \ {c} : calls'[d] = calls[d]
    BY <1>0, <1>7, <2>1, CallStep DEF ReadySeen, Goes
  <2>3. slots[calls[c].slot].load = "open"
    BY <1>7, <2>1 DEF ReadySeen, IsReady, IInv, Held, Holds
  <2> QED
    BY <1>7, <2>1, <2>2, <2>3, CallerMoves DEF ReadySeen, Goes, Holds
<1> QED
  BY <1>1, <1>3, <1>4, <1>5, <1>6, <1>7

LEMMA AcquireJoinsStep ==
  ASSUME IInv, NEW c \in Callers, AcquireJoins(c)
  PROVE  IInv'
<1>a. PICK s \in Slots : s = SlotOf(c)
  BY DEF IInv, TypeOK, AcquireJoins, SlotOf, Call
<1>0. TypeOK /\ slots[s] \in Slot /\ s = SlotOf(c)
  BY <1>a DEF IInv, TypeOK
<1>1. /\ UNCHANGED <<players, loads, sweepVars, closeVars>>
      /\ calls' \in [Callers -> Call] /\ calls'[c].at = "awaitsReady" /\ calls'[c].slot = s
      /\ \A d \in Callers \ {c} : calls'[d] = calls[d]
  BY <1>0, CallStep DEF AcquireJoins, Goes
<1>2. /\ slots' \in [Slots -> Slot]
      /\ slots'[s].leases = slots[s].leases + 1
      /\ \A t \in Slots \ {s} : slots'[t].leases = slots[t].leases
  <2>1. slots[s].leases + 1 \in Nat
    BY <1>0 DEF Slot
  <2>2. slots' = [slots EXCEPT ![s] = [slots[s] EXCEPT !.leases = slots[s].leases + 1]]
    BY <1>0 DEF AcquireJoins
  <2>3. [slots[s] EXCEPT !.leases = slots[s].leases + 1] \in Slot
    BY <1>0, <2>1, SlotFields
  <2> QED
    BY <1>0, <2>2, <2>3 DEF TypeOK, Slot
<1>3. SameState
  BY <1>0 DEF AcquireJoins, SameState, TypeOK, Slot
<1>4. TypeOK'
  BY <1>0, <1>1, <1>2 DEF TypeOK, sweepVars, closeVars
<1>5. SlotsKnown'
  BY <1>0, <1>1 DEF IInv, SlotsKnown
<1>6. LeasesCounted'
  <2>1. Holders(s)' = Holders(s) \cup {c} /\ c \notin Holders(s)
    BY <1>0, <1>1 DEF Holders, Holds, AcquireJoins, Looping
  <2>2. \A t \in Slots \ {s} : Holders(t)' = Holders(t)
    BY <1>0, <1>1 DEF Holders, Holds, AcquireJoins, Looping
  <2>3. Cardinality(Holders(s)') = Cardinality(Holders(s)) + 1
    BY <2>1, HoldersFinite, FS_AddElement
  <2> QED
    BY <1>0, <1>2, <2>2, <2>3 DEF IInv, LeasesCounted
<1>7. QueueCoherent' /\ MapCoherent' /\ RetirementCoherent' /\ ShutdownCoherent'
  BY <1>1, <1>3, StateKept DEF sweepVars, closeVars
<1>8. Held'
  <2>1. slots[s].load # "closed" /\ ~slots[s].retiring
    BY <1>0 DEF IInv, RetirementCoherent, AcquireJoins
  <2>2. \A d \in Callers, t \in Slots :
          Holds(d, t)' => \/ d = c /\ t = s
                          \/ Holds(d, t) /\ d # c
    BY <1>1 DEF Holds
  <2>3. ~closing
    BY DEF AcquireJoins
  <2> QED
    BY <1>1, <1>3, <2>1, <2>2, <2>3 DEF IInv, Held, SameState
<1> QED
  BY <1>4, <1>5, <1>6, <1>7, <1>8 DEF IInv

LEMMA GivesBackStep ==
  ASSUME IInv, NEW c \in Callers, calls[c].at \in {"awaitsReady", "leased"}, GivesBack(c)
  PROVE  IInv'
<1>a. PICK s \in Slots : s = calls[c].slot
  BY DEF IInv, SlotsKnown
<1>0. TypeOK /\ slots[s] \in Slot /\ s = calls[c].slot /\ NoSlot \notin Slots
  BY <1>a, RegistryAssumption DEF IInv, TypeOK
<1>1. /\ UNCHANGED <<players, loads, sweepVars, closeVars>>
      /\ calls' \in [Callers -> Call] /\ calls'[c].at = "idle"
      /\ \A d \in Callers \ {c} : calls'[d] = calls[d]
  BY <1>0, CallStep DEF GivesBack, Goes
<1>2. Holders(s)' = Holders(s) \ {c} /\ c \in Holders(s)
      /\ \A t \in Slots \ {s} : Holders(t)' = Holders(t)
  BY <1>0, <1>1 DEF Holders, Holds
<1>3. Cardinality(Holders(s)') = Cardinality(Holders(s)) - 1
      /\ Cardinality(Holders(s)') \in Nat
  <2>1. IsFiniteSet(Holders(s)) /\ Cardinality(Holders(s)) \in Nat
    BY HoldersFinite
  <2> QED
    BY <1>2, <2>1, FS_RemoveElement, FS_CardinalityType
<1>4. slots[s].leases = Cardinality(Holders(s)) /\ slots[s].leases - 1 \in Nat /\ 0 \in 0..IdleLimit
  BY <1>0, <1>3, RegistryAssumption DEF IInv, LeasesCounted
<1>5. /\ slots' \in [Slots -> Slot]
      /\ slots'[s].leases = slots[s].leases - 1
      /\ \A t \in Slots \ {s} : slots'[t].leases = slots[t].leases
  <2>1. slots' = [slots EXCEPT ![s] = [[slots[s] EXCEPT !.leases = slots[s].leases - 1] EXCEPT !.idle = 0]]
    BY <1>0 DEF GivesBack, TypeOK
  <2>2. [[slots[s] EXCEPT !.leases = slots[s].leases - 1] EXCEPT !.idle = 0] \in Slot
    BY <1>0, <1>4, SlotFields
  <2> QED
    BY <1>0, <2>1, <2>2 DEF TypeOK, Slot
<1>6. SameState
  BY <1>0 DEF GivesBack, SameState, TypeOK, Slot
<1>7. TypeOK'
  BY <1>0, <1>1, <1>5 DEF TypeOK, sweepVars, closeVars
<1>8. SlotsKnown'
  BY <1>1 DEF IInv, SlotsKnown
<1>9. LeasesCounted'
  BY <1>0, <1>2, <1>3, <1>4, <1>5 DEF IInv, LeasesCounted
<1>10. QueueCoherent' /\ MapCoherent' /\ RetirementCoherent' /\ ShutdownCoherent'
  BY <1>1, <1>6, StateKept DEF sweepVars, closeVars
<1>11. Held'
  <2>1. \A d \in Callers, t \in Slots : Holds(d, t)' => Holds(d, t) /\ d # c
    BY <1>1 DEF Holds
  <2>2. closing' = closing
    BY <1>1 DEF closing, closeVars
  <2> QED
    BY <1>1, <1>6, <2>1, <2>2 DEF IInv, Held, SameState
<1> QED
  BY <1>7, <1>8, <1>9, <1>10, <1>11 DEF IInv

\* The new element of the queue.
LEMMA QueueAppend ==
  ASSUME loads \in Seq(Slots), NEW s \in Slots, loads' = Append(loads, s)
  PROVE  /\ loads' \in Seq(Slots) /\ Len(loads) \in Nat /\ Len(loads') = Len(loads) + 1
         /\ \A i \in 1..Len(loads) : loads'[i] = loads[i] /\ loads[i] \in Slots
         /\ loads'[Len(loads) + 1] = s
BY AppendProperties

LEMMA AcquireLoadsStep ==
  ASSUME IInv, NEW c \in Callers, NEW s \in Slots, AcquireLoads(c, s)
  PROVE  IInv'
<1>a. PICK a \in Accounts : a = calls[c].account
  BY DEF IInv, TypeOK, Call
<1>0. /\ TypeOK /\ NoSlot \notin Slots /\ a = calls[c].account
      /\ players[a] = NoSlot /\ ~closing /\ Looping(c)
      /\ \A b \in Accounts : players[b] # s
      /\ \A d \in Callers : calls[d].slot # s
      /\ slots[s].load \notin {"queued", "opening"}
      /\ s \notin sweeping \cup unloading
  BY <1>a, RegistryAssumption DEF IInv, AcquireLoads, SlotOf, FreeSlots
<1>1. /\ UNCHANGED <<sweepVars, closeVars>>
      /\ calls' \in [Callers -> Call] /\ calls'[c].at = "awaitsReady" /\ calls'[c].slot = s
      /\ \A d \in Callers \ {c} : calls'[d] = calls[d]
  BY <1>0, CallStep DEF AcquireLoads
<1>2. /\ players' \in [Accounts -> Slots \cup {NoSlot}]
      /\ players'[a] = s /\ \A b \in Accounts \ {a} : players'[b] = players[b]
  BY <1>0 DEF AcquireLoads, TypeOK
<1>3. /\ slots' \in [Slots -> Slot] /\ \A t \in Slots \ {s} : slots'[t] = slots[t]
      /\ slots'[s].account = a /\ slots'[s].load = "queued" /\ slots'[s].leases = 1
      /\ ~slots'[s].retiring /\ slots'[s].closed = "no"
  <2>1. Made(a, "queued", 1) \in Slot
    BY MadeType DEF Loads
  <2>2. slots' = [slots EXCEPT ![s] = Made(a, "queued", 1)]
    BY <1>0 DEF AcquireLoads
  <2>3. slots'[s] = Made(a, "queued", 1) /\ slots' \in [Slots -> Slot]
        /\ \A t \in Slots \ {s} : slots'[t] = slots[t]
    BY <1>0, <2>1, <2>2 DEF TypeOK
  <2> QED
    BY <2>3, MadeFields
<1>4. /\ loads' \in Seq(Slots) /\ Len(loads) \in Nat /\ Len(loads') = Len(loads) + 1
      /\ \A i \in 1..Len(loads) : loads'[i] = loads[i] /\ loads[i] \in Slots
      /\ loads'[Len(loads) + 1] = s
  BY <1>0, QueueAppend DEF AcquireLoads, TypeOK
<1>5. TypeOK'
  BY <1>0, <1>1, <1>2, <1>3, <1>4 DEF TypeOK, sweepVars, closeVars
<1>6. SlotsKnown'
  BY <1>1 DEF IInv, SlotsKnown
<1>7. LeasesCounted'
  <2>1. Holders(s)' = {c} /\ \A t \in Slots \ {s} : Holders(t)' = Holders(t)
    BY <1>0, <1>1 DEF Holders, Holds, Looping
  <2>2. Cardinality(Holders(s)') = 1
    BY <2>1, FS_Singleton
  <2> QED
    BY <1>3, <2>1, <2>2 DEF IInv, LeasesCounted
<1>8. QueueCoherent'
  <2>1. \A i \in 1..Len(loads) : loads[i] # s
    BY <1>0 DEF IInv, QueueCoherent
  <2>2. \A i \in 1..Len(loads') : i \in 1..Len(loads) \/ i = Len(loads) + 1
    BY <1>4
  <2>3. \A i \in 1..Len(loads') : slots'[loads'[i]].load = "queued"
    BY <1>3, <1>4, <2>1, <2>2 DEF IInv, QueueCoherent
  <2>4. \A i, j \in 1..Len(loads') : loads'[i] = loads'[j] => i = j
    BY <1>4, <2>1, <2>2 DEF IInv, QueueCoherent
  <2>5. ASSUME NEW t \in Slots, slots'[t].load = "queued"
        PROVE  \E i \in 1..Len(loads') : loads'[i] = t
    <3>1. CASE t = s
      BY <1>4, <3>1
    <3>2. CASE t # s
      <4>1. PICK i \in 1..Len(loads) : loads[i] = t
        BY <1>3, <2>5, <3>2 DEF IInv, QueueCoherent
      <4> QED
        BY <1>4, <4>1
    <3> QED
      BY <3>1, <3>2
  <2> QED
    BY <2>3, <2>4, <2>5 DEF QueueCoherent
<1>9. MapCoherent'
  <2>1. ASSUME NEW t \in Slots \ {s},
               slots[t].load \in {"queued", "opening", "open"} \/ slots[t].closed = "error"
        PROVE  players'[slots[t].account] = t
    <3>1. players[slots[t].account] = t /\ slots[t].account \in Accounts
      BY <1>0, <2>1 DEF IInv, MapCoherent, TypeOK, Slot
    <3> QED
      BY <1>0, <1>2, <3>1
  <2> QED
    BY <1>2, <1>3, <2>1 DEF MapCoherent
<1>10. RetirementCoherent'
  BY <1>0, <1>1, <1>3 DEF IInv, RetirementCoherent, TypeOK, sweepVars, closeVars
<1>11. Held'
  <2>1. \A d \in Callers, t \in Slots :
          Holds(d, t)' => \/ d = c /\ t = s
                          \/ Holds(d, t) /\ d # c /\ t # s
    BY <1>0, <1>1 DEF Holds
  <2> QED
    BY <1>0, <1>1, <1>3, <2>1 DEF IInv, Held
<1>12. ShutdownCoherent'
  BY <1>0, <1>1 DEF IInv, ShutdownCoherent, closing, closeVars
<1> QED
  BY <1>5, <1>6, <1>7, <1>8, <1>9, <1>10, <1>11, <1>12 DEF IInv

-----------------------------------------------------------------------------
(* Steps of the registry itself: the callers and their leases stay. *)

LEMMA CallsKept ==
  ASSUME IInv, UNCHANGED calls, \A s \in Slots : slots'[s].leases = slots[s].leases
  PROVE  /\ SlotsKnown' /\ LeasesCounted'
         /\ \A c \in Callers, s \in Slots : Holds(c, s)' <=> Holds(c, s)
<1>1. \A c \in Callers, s \in Slots : Holds(c, s)' <=> Holds(c, s)
  BY DEF Holds
<1>2. SlotsKnown'
  BY DEF IInv, SlotsKnown
<1>3. \A s \in Slots : Holders(s)' = Holders(s)
  BY <1>1 DEF Holders
<1>4. LeasesCounted'
  BY <1>3 DEF IInv, LeasesCounted
<1> QED
  BY <1>1, <1>2, <1>4

\* Only idle times change.
LEMMA IdleStep ==
  ASSUME IInv, slots' \in [Slots -> Slot], SameState,
         \A s \in Slots : slots'[s].leases = slots[s].leases,
         UNCHANGED <<players, loads, sweepVars, closeVars, calls>>
  PROVE  IInv'
<1>1. TypeOK'
  BY DEF IInv, TypeOK, sweepVars, closeVars
<1>2. SlotsKnown' /\ LeasesCounted' /\ \A c \in Callers, s \in Slots : Holds(c, s)' <=> Holds(c, s)
  BY CallsKept
<1>3. QueueCoherent' /\ MapCoherent' /\ RetirementCoherent' /\ ShutdownCoherent'
  BY StateKept DEF sweepVars, closeVars
<1>4. Held'
  BY <1>2 DEF IInv, Held, SameState, closing, closeVars
<1> QED
  BY <1>1, <1>2, <1>3, <1>4 DEF IInv

LEMMA TouchStep ==
  ASSUME IInv, NEW a \in Accounts, Touch(a)
  PROVE  IInv'
<1>1. PICK s \in Slots : s = players[a]
  BY DEF IInv, TypeOK, Touch
<1>2. slots \in [Slots -> Slot] /\ slots[s] \in Slot /\ 0 \in 0..IdleLimit
  BY <1>1, RegistryAssumption DEF IInv, TypeOK
<1>3. slots' = [slots EXCEPT ![s] = [slots[s] EXCEPT !.idle = 0]]
  BY <1>1 DEF Touch
<1>4. slots' \in [Slots -> Slot]
  BY <1>2, <1>3, SlotFields
<1>5. SameState /\ \A t \in Slots : slots'[t].leases = slots[t].leases
  BY <1>2, <1>3 DEF SameState, Slot
<1> QED
  BY <1>4, <1>5, IdleStep DEF Touch

LEMMA TickStep ==
  ASSUME IInv, Tick
  PROVE  IInv'
<1>0. slots \in [Slots -> Slot] /\ IdleLimit \in Nat
  BY RegistryAssumption DEF IInv, TypeOK
<1>1. ASSUME NEW s \in Slots
      PROVE  slots'[s] \in Slot /\ slots'[s].leases = slots[s].leases
             /\ slots'[s].account = slots[s].account /\ slots'[s].load = slots[s].load
             /\ slots'[s].retiring = slots[s].retiring /\ slots'[s].closed = slots[s].closed
  <2>1. CASE s \in Aging
    <3>1. slots[s] \in Slot /\ slots[s].idle + 1 \in 0..IdleLimit
      BY <1>0, <2>1 DEF Aging, Slot
    <3>2. slots'[s] = [slots[s] EXCEPT !.idle = slots[s].idle + 1]
      BY <2>1 DEF Tick
    <3> QED
      BY <3>1, <3>2, SlotFields DEF Slot
  <2>2. CASE s \notin Aging
    BY <1>0, <2>2 DEF Tick
  <2> QED
    BY <2>1, <2>2
<1>2. slots' \in [Slots -> Slot]
  <2>1. slots' = [s \in Slots |-> slots'[s]]
    BY DEF Tick
  <2> QED
    BY <1>1, <2>1
<1> QED
  BY <1>1, <1>2, IdleStep DEF Tick, SameState

-----------------------------------------------------------------------------
(* Loading. *)

\* The head of the queue is taken out.
LEMMA QueueTail ==
  ASSUME loads \in Seq(Slots), loads # <<>>, loads' = Tail(loads)
  PROVE  /\ Head(loads) \in Slots /\ Head(loads) = loads[1]
         /\ Len(loads) \in Nat \ {0} /\ loads' \in Seq(Slots) /\ Len(loads') = Len(loads) - 1
         /\ \A i \in 1..Len(loads') : loads'[i] = loads[i + 1]
BY HeadTailProperties

\* The load of one slot goes on to another state, in which it is not open and
\* not queued, or is open.
LEMMA LoadMoves ==
  ASSUME IInv, NEW s \in Slots, NEW to \in Loads, slots' = [slots EXCEPT ![s].load = to]
  PROVE  /\ slots' \in [Slots -> Slot] /\ slots'[s].load = to
         /\ slots'[s].account = slots[s].account /\ slots'[s].leases = slots[s].leases
         /\ slots'[s].retiring = slots[s].retiring /\ slots'[s].closed = slots[s].closed
         /\ \A t \in Slots \ {s} : slots'[t] = slots[t]
<1>1. slots \in [Slots -> Slot] /\ slots[s] \in Slot
  BY DEF IInv, TypeOK
<1>2. slots' = [slots EXCEPT ![s] = [slots[s] EXCEPT !.load = to]]
  OBVIOUS
<1>3. [slots[s] EXCEPT !.load = to] \in Slot
  BY <1>1, SlotFields
<1> QED
  BY <1>1, <1>2, <1>3 DEF Slot

\* What taking the head out of the queue, and its slot out of the queued ones,
\* leaves of the queue.
LEMMA QueueServed ==
  ASSUME IInv, loads # <<>>, loads' = Tail(loads), NEW to \in {"opening", "failed"},
         slots' = [slots EXCEPT ![Head(loads)].load = to]
  PROVE  QueueCoherent'
<1>0. /\ Head(loads) \in Slots /\ Head(loads) = loads[1] /\ loads \in Seq(Slots)
      /\ Len(loads) \in Nat \ {0} /\ loads' \in Seq(Slots) /\ Len(loads') = Len(loads) - 1
      /\ \A i \in 1..Len(loads') : loads'[i] = loads[i + 1]
  BY QueueTail DEF IInv, TypeOK
<1>1. PICK s \in Slots : s = loads[1]
  BY <1>0
<1>2. slots'[s].load = to /\ \A t \in Slots \ {s} : slots'[t] = slots[t]
  BY <1>0, <1>1, LoadMoves DEF Loads
<1>3. \A i \in 1..Len(loads') : i + 1 \in 1..Len(loads) /\ i + 1 # 1 /\ loads[i + 1] \in Slots
  BY <1>0
<1>4. \A i \in 1..Len(loads') : loads'[i] # s
  BY <1>0, <1>1, <1>3 DEF IInv, QueueCoherent
<1>5. ASSUME NEW i \in 1..Len(loads')
      PROVE  slots'[loads'[i]].load = "queued"
  <2>1. loads'[i] = loads[i + 1] /\ i + 1 \in 1..Len(loads) /\ loads'[i] \in Slots \ {s}
    BY <1>0, <1>3, <1>4
  <2>2. slots[loads[i + 1]].load = "queued"
    BY <2>1 DEF IInv, QueueCoherent
  <2> QED
    BY <1>2, <2>1, <2>2
<1>6. \A i, j \in 1..Len(loads') : loads'[i] = loads'[j] => i = j
  BY <1>0, <1>3 DEF IInv, QueueCoherent
<1>7. ASSUME NEW t \in Slots, slots'[t].load = "queued"
      PROVE  \E i \in 1..Len(loads') : loads'[i] = t
  <2>1. t # s /\ slots[t].load = "queued"
    BY <1>2, <1>7
  <2>2. PICK i \in 1..Len(loads) : loads[i] = t
    BY <2>1 DEF IInv, QueueCoherent
  <2>3. i # 1 /\ i - 1 \in 1..Len(loads')
    BY <1>0, <1>1, <2>1, <2>2
  <2> QED
    BY <1>0, <2>2, <2>3
<1> QED
  BY <1>5, <1>6, <1>7 DEF QueueCoherent

\* A slot in the map is in it once, under its own account.
LEMMA MapElsewhere ==
  ASSUME IInv, NEW s \in Slots, players[slots[s].account] = s,
         NEW t \in Slots \ {s}, players[slots[t].account] = t
  PROVE  slots[t].account # slots[s].account
OBVIOUS

LEMMA LoadRefusedStep ==
  ASSUME IInv, LoadRefused
  PROVE  IInv'
<1>a. PICK s \in Slots : s = Head(loads)
  BY QueueTail DEF LoadRefused, IInv, TypeOK
<1>0. /\ loads' \in Seq(Slots) /\ slots[s].load = "queued" /\ players[slots[s].account] = s
      /\ slots[s].closed = "no" /\ s \notin sweeping \cup unloading
  <2>1. loads' \in Seq(Slots) /\ 1 \in 1..Len(loads) /\ s = loads[1]
    BY <1>a, QueueTail DEF LoadRefused, IInv, TypeOK
  <2>2. slots[s].load = "queued"
    BY <2>1 DEF IInv, QueueCoherent
  <2> QED
    BY <2>1, <2>2 DEF IInv, MapCoherent, RetirementCoherent
<1>1. /\ slots' \in [Slots -> Slot] /\ slots'[s].load = "failed"
      /\ slots'[s].account = slots[s].account /\ slots'[s].leases = slots[s].leases
      /\ slots'[s].retiring = slots[s].retiring /\ slots'[s].closed = slots[s].closed
      /\ \A t \in Slots \ {s} : slots'[t] = slots[t]
  BY <1>a, LoadMoves DEF LoadRefused, Loads
<1>2. /\ players' \in [Accounts -> Slots \cup {NoSlot}]
      /\ \A a \in Accounts : a # slots[s].account => players'[a] = players[a]
  BY <1>a DEF LoadRefused, IInv, TypeOK
<1>3. TypeOK'
  BY <1>0, <1>1, <1>2 DEF IInv, TypeOK, LoadRefused, sweepVars, closeVars
<1>4. SlotsKnown' /\ LeasesCounted'
  BY <1>1, CallsKept DEF LoadRefused
<1>5. QueueCoherent'
  BY QueueServed DEF LoadRefused
<1>6. MapCoherent'
  <2>1. ASSUME NEW t \in Slots \ {s},
               slots[t].load \in {"queued", "opening", "open"} \/ slots[t].closed = "error"
        PROVE  players'[slots[t].account] = t
    <3>1. players[slots[t].account] = t /\ slots[t].account \in Accounts
      BY <2>1 DEF IInv, MapCoherent, TypeOK, Slot
    <3> QED
      BY <1>0, <1>2, <3>1, MapElsewhere
  <2> QED
    BY <1>0, <1>1, <2>1 DEF MapCoherent
<1>7. RetirementCoherent'
  BY <1>0, <1>1 DEF IInv, RetirementCoherent, TypeOK, LoadRefused, sweepVars, closeVars
<1>8. Held'
  BY DEF Held, LoadRefused, closing, closeVars
<1>9. ShutdownCoherent'
  BY <1>0, <1>1 DEF IInv, ShutdownCoherent, LoadRefused, closeVars
<1> QED
  BY <1>3, <1>4, <1>5, <1>6, <1>7, <1>8, <1>9 DEF IInv

LEMMA LoadStartsStep ==
  ASSUME IInv, LoadStarts
  PROVE  IInv'
<1>a. PICK s \in Slots : s = Head(loads)
  BY QueueTail DEF LoadStarts, IInv, TypeOK
<1>0. /\ loads' \in Seq(Slots) /\ slots[s].load = "queued"
      /\ slots[s].closed = "no" /\ s \notin sweeping \cup unloading
  <2>1. loads' \in Seq(Slots) /\ 1 \in 1..Len(loads) /\ s = loads[1]
    BY <1>a, QueueTail DEF LoadStarts, IInv, TypeOK
  <2>2. slots[s].load = "queued"
    BY <2>1 DEF IInv, QueueCoherent
  <2> QED
    BY <2>1, <2>2 DEF IInv, RetirementCoherent
<1>1. /\ slots' \in [Slots -> Slot] /\ slots'[s].load = "opening"
      /\ slots'[s].account = slots[s].account /\ slots'[s].leases = slots[s].leases
      /\ slots'[s].retiring = slots[s].retiring /\ slots'[s].closed = slots[s].closed
      /\ \A t \in Slots \ {s} : slots'[t] = slots[t]
  BY <1>a, LoadMoves DEF LoadStarts, Loads
<1>2. TypeOK'
  BY <1>0, <1>1 DEF IInv, TypeOK, LoadStarts, sweepVars, closeVars
<1>3. SlotsKnown' /\ LeasesCounted' /\ \A c \in Callers, t \in Slots : Holds(c, t)' <=> Holds(c, t)
  BY <1>1, CallsKept DEF LoadStarts
<1>4. QueueCoherent'
  BY QueueServed DEF LoadStarts
<1>5. MapCoherent'
  BY <1>0, <1>1 DEF IInv, MapCoherent, LoadStarts
<1>6. RetirementCoherent'
  BY <1>0, <1>1 DEF IInv, RetirementCoherent, TypeOK, LoadStarts, sweepVars, closeVars
<1>7. Held'
  BY <1>0, <1>1, <1>3 DEF IInv, Held, LoadStarts, closing, closeVars
<1>8. ShutdownCoherent'
  BY DEF IInv, ShutdownCoherent, LoadStarts, closing, closeVars
<1> QED
  BY <1>2, <1>3, <1>4, <1>5, <1>6, <1>7, <1>8 DEF IInv

LEMMA LoadOpensStep ==
  ASSUME IInv, NEW s \in Slots, LoadOpens(s)
  PROVE  IInv'
<1>1. /\ slots' \in [Slots -> Slot] /\ slots'[s].load = "open"
      /\ slots'[s].account = slots[s].account /\ slots'[s].leases = slots[s].leases
      /\ slots'[s].retiring = slots[s].retiring /\ slots'[s].closed = slots[s].closed
      /\ \A t \in Slots \ {s} : slots'[t] = slots[t]
  BY LoadMoves DEF LoadOpens, Loads
<1>2. TypeOK'
  BY <1>1 DEF IInv, TypeOK, LoadOpens, sweepVars, closeVars
<1>3. SlotsKnown' /\ LeasesCounted' /\ \A c \in Callers, t \in Slots : Holds(c, t)' <=> Holds(c, t)
  BY <1>1, CallsKept DEF LoadOpens
<1>4. QueueCoherent'
  <2>1. \A i \in 1..Len(loads) : loads[i] \in Slots
    BY DEF IInv, TypeOK
  <2> QED
    BY <1>1, <2>1 DEF IInv, QueueCoherent, LoadOpens
<1>5. MapCoherent'
  BY <1>1 DEF IInv, MapCoherent, LoadOpens
<1>6. RetirementCoherent'
  BY <1>1 DEF IInv, RetirementCoherent, TypeOK, LoadOpens, sweepVars, closeVars
<1>7. Held'
  BY <1>1, <1>3 DEF IInv, Held, LoadOpens, closing, closeVars
<1>8. ShutdownCoherent'
  BY <1>1 DEF IInv, ShutdownCoherent, LoadOpens, closeVars
<1> QED
  BY <1>2, <1>3, <1>4, <1>5, <1>6, <1>7, <1>8 DEF IInv

LEMMA LoadFailsStep ==
  ASSUME IInv, NEW s \in Slots, LoadFails(s)
  PROVE  IInv'
<1>1. /\ slots' \in [Slots -> Slot] /\ slots'[s].load = "failed"
      /\ slots'[s].account = slots[s].account /\ slots'[s].leases = slots[s].leases
      /\ slots'[s].retiring = slots[s].retiring /\ slots'[s].closed = slots[s].closed
      /\ \A t \in Slots \ {s} : slots'[t] = slots[t]
  BY LoadMoves DEF LoadFails, Loads
<1>2. /\ players' \in [Accounts -> Slots \cup {NoSlot}]
      /\ \A a \in Accounts : players[a] # s => players'[a] = players[a]
      /\ slots[s].closed # "error"
  BY DEF LoadFails, WithoutSlot, IInv, TypeOK, RetirementCoherent
<1>3. TypeOK'
  BY <1>1, <1>2 DEF IInv, TypeOK, LoadFails, sweepVars, closeVars
<1>4. SlotsKnown' /\ LeasesCounted' /\ \A c \in Callers, t \in Slots : Holds(c, t)' <=> Holds(c, t)
  BY <1>1, CallsKept DEF LoadFails
<1>5. QueueCoherent'
  <2>1. \A i \in 1..Len(loads) : loads[i] \in Slots
    BY DEF IInv, TypeOK
  <2> QED
    BY <1>1, <2>1 DEF IInv, QueueCoherent, LoadFails
<1>6. MapCoherent'
  <2>1. \A t \in Slots : slots[t].account \in Accounts
    BY DEF IInv, TypeOK, Slot
  <2> QED
    BY <1>1, <1>2, <2>1 DEF IInv, MapCoherent
<1>7. RetirementCoherent'
  BY <1>1 DEF IInv, RetirementCoherent, TypeOK, LoadFails, sweepVars, closeVars
<1>8. Held'
  BY <1>1, <1>4 DEF IInv, Held, LoadFails, closing, closeVars
<1>9. ShutdownCoherent'
  BY <1>1 DEF IInv, ShutdownCoherent, LoadFails, closeVars
<1> QED
  BY <1>3, <1>4, <1>5, <1>6, <1>7, <1>8, <1>9 DEF IInv

-----------------------------------------------------------------------------
(* Expiry, retirement and shutdown. *)

LEMMA RetiringFields ==
  ASSUME TypeOK, NEW those, slots' = Retiring(those)
  PROVE  /\ slots' \in [Slots -> Slot]
         /\ \A s \in Slots : /\ slots'[s].load = slots[s].load /\ slots'[s].account = slots[s].account
                             /\ slots'[s].leases = slots[s].leases /\ slots'[s].closed = slots[s].closed
                             /\ s \in those => slots'[s].retiring
                             /\ slots[s].retiring => slots'[s].retiring
                             /\ s \notin those => slots'[s] = slots[s]
<1>1. ASSUME NEW s \in Slots
      PROVE  /\ slots'[s] \in Slot
             /\ slots'[s].load = slots[s].load /\ slots'[s].account = slots[s].account
             /\ slots'[s].leases = slots[s].leases /\ slots'[s].closed = slots[s].closed
             /\ s \in those => slots'[s].retiring
             /\ slots[s].retiring => slots'[s].retiring
             /\ s \notin those => slots'[s] = slots[s]
  <2>0. slots[s] \in Slot /\ TRUE \in BOOLEAN
    BY DEF TypeOK
  <2>1. CASE s \in those
    <3>1. slots'[s] = [slots[s] EXCEPT !.retiring = TRUE]
      BY <2>1 DEF Retiring
    <3>2. slots'[s] \in Slot
      BY <2>0, <3>1, SlotFields
    <3> QED
      BY <2>0, <2>1, <3>1, <3>2 DEF Slot
  <2>2. CASE s \notin those
    <3>1. slots'[s] = slots[s]
      BY <2>2 DEF Retiring
    <3> QED
      BY <2>0, <2>2, <3>1
  <2> QED
    BY <2>1, <2>2
<1>2. slots' = [s \in Slots |-> slots'[s]]
  BY DEF Retiring
<1> QED
  BY <1>1, <1>2

LEMMA SweepStep ==
  ASSUME IInv, Sweep
  PROVE  IInv'
<1>1. /\ slots' \in [Slots -> Slot]
      /\ \A s \in Slots : /\ slots'[s].load = slots[s].load /\ slots'[s].account = slots[s].account
                          /\ slots'[s].leases = slots[s].leases /\ slots'[s].closed = slots[s].closed
                          /\ s \in Expired => slots'[s].retiring
                          /\ slots[s].retiring => slots'[s].retiring
                          /\ s \notin Expired => slots'[s] = slots[s]
  BY RetiringFields DEF IInv, Sweep
<1>2. Expired \subseteq Slots /\ \A s \in Expired : slots[s].load = "open" /\ slots[s].leases = 0
  BY DEF Expired, ResidentSlots, IsExpired
<1>3. TypeOK'
  BY <1>1, <1>2 DEF IInv, TypeOK, Sweep, closeVars
<1>4. SlotsKnown' /\ LeasesCounted' /\ \A c \in Callers, s \in Slots : Holds(c, s)' <=> Holds(c, s)
  BY <1>1, CallsKept DEF Sweep
<1>5. QueueCoherent'
  <2>1. \A i \in 1..Len(loads) : loads[i] \in Slots
    BY DEF IInv, TypeOK
  <2> QED
    BY <1>1, <2>1 DEF IInv, QueueCoherent, Sweep
<1>6. MapCoherent'
  BY <1>1 DEF IInv, MapCoherent, Sweep
<1>7. RetirementCoherent'
  BY <1>1, <1>2 DEF IInv, RetirementCoherent, TypeOK, Sweep, closeVars
<1>8. Held'
  <2>1. ASSUME NEW c \in Callers, NEW s \in Expired, Holds(c, s)
        PROVE  FALSE
    <3>1. Cardinality(Holders(s)) = 0
      BY <1>2 DEF IInv, LeasesCounted
    <3>2. Holders(s) = {}
      BY <3>1, HoldersFinite, FS_EmptySet
    <3> QED
      BY <2>1, <3>2 DEF Holders
  <2> QED
    BY <1>1, <1>2, <1>4, <2>1 DEF IInv, Held, Sweep, closing, closeVars
<1>9. ShutdownCoherent'
  BY <1>1 DEF IInv, ShutdownCoherent, Sweep, closeVars
<1> QED
  BY <1>3, <1>4, <1>5, <1>6, <1>7, <1>8, <1>9 DEF IInv

\* A retiring slot closes, or was closed before.  (The callers, the queue and the
\* lists of slots to retire are the steps' own.)
LEMMA RetireStep ==
  ASSUME IInv, NEW s \in sweeping \cup unloading, NEW closes \in BOOLEAN, Retire(s, closes),
         UNCHANGED <<loads, calls>>
  PROVE  /\ slots' \in [Slots -> Slot] /\ players' \in [Accounts -> Slots \cup {NoSlot}]
         /\ s \in Slots /\ slots[s].retiring
         /\ slots'[s].load = "closed" /\ slots'[s].closed # "no" /\ slots'[s].retiring
         /\ \A t \in Slots \ {s} : slots'[t] = slots[t]
         /\ SlotsKnown' /\ LeasesCounted' /\ QueueCoherent' /\ MapCoherent'
<1>0. /\ TypeOK /\ s \in Slots /\ slots[s] \in Slot /\ slots[s].retiring
      /\ slots[s].load \in {"open", "closed"}
      /\ (slots[s].load = "closed") <=> (slots[s].closed # "no")
  BY DEF IInv, TypeOK, RetirementCoherent
<1>1. CASE slots[s].closed # "no"
  <2>1. UNCHANGED <<players, slots>>
    BY <1>1 DEF Retire
  <2>2. QueueCoherent' /\ MapCoherent'
    BY <2>1 DEF IInv, QueueCoherent, MapCoherent
  <2>3. SlotsKnown' /\ LeasesCounted'
    BY <2>1, CallsKept
  <2> QED
    BY <1>0, <1>1, <2>1, <2>2, <2>3 DEF TypeOK
<1>2. CASE slots[s].closed = "no"
  <2> DEFINE how == IF closes THEN "yes" ELSE "error"
  <2>1. players[slots[s].account] = s /\ slots[s].load = "open"
    BY <1>0, <1>2 DEF IInv, MapCoherent
  <2>2. slots' = [slots EXCEPT ![s] = [[slots[s] EXCEPT !.load = "closed"] EXCEPT !.closed = how]]
    BY <1>0, <1>2 DEF Retire, TypeOK
  <2>3. [[slots[s] EXCEPT !.load = "closed"] EXCEPT !.closed = how] \in Slot
    <3>1. "closed" \in Loads /\ how \in {"no", "yes", "error"}
      BY DEF Loads
    <3>2. [slots[s] EXCEPT !.load = "closed"] \in Slot
      BY <1>0, <3>1, SlotFields
    <3> HIDE DEF how
    <3> QED
      BY <3>1, <3>2, SlotFields
  <2>4. /\ slots' \in [Slots -> Slot] /\ \A t \in Slots \ {s} : slots'[t] = slots[t]
        /\ slots'[s].load = "closed" /\ slots'[s].closed = how
        /\ slots'[s].account = slots[s].account /\ slots'[s].leases = slots[s].leases
        /\ slots'[s].retiring = slots[s].retiring
    BY <1>0, <2>2, <2>3 DEF TypeOK, Slot
  <2>5. /\ players' \in [Accounts -> Slots \cup {NoSlot}]
        /\ \A a \in Accounts : players[a] # s => players'[a] = players[a]
        /\ how = "error" => players' = players
    BY <1>0, <1>2 DEF Retire, Forgotten, WithoutSlot, TypeOK
  <2>6. SlotsKnown' /\ LeasesCounted'
    BY <2>4, CallsKept
  <2>7. QueueCoherent'
    <3>1. \A i \in 1..Len(loads) : loads[i] \in Slots \ {s}
      BY <1>0, <2>1 DEF IInv, QueueCoherent, TypeOK
    <3> QED
      BY <2>1, <2>4, <3>1 DEF IInv, QueueCoherent
  <2>8. MapCoherent'
    <3>1. \A t \in Slots : slots[t].account \in Accounts
      BY <1>0 DEF TypeOK, Slot
    <3> QED
      BY <2>1, <2>4, <2>5, <3>1 DEF IInv, MapCoherent
  <2> QED
    BY <1>0, <2>4, <2>5, <2>6, <2>7, <2>8
<1> QED
  BY <1>0, <1>1, <1>2

\* The caller that holds a slot keeps it from being retired, in service.
LEMMA HeldElsewhere ==
  ASSUME IInv, NEW s \in Slots, slots[s].retiring,
         \A t \in Slots \ {s} : slots'[t] = slots[t], UNCHANGED <<calls, shutdown>>
  PROVE  Held'
<1>1. SUFFICES ASSUME ~closing, NEW c \in Callers, NEW t \in Slots, Holds(c, t)
               PROVE  t # s
  BY <1>1 DEF IInv, Held, Holds, closing
<1> QED
  BY <1>1 DEF IInv, Held

LEMMA SweeperRetiresStep ==
  ASSUME IInv, NEW s \in Slots, NEW closes \in BOOLEAN, SweeperRetires(s, closes)
  PROVE  IInv'
<1>0. /\ s \in sweeping /\ sweeping' = sweeping \ {s} /\ Retire(s, closes)
      /\ UNCHANGED <<loads, sweeperDone, shutdown, unloading, calls>>
  BY DEF SweeperRetires, closeVars
<1>1. /\ slots' \in [Slots -> Slot] /\ players' \in [Accounts -> Slots \cup {NoSlot}]
      /\ slots[s].retiring
      /\ slots'[s].load = "closed" /\ slots'[s].closed # "no" /\ slots'[s].retiring
      /\ \A t \in Slots \ {s} : slots'[t] = slots[t]
      /\ SlotsKnown' /\ LeasesCounted' /\ QueueCoherent' /\ MapCoherent'
  BY <1>0, RetireStep
<1>2. TypeOK'
  BY <1>0, <1>1 DEF IInv, TypeOK
<1>3. RetirementCoherent'
  BY <1>0, <1>1 DEF IInv, TypeOK, RetirementCoherent
<1>4. Held'
  BY <1>0, <1>1, HeldElsewhere
<1>5. ShutdownCoherent'
  BY <1>0, <1>1 DEF IInv, ShutdownCoherent
<1> QED
  BY <1>1, <1>2, <1>3, <1>4, <1>5 DEF IInv

LEMMA ShutdownRetiresStep ==
  ASSUME IInv, NEW s \in Slots, NEW closes \in BOOLEAN, ShutdownRetires(s, closes)
  PROVE  IInv'
<1>0. /\ s \in unloading /\ unloading' = unloading \ {s} /\ Retire(s, closes)
      /\ shutdown = "retiring"
      /\ UNCHANGED <<loads, sweeping, sweeperDone, shutdown, calls>>
  BY DEF ShutdownRetires, sweepVars
<1>1. /\ slots' \in [Slots -> Slot] /\ players' \in [Accounts -> Slots \cup {NoSlot}]
      /\ slots[s].retiring
      /\ slots'[s].load = "closed" /\ slots'[s].closed # "no" /\ slots'[s].retiring
      /\ \A t \in Slots \ {s} : slots'[t] = slots[t]
      /\ SlotsKnown' /\ LeasesCounted' /\ QueueCoherent' /\ MapCoherent'
  BY <1>0, RetireStep
<1>2. TypeOK'
  BY <1>0, <1>1 DEF IInv, TypeOK
<1>3. RetirementCoherent'
  BY <1>0, <1>1 DEF IInv, TypeOK, RetirementCoherent
<1>4. Held'
  BY <1>0, <1>1, HeldElsewhere
<1>5. ShutdownCoherent'
  BY <1>0, <1>1 DEF IInv, ShutdownCoherent
<1> QED
  BY <1>1, <1>2, <1>3, <1>4, <1>5 DEF IInv

LEMMA ShutdownMarksStep ==
  ASSUME IInv, ShutdownMarks
  PROVE  IInv'
<1>1. PICK those \in SUBSET Slots :
        /\ those = {s \in ResidentSlots : slots[s].load \in {"open", "closed"}}
        /\ unloading' = those /\ slots' = Retiring(those)
  BY DEF ShutdownMarks, ResidentSlots, Retiring
<1>2. /\ slots' \in [Slots -> Slot]
      /\ \A s \in Slots : /\ slots'[s].load = slots[s].load /\ slots'[s].account = slots[s].account
                          /\ slots'[s].leases = slots[s].leases /\ slots'[s].closed = slots[s].closed
                          /\ s \in those => slots'[s].retiring
                          /\ slots[s].retiring => slots'[s].retiring
  BY <1>1, RetiringFields DEF IInv
<1>3. /\ shutdown = "waiting" /\ shutdown' = "retiring" /\ loads = <<>> /\ Opening = {}
      /\ UNCHANGED <<players, loads, sweeping, sweeperDone, calls>>
  BY DEF ShutdownMarks, WorkersDone, sweepVars
<1>4. TypeOK'
  BY <1>1, <1>2, <1>3 DEF IInv, TypeOK
<1>5. SlotsKnown' /\ LeasesCounted'
  BY <1>2, <1>3, CallsKept
<1>6. QueueCoherent'
  BY <1>2, <1>3 DEF IInv, QueueCoherent, TypeOK
<1>7. MapCoherent'
  BY <1>2, <1>3 DEF IInv, MapCoherent
<1>8. RetirementCoherent'
  BY <1>1, <1>2, <1>3 DEF IInv, RetirementCoherent, TypeOK
<1>9. Held'
  BY <1>3 DEF Held, closing
<1>10. ShutdownCoherent'
  <2>1. \A s \in Slots : slots[s].load \notin {"queued", "opening"}
    BY <1>3 DEF IInv, QueueCoherent, Opening
  <2>2. \A s \in Slots : slots[s].load = "open" => s \in those
    <3>1. \A s \in Slots : slots[s].account \in Accounts
      BY DEF IInv, TypeOK, Slot
    <3> QED
      BY <1>1, <3>1 DEF IInv, MapCoherent, ResidentSlots
  <2> QED
    BY <1>1, <1>2, <1>3, <2>1, <2>2 DEF ShutdownCoherent
<1> QED
  BY <1>4, <1>5, <1>6, <1>7, <1>8, <1>9, <1>10 DEF IInv

\* SweeperStops, Close and ShutdownFinishes touch neither slots nor callers.
LEMMA LifecycleStep ==
  ASSUME IInv, SweeperStops \/ Close \/ ShutdownFinishes
  PROVE  IInv'
<1>1. /\ UNCHANGED <<players, slots, loads, sweeping, unloading, calls>>
      /\ \/ UNCHANGED shutdown /\ sweeperDone' = TRUE
         \/ shutdown = "no" /\ shutdown' = "waiting" /\ UNCHANGED sweeperDone
         \/ /\ shutdown = "retiring" /\ shutdown' = "done" /\ unloading = {}
            /\ UNCHANGED sweeperDone
  BY DEF SweeperStops, Close, ShutdownFinishes, closeVars, sweepVars
<1>2. TypeOK'
  <2>1. sweeperDone' \in BOOLEAN
    BY <1>1, Zenon DEF IInv, TypeOK
  <2> QED
    BY <1>1, <2>1 DEF IInv, TypeOK
<1>3. SlotsKnown' /\ LeasesCounted'
  BY <1>1, CallsKept
<1>4. QueueCoherent'
  BY <1>1 DEF IInv, QueueCoherent
<1>5. MapCoherent'
  BY <1>1 DEF IInv, MapCoherent
<1>6. RetirementCoherent'
  BY <1>1 DEF IInv, RetirementCoherent
<1>7. Held'
  BY <1>1 DEF IInv, Held, Holds, closing
<1>8. ShutdownCoherent'
  BY <1>1 DEF IInv, ShutdownCoherent
<1> QED
  BY <1>2, <1>3, <1>4, <1>5, <1>6, <1>7, <1>8 DEF IInv

LEMMA StutterStep == ASSUME IInv, UNCHANGED vars PROVE IInv'
<1>1. UNCHANGED <<players, slots, loads, sweeping, sweeperDone, shutdown, unloading, calls>>
  BY DEF vars, sweepVars, closeVars
<1>2. TypeOK'
  BY <1>1 DEF IInv, TypeOK
<1>3. SlotsKnown' /\ LeasesCounted'
  BY <1>1, CallsKept
<1>4. QueueCoherent' /\ MapCoherent' /\ RetirementCoherent' /\ ShutdownCoherent'
  BY <1>1, StateKept DEF SameState
<1>5. Held'
  BY <1>1 DEF IInv, Held, Holds, closing
<1> QED
  BY <1>2, <1>3, <1>4, <1>5 DEF IInv

-----------------------------------------------------------------------------
(* The invariant, and what follows from it. *)

LEMMA NextKept ==
  ASSUME IInv, [Next]_vars
  PROVE  IInv'
<1>1. ASSUME NEW c \in Callers, AcquireStep(c) PROVE IInv'
  <2>1. CASE AcquireRefused(c) \/ AcquireAwaitsRetired(c) \/ RetiredSeen(c) \/ ReadySeen(c)
    BY <2>1, CallerMovesSteps
  <2>2. CASE AcquireJoins(c)
    BY <2>2, AcquireJoinsStep
  <2>3. ASSUME NEW s \in Slots, AcquireLoads(c, s) PROVE IInv'
    BY <2>3, AcquireLoadsStep
  <2>4. CASE AcquireFails(c)
    BY <2>4, GivesBackStep DEF AcquireFails
  <2> QED
    BY <1>1, <2>1, <2>2, <2>3, <2>4 DEF AcquireStep
<1>2. ASSUME NEW c \in Callers, (\E a \in Accounts : Start(c, a)) \/ RetiredWaitCancelled(c)
      PROVE  IInv'
  BY <1>2, CallerMovesSteps
<1>3. ASSUME NEW c \in Callers, ReadyWaitCancelled(c) \/ Release(c) PROVE IInv'
  BY <1>3, GivesBackStep DEF ReadyWaitCancelled, Release
<1>4. ASSUME NEW a \in Accounts, Touch(a) PROVE IInv'
  BY <1>4, TouchStep
<1>5. CASE LoadStep
  BY <1>5, LoadRefusedStep, LoadStartsStep, LoadOpensStep, LoadFailsStep DEF LoadStep
<1>6. CASE Tick
  BY <1>6, TickStep
<1>7. CASE Sweep
  BY <1>7, SweepStep
<1>8. CASE SweeperStep
  BY <1>8, SweeperRetiresStep, LifecycleStep DEF SweeperStep
<1>9. CASE Close
  BY <1>9, LifecycleStep
<1>10. CASE ShutdownStep
  BY <1>10, ShutdownMarksStep, ShutdownRetiresStep, LifecycleStep DEF ShutdownStep
<1>11. CASE UNCHANGED vars
  BY <1>11, StutterStep
<1> QED
  BY <1>1, <1>2, <1>3, <1>4, <1>5, <1>6, <1>7, <1>8, <1>9, <1>10, <1>11 DEF Next

LEMMA Inductive == Spec => []IInv
<1>1. Init => IInv
  BY InitStep
<1>2. IInv /\ [Next]_vars => IInv'
  BY NextKept
<1> QED
  BY <1>1, <1>2, PTL DEF Spec

\* Every variable keeps its type.
THEOREM TypeCorrect == Spec => []TypeOK
<1>1. IInv => TypeOK
  BY DEF IInv
<1> QED
  BY <1>1, Inductive, PTL

\* At most one slot at a time owns the file of an account, for any number of
\* accounts, callers and slots: what opens or is open is what the map says, and
\* so is a slot that failed to close.
THEOREM OneWriterAlways == Spec => []OneWriter
<1>1. IInv => OneWriter
  BY DEF IInv, MapCoherent, OneWriter, Owns
<1> QED
  BY <1>1, Inductive, PTL

\* What is queued, opening or open is in the map.
THEOREM NeverOrphaned == Spec => []NoOrphans
<1>1. IInv => NoOrphans
  BY DEF IInv, MapCoherent, NoOrphans
<1> QED
  BY <1>1, Inductive, PTL

\* While the registry serves, whoever holds a runtime keeps it open: the slot's
\* leases count its holders, so that no sweep finds it expired.
THEOREM LeasedRemainsOpen == Spec => []LeasedStaysOpen
<1>1. IInv => LeasedStaysOpen
  BY DEF IInv, SlotsKnown, Held, Holds, LeasedStaysOpen
<1> QED
  BY <1>1, Inductive, PTL

\* When Close returns nothing is open: the load workers and the sweeper had
\* ended before shutdown looked for open slots.
THEOREM ClosedForGood == Spec => []ClosedIsClosed
<1>1. IInv => ClosedIsClosed
  BY DEF IInv, ShutdownCoherent, ClosedIsClosed
<1> QED
  BY <1>1, Inductive, PTL

=============================================================================
