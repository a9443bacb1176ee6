---------------------- MODULE OutboxDelivery_proofs ----------------------
(***************************************************************************)
(* Proofs about OutboxDelivery, for any accounts, workers and capacities.   *)
(*                                                                          *)
(* The inductive invariant adds to the properties what keeps them: a held   *)
(* account is scheduled, a request in a mailbox is the one its worker waits *)
(* for, an acknowledgement is only asked for what the shared file has.  A    *)
(* second invariant, WakeInv, follows the pages of a delivery; a third, LogInv, *)
(* says where the pages and the requests are in the log of the account.      *)
(***************************************************************************)
EXTENDS OutboxDelivery, TLAPS, SequenceTheorems

\* The worker has taken an account off the queue and not given it back.
Holds(w) == worker[w].step \notin {"idle", "rewake"}

\* What is queued or held is scheduled, so that a wake finds it.
HeldIsScheduled ==
  /\ \A i \in DOMAIN queue : queue[i] \in DOMAIN scheduled
  /\ \A w \in Workers : Holds(w) => worker[w].account \in DOMAIN scheduled

Dispatched == OneDelivery /\ HeldIsScheduled

Waiting(kind) == IF kind = "read" THEN "reading" ELSE "acknowledging"

\* A request that is not abandoned is the one its worker waits for, and an
\* acknowledgement names an event of the shared file.
MailIsAwaited ==
  \A a \in Accounts : \A i \in DOMAIN mailbox[a] :
    LET r == mailbox[a][i] IN
    /\ r.kind = "acknowledge" => r.event \in inbox[a]
    /\ r.kind = "read" => r.event = Abandoned
    /\ r.by \in Workers =>
         /\ worker[r.by].step = Waiting(r.kind)
         /\ worker[r.by].account = a
         /\ \A j \in DOMAIN mailbox[a] : mailbox[a][j].by = r.by => i = j

\* The page of a job holds published events, and its head is applied before it
\* is acknowledged.
JobOK(j) ==
  /\ Range(j.page) \subseteq Range(published[j.account])
  /\ j.step \in {"consume", "acknowledge", "acknowledging"} => j.page # <<>>
  /\ j.step \in {"read", "reading", "consume", "acknowledge", "acknowledging"} =>
       j.pages < MaxPages
  /\ j.step \in {"acknowledge", "acknowledging"} => Head(j.page) \in inbox[j.account]

PagesArePublished == \A w \in Workers : worker[w].step # "idle" => JobOK(worker[w])

IInv == TypeOK /\ Dispatched /\ MailIsAwaited /\ PagesArePublished /\ NothingLost

-----------------------------------------------------------------------------
(* Data *)

LEMMA PagesAreSome == MaxPages \in Nat \ {0}
<1>1. MaxPending \in Nat /\ PageSize \in Nat /\ PageSize > 0
  BY DeliveryAssumption
<1>2. MaxPending \div PageSize \in Nat
  BY <1>1
<1> QED
  BY <1>2 DEF MaxPages

\* A new element at the end of a sequence.
LEMMA AppendedRange ==
  ASSUME NEW S, NEW s \in Seq(S), NEW e \in S
  PROVE  /\ Append(s, e) \in Seq(S)
         /\ Range(Append(s, e)) = Range(s) \cup {e}
         /\ Len(Append(s, e)) = Len(s) + 1
BY AppendProperties DEF Range

LEMMA EmptyRange == Range(<<>>) = {}
BY DEF Range

LEMMA HeadAndTail ==
  ASSUME NEW S, NEW s \in Seq(S), s # <<>>
  PROVE  /\ Head(s) \in S /\ Head(s) \in Range(s)
         /\ Tail(s) \in Seq(S) /\ Range(Tail(s)) \subseteq Range(s)
BY HeadTailProperties DEF Range

\* What a part of a sequence consists of.
LEMMA RangeOfPart ==
  ASSUME NEW S, NEW s \in Seq(S), NEW m \in Nat \ {0}, NEW n \in Nat, n <= Len(s)
  PROVE  SubSeq(s, m, n) \in Seq(S) /\ Range(SubSeq(s, m, n)) = {s[i] : i \in m..n}
<1> DEFINE t == SubSeq(s, m, n)
<1>1. /\ t \in Seq(S)
      /\ Len(t) = IF m <= n THEN n - m + 1 ELSE 0
      /\ \A i \in 1..(n - m + 1) : t[i] = s[m + i - 1]
  BY SubSeqProperties
<1> HIDE DEF t
<1>2. DOMAIN t = 1..(n - m + 1)
  BY <1>1
<1>3. ASSUME NEW i \in m..n PROVE \E j \in DOMAIN t : t[j] = s[i]
  <2>1. i - m + 1 \in 1..(n - m + 1) /\ m + (i - m + 1) - 1 = i
    OBVIOUS
  <2> QED
    BY <2>1, <1>1, <1>2
<1>4. ASSUME NEW j \in DOMAIN t PROVE \E i \in m..n : t[j] = s[i]
  <2>1. m + j - 1 \in m..n
    BY <1>2
  <2> QED
    BY <2>1, <1>1, <1>2
<1>5. Range(t) = {s[i] : i \in m..n}
  BY <1>3, <1>4 DEF Range
<1> QED
  BY <1>1, <1>5 DEF t

\* Removing a row takes away nothing but its key.
LEMMA WithoutKeeps ==
  ASSUME NEW a \in Accounts, NEW id, pending[a] \in Seq(Ids)
  PROVE  /\ Without(a, id) \in Seq(Ids)
         /\ Range(Without(a, id)) \subseteq Range(pending[a])
         /\ Range(pending[a]) \ {id} \subseteq Range(Without(a, id))
<1> DEFINE s == pending[a]
<1>1. CASE id \notin Range(s)
  BY <1>1 DEF Without
<1>2. CASE id \in Range(s)
  <2>1. PICK k \in DOMAIN s : k = Row(a, id) /\ s[k] = id
    BY <1>2 DEF Row, Range
  <2>2. k \in 1..Len(s) /\ Len(s) \in Nat
    BY <2>1
  <2> DEFINE f == SubSeq(s, 1, k - 1)
             g == SubSeq(s, k + 1, Len(s))
  <2>3. Without(a, id) = f \o g
    BY <1>2, <2>1 DEF Without, RemoveAt
  <2>4. f \in Seq(Ids) /\ Range(f) = {s[i] : i \in 1..(k - 1)}
    BY <2>2, RangeOfPart
  <2>5. g \in Seq(Ids) /\ Range(g) = {s[i] : i \in (k + 1)..Len(s)}
    BY <2>2, RangeOfPart
  <2> HIDE DEF f, g
  <2>6. f \o g \in Seq(Ids) /\ Range(f \o g) = Range(f) \cup Range(g)
    BY <2>4, <2>5, ConcatProperties, RangeConcatenation
  <2>7. Range(s) = {s[i] : i \in 1..Len(s)}
    BY <2>2 DEF Range
  <2>8. /\ \A i \in 1..Len(s) : i = k \/ i \in 1..(k - 1) \/ i \in (k + 1)..Len(s)
        /\ 1..(k - 1) \subseteq 1..Len(s)
        /\ (k + 1)..Len(s) \subseteq 1..Len(s)
    BY <2>2
  <2>9. Range(f) \subseteq Range(s) /\ Range(g) \subseteq Range(s)
    BY <2>4, <2>5, <2>7, <2>8, Zenon
  <2>10. ASSUME NEW e \in Range(s), e # id PROVE e \in Range(f) \/ e \in Range(g)
    <3>1. PICK i \in 1..Len(s) : s[i] = e
      BY <2>7, Zenon
    <3>2. i # k
      BY <2>1, <2>10, <3>1, Zenon
    <3> QED
      BY <2>4, <2>5, <2>8, <3>1, <3>2, Zenon
  <2> QED
    BY <2>3, <2>6, <2>9, <2>10, Zenon
<1> QED
  BY <1>1, <1>2

\* A worker that is not idle has a job.
LEMMA BusyHasJob ==
  ASSUME TypeOK, NEW w \in Workers, worker[w].step # "idle"
  PROVE  worker[w] \in Job
BY DEF TypeOK, Idle

-----------------------------------------------------------------------------
(* What steps have in common *)

LEMMA OrderIsSeq == Order \in Seq(Accounts)
BY DeliveryAssumption DEF Accounts, Range

LEMMA InitIInv == Init => IInv
<1> SUFFICES ASSUME Init PROVE IInv
  OBVIOUS
<1>1. \A a \in Accounts : published[a] = <<>> /\ pending[a] = <<>> /\ inbox[a] = {} /\ mailbox[a] = <<>>
  BY DEF Init
<1>2. \A w \in Workers : worker[w] = Idle /\ worker[w].step = "idle"
  BY DEF Init, Idle
<1>3. Order \in Seq(Accounts)
  BY OrderIsSeq
<1>4. TypeOK
  BY <1>3, DeliveryAssumption DEF Init, TypeOK, Unscheduled
<1>5. Dispatched
  BY <1>2, EmptyRange DEF Init, Dispatched, OneDelivery, HeldIsScheduled, Holds
<1>6. MailIsAwaited
  BY <1>1 DEF MailIsAwaited
<1>7. PagesArePublished
  BY <1>2 DEF PagesArePublished
<1>8. NothingLost
  BY <1>1, EmptyRange DEF NothingLost
<1> QED
  BY <1>4, <1>5, <1>6, <1>7, <1>8 DEF IInv

\* The files only gain events.
FilesGrow ==
  \A a \in Accounts : Range(published[a]) \subseteq Range(published'[a]) /\ inbox[a] \subseteq inbox'[a]

\* Workers that give their account back, or keep it, disturb no delivery.
LEMMA SameQueue ==
  ASSUME Dispatched, UNCHANGED <<queue, scheduled>>,
         \A w \in Workers : Holds(w)' => Holds(w) /\ worker'[w].account = worker[w].account
  PROVE  Dispatched'
<1>1. OneDelivery'
  BY DEF Dispatched, OneDelivery, Holds
<1>2. HeldIsScheduled'
  BY DEF Dispatched, HeldIsScheduled, Holds
<1> QED
  BY <1>1, <1>2 DEF Dispatched

\* A wake queues only what nobody holds.
LEMMA WakeKeepsDispatch ==
  ASSUME TypeOK, Dispatched, NEW a \in Accounts, Wake(a),
         \A w \in Workers : Holds(w)' => Holds(w) /\ worker'[w].account = worker[w].account
  PROVE  /\ Dispatched'
         /\ queue' \in Seq(Accounts) /\ Len(queue') <= QueueSize
         /\ DOMAIN scheduled' \subseteq Accounts
         /\ \A b \in DOMAIN scheduled' : scheduled'[b] \in BOOLEAN
         /\ deferred' \subseteq Accounts
<1>0. deferred' \subseteq Accounts
  <2>1. deferred' = deferred \/ deferred' = deferred \cup {a} \/ deferred' = deferred \ {a}
    BY DEF Wake
  <2> QED
    BY <2>1 DEF TypeOK
<1>1. CASE UNCHANGED <<queue, scheduled>>
  BY <1>0, <1>1, SameQueue DEF TypeOK
<1>2. CASE UNCHANGED queue /\ a \in DOMAIN scheduled /\ WokenAgain(a) /\ UNCHANGED deferred
  <2>1. DOMAIN scheduled' = DOMAIN scheduled
    BY <1>2 DEF WokenAgain
  <2>2. \A b \in DOMAIN scheduled' : scheduled'[b] \in BOOLEAN
    BY <1>2, Zenon DEF WokenAgain, TypeOK
  <2>3. OneDelivery'
    BY <1>2 DEF Dispatched, OneDelivery, Holds
  <2>4. HeldIsScheduled'
    BY <1>2, <2>1 DEF Dispatched, HeldIsScheduled, Holds
  <2> QED
    BY <1>2, <2>1, <2>2, <2>3, <2>4 DEF Dispatched, TypeOK
<1>3. CASE /\ a \notin DOMAIN scheduled /\ HasRoom
           /\ queue' = Append(queue, a)
           /\ scheduled' = [b \in DOMAIN scheduled \cup {a} |-> IF b = a THEN FALSE ELSE scheduled[b]]
           /\ deferred' = deferred \ {a}
  <2>1. /\ queue' \in Seq(Accounts) /\ Len(queue') = Len(queue) + 1
        /\ queue'[Len(queue) + 1] = a
        /\ \A i \in 1..Len(queue) : queue'[i] = queue[i]
        /\ Len(queue) \in Nat
    BY <1>3, AppendProperties DEF TypeOK
  <2>2. Len(queue') <= QueueSize
    BY <1>3, <2>1, DeliveryAssumption DEF HasRoom
  <2>3. DOMAIN scheduled' = DOMAIN scheduled \cup {a}
    BY <1>3
  <2>4. \A b \in DOMAIN scheduled' : scheduled'[b] \in BOOLEAN
    BY <1>3, Zenon DEF TypeOK
  <2>5. \A i \in DOMAIN queue : queue[i] # a /\ queue[i] \in DOMAIN scheduled
    BY <1>3 DEF Dispatched, HeldIsScheduled
  <2>6. \A w \in Workers : Holds(w)' => Holds(w) /\ worker'[w].account # a /\ worker'[w].account \in DOMAIN scheduled
    BY <1>3 DEF Dispatched, HeldIsScheduled
  <2>7. DOMAIN queue' = 1..(Len(queue) + 1) /\ DOMAIN queue = 1..Len(queue)
    BY <2>1 DEF TypeOK
  <2>8. \A i \in DOMAIN queue' :
          \/ i \in DOMAIN queue /\ queue'[i] = queue[i]
          \/ i = Len(queue) + 1 /\ queue'[i] = a
    BY <2>1, <2>7
  <2>9. \A i, j \in DOMAIN queue' : queue'[i] = queue'[j] => i = j
    BY <2>5, <2>8 DEF Dispatched, OneDelivery
  <2>10. \A b \in Range(queue') : b \in Range(queue) \/ b = a
    BY <2>8 DEF Range
  <2>11. OneDelivery'
    <3>1. \A v, w \in Workers : Holds(v)' /\ Holds(w)' /\ worker'[v].account = worker'[w].account => v = w
      BY DEF Dispatched, OneDelivery, Holds
    <3>2. \A b \in Range(queue'), w \in Workers : Holds(w)' => worker'[w].account # b
      BY <2>6, <2>10 DEF Dispatched, OneDelivery, Holds
    <3> QED
      BY <2>9, <3>1, <3>2 DEF OneDelivery, Holds
  <2>12. HeldIsScheduled'
    BY <2>3, <2>5, <2>6, <2>8 DEF HeldIsScheduled
  <2> QED
    BY <1>3, <2>1, <2>2, <2>3, <2>4, <2>11, <2>12 DEF Dispatched, TypeOK
<1> QED
  BY <1>1, <1>2, <1>3 DEF Wake, IsScheduled

\* One worker gets another job, or none.
LEMMA OneJobChanges ==
  ASSUME TypeOK, PagesArePublished, FilesGrow, NEW w \in Workers, NEW j \in Job \cup {Idle},
         worker' = [worker EXCEPT ![w] = j], j.step # "idle" => JobOK(j)'
  PROVE  /\ worker' \in [Workers -> Job \cup {Idle}]
         /\ PagesArePublished'
<1>1. worker' \in [Workers -> Job \cup {Idle}] /\ worker'[w] = j
  BY DEF TypeOK
<1>2. ASSUME NEW v \in Workers, v # w, worker'[v].step # "idle"
      PROVE  JobOK(worker[v])'
  <2>1. worker'[v] = worker[v] /\ JobOK(worker[v]) /\ worker[v] \in Job
    BY <1>2, BusyHasJob DEF PagesArePublished, TypeOK
  <2>2. worker[v].account \in Accounts
    BY <2>1 DEF Job
  <2> QED
    BY <2>1, <2>2 DEF JobOK, FilesGrow
<1> QED
  BY <1>1, <1>2 DEF PagesArePublished

LEMMA SameJobs ==
  ASSUME TypeOK, PagesArePublished, FilesGrow, UNCHANGED worker
  PROVE  PagesArePublished'
<1>1. ASSUME NEW v \in Workers, worker'[v].step # "idle"
      PROVE  JobOK(worker[v])'
  <2>1. worker'[v] = worker[v] /\ JobOK(worker[v]) /\ worker[v] \in Job
    BY <1>1, BusyHasJob DEF PagesArePublished, TypeOK
  <2>2. worker[v].account \in Accounts
    BY <2>1 DEF Job
  <2> QED
    BY <2>1, <2>2 DEF JobOK, FilesGrow
<1> QED
  BY <1>1 DEF PagesArePublished

\* The mailboxes stay as they are while no waiting worker moves.
LEMMA SameMail ==
  ASSUME TypeOK, MailIsAwaited, FilesGrow, UNCHANGED mailbox,
         \A w \in Workers : worker[w].step \in {"reading", "acknowledging"} => worker'[w] = worker[w]
  PROVE  MailIsAwaited'
<1>1. ASSUME NEW a \in Accounts, NEW i \in DOMAIN mailbox[a]
      PROVE  /\ mailbox[a][i].kind = "acknowledge" => mailbox[a][i].event \in inbox'[a]
             /\ mailbox[a][i].by \in Workers =>
                  /\ worker'[mailbox[a][i].by].step = Waiting(mailbox[a][i].kind)
                  /\ worker'[mailbox[a][i].by].account = a
                  /\ \A j \in DOMAIN mailbox[a] : mailbox[a][j].by = mailbox[a][i].by => i = j
  <2> DEFINE r == mailbox[a][i]
  <2>1. /\ r.kind = "acknowledge" => r.event \in inbox[a]
        /\ r.by \in Workers =>
             /\ worker[r.by].step = Waiting(r.kind)
             /\ worker[r.by].account = a
             /\ \A j \in DOMAIN mailbox[a] : mailbox[a][j].by = r.by => i = j
    BY DEF MailIsAwaited
  <2>2. Waiting(r.kind) \in {"reading", "acknowledging"}
    BY DEF Waiting
  <2>3. r.kind = "acknowledge" => r.event \in inbox'[a]
    BY <2>1 DEF FilesGrow
  <2>4. r.by \in Workers => worker'[r.by] = worker[r.by]
    BY <2>1, <2>2
  <2> HIDE DEF r
  <2> QED
    BY <2>1, <2>3, <2>4 DEF r
<1> QED
  BY <1>1 DEF MailIsAwaited

-----------------------------------------------------------------------------
(* The account *)

\* Publishing adds one event to the receipts and to the pending rows.
LEMMA PublishKeeps ==
  ASSUME TypeOK, NothingLost, NEW a \in Accounts, NEW id \in Ids, Publish(a, id)
  PROVE  /\ published' \in [Accounts -> Seq(Ids)]
         /\ pending' \in [Accounts -> Seq(Ids)]
         /\ UNCHANGED <<inbox, applied>> /\ commands' \in 0..MaxCommands
         /\ FilesGrow /\ NothingLost'
<1>1. commands' \in 0..MaxCommands /\ UNCHANGED <<inbox, applied>>
  BY DeliveryAssumption DEF Publish, TypeOK
<1>2. CASE UNCHANGED <<published, pending>>
  BY <1>1, <1>2 DEF TypeOK, FilesGrow, NothingLost
<1>3. CASE /\ published' = [published EXCEPT ![a] = Append(@, id)]
           /\ pending' = [pending EXCEPT ![a] = Append(@, id)]
  <2>1. published[a] \in Seq(Ids) /\ pending[a] \in Seq(Ids)
    BY DEF TypeOK
  <2>2. /\ Append(published[a], id) \in Seq(Ids) /\ Append(pending[a], id) \in Seq(Ids)
        /\ Range(Append(published[a], id)) = Range(published[a]) \cup {id}
        /\ Range(Append(pending[a], id)) = Range(pending[a]) \cup {id}
    BY <2>1, AppendedRange
  <2>3. /\ published' \in [Accounts -> Seq(Ids)] /\ pending' \in [Accounts -> Seq(Ids)]
        /\ published'[a] = Append(published[a], id) /\ pending'[a] = Append(pending[a], id)
        /\ \A b \in Accounts \ {a} : published'[b] = published[b] /\ pending'[b] = pending[b]
    BY <1>3, <2>2 DEF TypeOK
  <2>4. FilesGrow
    BY <1>1, <2>2, <2>3 DEF FilesGrow
  <2>5. NothingLost'
    BY <1>1, <2>2, <2>3 DEF NothingLost
  <2> QED
    BY <1>1, <2>3, <2>4, <2>5
<1> QED
  BY <1>2, <1>3 DEF Publish

\* An acknowledged event is in the shared file, or is no event at all.
LEMMA WithoutLosesNothing ==
  ASSUME TypeOK, NothingLost, NEW a \in Accounts, NEW id \in inbox[a] \cup {Abandoned},
         pending' = [pending EXCEPT ![a] = Without(a, id)], UNCHANGED <<published, inbox>>
  PROVE  pending' \in [Accounts -> Seq(Ids)] /\ FilesGrow /\ NothingLost'
<1>1. pending[a] \in Seq(Ids)
  BY DEF TypeOK
<1>2. /\ Without(a, id) \in Seq(Ids)
      /\ Range(Without(a, id)) \subseteq Range(pending[a])
      /\ Range(pending[a]) \ {id} \subseteq Range(Without(a, id))
  BY <1>1, WithoutKeeps
<1>3. /\ pending' \in [Accounts -> Seq(Ids)]
      /\ pending'[a] = Without(a, id)
      /\ \A b \in Accounts \ {a} : pending'[b] = pending[b]
  BY <1>2 DEF TypeOK
<1>4. Abandoned \notin Range(pending[a])
  BY <1>1, DeliveryAssumption DEF Abandoned, Range
<1>5. Range(published[a]) = Range(pending'[a]) \cup inbox[a]
  BY <1>2, <1>3, <1>4 DEF NothingLost
<1>6. NothingLost'
  BY <1>3, <1>5 DEF NothingLost
<1> QED
  BY <1>3, <1>6 DEF FilesGrow

\* The mailbox of a failing runtime is emptied; who waited there fails.
LEMMA FailureKeeps ==
  ASSUME TypeOK, Dispatched, MailIsAwaited, PagesArePublished, FilesGrow,
         NEW a \in Accounts, RuntimeFails(a), UNCHANGED <<queue, scheduled>>
  PROVE  /\ faults' \in 0..MaxFaults
         /\ mailbox' \in [Accounts -> Seq(Request)]
         /\ worker' \in [Workers -> Job \cup {Idle}]
         /\ Dispatched' /\ MailIsAwaited' /\ PagesArePublished'
<1>1. faults' \in 0..MaxFaults
  BY DeliveryAssumption DEF RuntimeFails, Fault, TypeOK
<1>2. /\ mailbox' \in [Accounts -> Seq(Request)] /\ mailbox'[a] = <<>>
      /\ \A b \in Accounts \ {a} : mailbox'[b] = mailbox[b]
  BY DEF RuntimeFails, TypeOK
<1> DEFINE Asked(w) == \E i \in DOMAIN mailbox[a] : mailbox[a][i].by = w
<1>3. ASSUME NEW w \in Workers
      PROVE  worker'[w] = IF Asked(w) THEN [worker[w] EXCEPT !.step = "failed"] ELSE worker[w]
  BY DEF RuntimeFails, Range
<1>4. ASSUME NEW w \in Workers, Asked(w)
      PROVE  /\ worker[w] \in Job /\ worker[w].account = a
             /\ worker'[w] \in Job /\ worker'[w].step = "failed"
             /\ worker'[w].account = worker[w].account /\ worker'[w].page = worker[w].page
             /\ Holds(w) /\ JobOK(worker[w])
  <2>1. worker[w].account = a /\ worker[w].step \in {"reading", "acknowledging"}
    BY <1>4 DEF MailIsAwaited, Waiting
  <2>2. worker[w] \in Job
    BY <2>1, BusyHasJob
  <2>3. worker'[w] = [worker[w] EXCEPT !.step = "failed"]
    BY <1>3, <1>4
  <2>4. "failed" \in Steps
    BY DEF Steps
  <2>5. worker'[w] \in Job
    BY <2>2, <2>3, <2>4, Zenon DEF Job
  <2> QED
    BY <2>1, <2>2, <2>3, <2>5 DEF Job, Holds, PagesArePublished
<1>5. ASSUME NEW w \in Workers, ~Asked(w)
      PROVE  worker'[w] = worker[w]
  BY <1>3, <1>5
<1> HIDE DEF Asked
<1>6. worker' \in [Workers -> Job \cup {Idle}]
  <2>1. \A w \in Workers : worker'[w] \in Job \cup {Idle}
    BY <1>4, <1>5 DEF TypeOK
  <2>2. worker' = [w \in Workers |-> worker'[w]]
    BY DEF RuntimeFails
  <2> QED
    BY <2>1, <2>2
<1>7. Dispatched'
  <2>1. \A w \in Workers : Holds(w)' => Holds(w) /\ worker'[w].account = worker[w].account
    BY <1>4, <1>5 DEF Holds
  <2> QED
    BY <2>1, SameQueue
<1>8. PagesArePublished'
  <2>1. ASSUME NEW w \in Workers, worker'[w].step # "idle"
        PROVE  JobOK(worker[w])'
    <3>1. worker[w] \in Job /\ worker[w].account \in Accounts /\ JobOK(worker[w])
      BY <1>4, <1>5, <2>1, BusyHasJob DEF PagesArePublished, Job
    <3>2. CASE Asked(w)
      BY <3>1, <3>2, <1>4 DEF JobOK, FilesGrow
    <3>3. CASE ~Asked(w)
      BY <3>1, <3>3, <1>5 DEF JobOK, FilesGrow
    <3> QED
      BY <3>2, <3>3
  <2> QED
    BY <2>1 DEF PagesArePublished
<1>9. MailIsAwaited'
  <2>1. ASSUME NEW b \in Accounts, NEW i \in DOMAIN mailbox'[b]
        PROVE  /\ b # a /\ mailbox'[b] = mailbox[b]
               /\ mailbox[b][i].kind = "acknowledge" => mailbox[b][i].event \in inbox'[b]
               /\ mailbox[b][i].by \in Workers => ~Asked(mailbox[b][i].by)
    <3>1. b # a /\ mailbox'[b] = mailbox[b]
      BY <1>2, <2>1
    <3>2. mailbox[b][i].kind = "acknowledge" => mailbox[b][i].event \in inbox'[b]
      BY <3>1 DEF MailIsAwaited, FilesGrow
    <3>3. mailbox[b][i].by \in Workers => worker[mailbox[b][i].by].account = b
      BY <3>1 DEF MailIsAwaited
    <3> QED
      BY <3>1, <3>2, <3>3, <1>4
  <2> QED
    BY <2>1, <1>5 DEF MailIsAwaited
<1> QED
  BY <1>1, <1>2, <1>6, <1>7, <1>8, <1>9

\* The request at the head of a mailbox leaves it; at most its worker moves.
LEMMA AnswerKeepsMail ==
  ASSUME TypeOK, MailIsAwaited, FilesGrow, NEW a \in Accounts, mailbox[a] # <<>>,
         mailbox' = [mailbox EXCEPT ![a] = Tail(@)],
         \A w \in Workers : w # Head(mailbox[a]).by => worker'[w] = worker[w]
  PROVE  mailbox' \in [Accounts -> Seq(Request)] /\ MailIsAwaited'
<1> DEFINE s == mailbox[a]
<1>1. /\ s \in Seq(Request) /\ Tail(s) \in Seq(Request) /\ Head(s) = s[1] /\ 1 \in DOMAIN s
      /\ \A i \in DOMAIN Tail(s) : i \in Nat /\ i + 1 \in DOMAIN s /\ i + 1 # 1 /\ Tail(s)[i] = s[i + 1]
  <2>1. s \in Seq(Request) /\ s # <<>> /\ Len(s) \in Nat \ {0} /\ Head(s) = s[1]
    BY EmptySeq DEF TypeOK
  <2> HIDE DEF s
  <2>2. Tail(s) \in Seq(Request) /\ Len(Tail(s)) = Len(s) - 1
        /\ \A i \in 1..Len(Tail(s)) : Tail(s)[i] = s[i + 1]
    BY <2>1, HeadTailProperties, Zenon
  <2>3. DOMAIN Tail(s) = 1..(Len(s) - 1) /\ DOMAIN s = 1..Len(s)
    BY <2>1, <2>2
  <2>4. \A i \in DOMAIN Tail(s) : i \in Nat /\ i + 1 \in DOMAIN s /\ i + 1 # 1
    BY <2>1, <2>3
  <2> QED
    BY <2>1, <2>2, <2>3, <2>4
<1>2. /\ mailbox' \in [Accounts -> Seq(Request)] /\ mailbox'[a] = Tail(s)
      /\ \A b \in Accounts \ {a} : mailbox'[b] = mailbox[b]
  BY <1>1 DEF TypeOK
<1>3. ASSUME NEW b \in Accounts, NEW i \in DOMAIN mailbox[b], b = a => i # 1
      PROVE  /\ mailbox[b][i].kind = "acknowledge" => mailbox[b][i].event \in inbox'[b]
             /\ mailbox[b][i].by \in Workers =>
                  /\ worker'[mailbox[b][i].by].step = Waiting(mailbox[b][i].kind)
                  /\ worker'[mailbox[b][i].by].account = b
                  /\ \A j \in DOMAIN mailbox[b] : mailbox[b][j].by = mailbox[b][i].by => i = j
  <2> DEFINE r == mailbox[b][i]
  <2>1. /\ r.kind = "acknowledge" => r.event \in inbox[b]
        /\ r.by \in Workers =>
             /\ worker[r.by].step = Waiting(r.kind)
             /\ worker[r.by].account = b
             /\ \A j \in DOMAIN mailbox[b] : mailbox[b][j].by = r.by => i = j
    BY DEF MailIsAwaited
  <2>2. r.kind = "acknowledge" => r.event \in inbox'[b]
    BY <2>1 DEF FilesGrow
  <2>3. r.by \in Workers => r.by # Head(s).by
    <3>1. CASE b = a
      BY <1>1, <1>3, <2>1, <3>1
    <3>2. CASE b # a
      <4>1. s[1].by \in Workers => worker[s[1].by].account = a
        BY <1>1 DEF MailIsAwaited
      <4> QED
        BY <1>1, <2>1, <3>2, <4>1
    <3> QED
      BY <3>1, <3>2
  <2>4. r.by \in Workers => worker'[r.by] = worker[r.by]
    BY <2>3
  <2> HIDE DEF r
  <2> QED
    BY <2>1, <2>2, <2>4 DEF r
<1>4. ASSUME NEW b \in Accounts, NEW i \in DOMAIN mailbox'[b]
      PROVE  /\ mailbox'[b][i].kind = "acknowledge" => mailbox'[b][i].event \in inbox'[b]
             /\ mailbox'[b][i].by \in Workers =>
                  /\ worker'[mailbox'[b][i].by].step = Waiting(mailbox'[b][i].kind)
                  /\ worker'[mailbox'[b][i].by].account = b
                  /\ \A j \in DOMAIN mailbox'[b] : mailbox'[b][j].by = mailbox'[b][i].by => i = j
  <2>1. CASE b # a
    BY <1>2, <1>3, <2>1
  <2>2. CASE b = a
    <3>1. i + 1 \in DOMAIN s /\ i + 1 # 1 /\ mailbox'[b][i] = mailbox[b][i + 1] /\ i \in Nat
      BY <1>1, <1>2, <1>4, <2>2
    <3>2. \A j \in DOMAIN mailbox'[b] : j \in Nat /\ j + 1 \in DOMAIN s /\ mailbox'[b][j] = mailbox[b][j + 1]
      BY <1>1, <1>2, <2>2
    <3>3. /\ mailbox[b][i + 1].kind = "acknowledge" => mailbox[b][i + 1].event \in inbox'[b]
          /\ mailbox[b][i + 1].by \in Workers =>
               /\ worker'[mailbox[b][i + 1].by].step = Waiting(mailbox[b][i + 1].kind)
               /\ worker'[mailbox[b][i + 1].by].account = b
               /\ \A j \in DOMAIN mailbox[b] : mailbox[b][j].by = mailbox[b][i + 1].by => i + 1 = j
      BY <1>3, <2>2, <3>1
    <3>4. ASSUME NEW j \in DOMAIN mailbox'[b], mailbox'[b][j].by = mailbox'[b][i].by, mailbox'[b][i].by \in Workers
          PROVE  i = j
      <4>1. i + 1 = j + 1
        BY <2>2, <3>1, <3>2, <3>3, <3>4
      <4> QED
        BY <3>1, <3>2, <4>1
    <3> QED
      BY <3>1, <3>3, <3>4
  <2> QED
    BY <2>1, <2>2
<1> QED
  BY <1>2, <1>4 DEF MailIsAwaited

LEMMA CommandPublishesIInv ==
  ASSUME IInv, NEW a \in Accounts, NEW id \in Ids, CommandPublishes(a, id)
  PROVE  IInv'
<1> USE DEF CommandPublishes, dispatch, IInv
<1>1. /\ published' \in [Accounts -> Seq(Ids)]
      /\ pending' \in [Accounts -> Seq(Ids)]
      /\ UNCHANGED <<inbox, applied>> /\ commands' \in 0..MaxCommands
      /\ FilesGrow /\ NothingLost'
  BY PublishKeeps
<1>2. Dispatched'
  BY SameQueue DEF Holds
<1>3. MailIsAwaited'
  BY <1>1, SameMail
<1>4. PagesArePublished'
  BY <1>1, SameJobs
<1>5. TypeOK'
  BY <1>1 DEF TypeOK
<1> QED
  BY <1>1, <1>2, <1>3, <1>4, <1>5

LEMMA CommandPublishesUnreportedIInv ==
  ASSUME IInv, NEW a \in Accounts, NEW id \in Ids, CommandPublishesUnreported(a, id)
  PROVE  IInv'
<1> USE DEF CommandPublishesUnreported, IInv
<1>1. /\ published' \in [Accounts -> Seq(Ids)]
      /\ pending' \in [Accounts -> Seq(Ids)]
      /\ UNCHANGED <<inbox, applied>> /\ commands' \in 0..MaxCommands
      /\ FilesGrow /\ NothingLost'
  BY PublishKeeps
<1>2. /\ faults' \in 0..MaxFaults
      /\ mailbox' \in [Accounts -> Seq(Request)]
      /\ worker' \in [Workers -> Job \cup {Idle}]
      /\ Dispatched' /\ MailIsAwaited' /\ PagesArePublished'
  BY <1>1, FailureKeeps
<1>3. TypeOK'
  BY <1>1, <1>2 DEF TypeOK
<1> QED
  BY <1>1, <1>2, <1>3

\* A step that leaves the files alone loses nothing.
LEMMA SameFiles ==
  ASSUME NothingLost, UNCHANGED files
  PROVE  FilesGrow /\ NothingLost'
BY DEF NothingLost, FilesGrow, files

LEMMA CommandWakesIInv ==
  ASSUME IInv, NEW a \in Accounts, CommandWakes(a)
  PROVE  IInv'
<1> USE DEF CommandWakes, IInv
<1>1. FilesGrow /\ NothingLost'
  BY SameFiles
<1>2. /\ Dispatched'
      /\ queue' \in Seq(Accounts) /\ Len(queue') <= QueueSize
      /\ DOMAIN scheduled' \subseteq Accounts
      /\ \A b \in DOMAIN scheduled' : scheduled'[b] \in BOOLEAN
      /\ deferred' \subseteq Accounts
  BY WakeKeepsDispatch DEF Holds
<1>3. MailIsAwaited'
  BY <1>1, SameMail
<1>4. PagesArePublished'
  BY <1>1, SameJobs
<1>5. TypeOK'
  BY <1>2 DEF TypeOK, files
<1> QED
  BY <1>1, <1>2, <1>3, <1>4, <1>5

LEMMA ExecuteReadIInv ==
  ASSUME IInv, NEW a \in Accounts, ExecuteRead(a)
  PROVE  IInv'
<1> USE DEF IInv
<1> DEFINE r == Head(mailbox[a])
<1>1. FilesGrow /\ NothingLost'
  BY SameFiles DEF ExecuteRead
<1>2. /\ r = mailbox[a][1] /\ r \in Request /\ 1 \in DOMAIN mailbox[a] /\ r.kind = "read"
      /\ mailbox[a] # <<>> /\ mailbox' = [mailbox EXCEPT ![a] = Tail(@)]
  BY HeadTailProperties DEF ExecuteRead, TypeOK
<1>3. Page(a) \in Seq(Ids) /\ Range(Page(a)) \subseteq Range(pending[a])
      /\ (pending[a] # <<>> => Page(a) # <<>>)
  <2>1. pending[a] \in Seq(Ids) /\ Len(pending[a]) \in Nat /\ PageSize \in Nat \ {0}
    BY DeliveryAssumption DEF TypeOK
  <2>2. PICK n \in Nat : /\ n = IF Len(pending[a]) < PageSize THEN Len(pending[a]) ELSE PageSize
                         /\ n <= Len(pending[a]) /\ (Len(pending[a]) # 0 => n >= 1)
    BY <2>1
  <2>3. Page(a) = SubSeq(pending[a], 1, n)
    BY <2>2 DEF Page
  <2>4. Page(a) \in Seq(Ids) /\ Range(Page(a)) = {pending[a][i] : i \in 1..n}
    BY <2>1, <2>2, <2>3, RangeOfPart
  <2>5. Len(Page(a)) = IF 1 <= n THEN n ELSE 0
    BY <2>1, <2>2, <2>3, SubSeqProperties
  <2>6. pending[a] # <<>> => Len(pending[a]) # 0
    BY <2>1, EmptySeq
  <2>7. 1..n \subseteq DOMAIN pending[a]
    BY <2>1, <2>2
  <2>8. Range(Page(a)) \subseteq Range(pending[a])
    BY <2>4, <2>7 DEF Range
  <2>9. pending[a] # <<>> => Len(Page(a)) # 0
    BY <2>2, <2>5, <2>6
  <2> QED
    BY <2>4, <2>8, <2>9, EmptySeq
<1>4. CASE r.by = Abandoned
  <2>1. UNCHANGED worker
    BY <1>4 DEF ExecuteRead, Waits
  <2>2. mailbox' \in [Accounts -> Seq(Request)] /\ MailIsAwaited'
    BY <1>1, <1>2, <2>1, AnswerKeepsMail
  <2>3. PagesArePublished'
    BY <1>1, <2>1, SameJobs
  <2>4. Dispatched'
    BY <2>1, SameQueue DEF ExecuteRead, Holds
  <2>5. TypeOK'
    BY <2>1, <2>2 DEF ExecuteRead, TypeOK, files
  <2> QED
    BY <1>1, <2>2, <2>3, <2>4, <2>5
<1>5. CASE r.by # Abandoned
  <2>1. PICK w \in Workers : w = r.by
    BY <1>2, <1>5 DEF Request
  <2>2. worker[w].step = "reading" /\ worker[w].account = a /\ worker[w] \in Job
    <3>1. worker[w].step = "reading" /\ worker[w].account = a
      BY <1>2, <2>1 DEF MailIsAwaited, Waiting
    <3> QED
      BY <3>1, BusyHasJob
  <2> PICK s : s = IF pending[a] = <<>> THEN "done" ELSE "consume"
    OBVIOUS
  <2> PICK j : j = [worker[w] EXCEPT !.page = Page(a), !.step = s]
    OBVIOUS
  <2>3. worker' = [worker EXCEPT ![w] = j]
    BY <1>5, <2>1 DEF ExecuteRead, Waits
  <2>4. /\ j \in Job /\ j.account = a /\ j.page = Page(a) /\ j.step = s
        /\ j.pages = worker[w].pages
    <3>1. s \in Steps
      BY DEF Steps
    <3>2. j \in Job
      BY <1>3, <2>2, <3>1, Zenon DEF Job
    <3> QED
      BY <2>2, <3>2 DEF Job
  <2>5. Range(pending[a]) \subseteq Range(published[a]) /\ worker[w].pages < MaxPages
    BY <2>2 DEF NothingLost, PagesArePublished, JobOK
  <2>6. JobOK(j)'
    <3>1. UNCHANGED <<published, inbox>>
      BY DEF ExecuteRead, files
    <3> QED
      BY <1>3, <2>4, <2>5, <3>1 DEF JobOK
  <2>7. worker' \in [Workers -> Job \cup {Idle}] /\ PagesArePublished'
    BY <1>1, <2>3, <2>4, <2>6, OneJobChanges
  <2>8. \A v \in Workers : v # w => worker'[v] = worker[v]
    BY <2>3 DEF TypeOK
  <2>9. mailbox' \in [Accounts -> Seq(Request)] /\ MailIsAwaited'
    BY <1>1, <1>2, <2>1, <2>8, AnswerKeepsMail
  <2>10. worker'[w] = j
    BY <2>3 DEF TypeOK
  <2>11. Dispatched'
    <3>1. \A v \in Workers : Holds(v)' => Holds(v) /\ worker'[v].account = worker[v].account
      BY <2>2, <2>4, <2>8, <2>10 DEF Holds
    <3>2. UNCHANGED <<queue, scheduled>>
      BY DEF ExecuteRead
    <3> QED
      BY <3>1, <3>2, SameQueue
  <2>12. TypeOK'
    BY <2>7, <2>9 DEF ExecuteRead, TypeOK, files
  <2> QED
    BY <1>1, <2>7, <2>9, <2>11, <2>12
<1> QED
  BY <1>4, <1>5

\* An acknowledged page is followed by its rest, or by the next page.
LEMMA AfterAcknowledgeIsJob ==
  ASSUME IInv, NEW w \in Workers, worker[w].step = "acknowledging"
  PROVE  /\ AfterAcknowledge(w) \in Job
         /\ AfterAcknowledge(w).account = worker[w].account
         /\ AfterAcknowledge(w).step \in {"consume", "done", "read"}
         /\ JobOK(AfterAcknowledge(w))
<1> DEFINE rest == Tail(worker[w].page)
           n == worker[w].pages + 1
<1>1. worker[w] \in Job /\ JobOK(worker[w])
  BY BusyHasJob DEF IInv, PagesArePublished
<1>2. /\ worker[w].page \in Seq(Ids) /\ worker[w].page # <<>>
      /\ worker[w].pages \in 0..MaxPages /\ worker[w].pages < MaxPages
      /\ Range(worker[w].page) \subseteq Range(published[worker[w].account])
  BY <1>1 DEF Job, JobOK
<1>3. rest \in Seq(Ids) /\ Range(rest) \subseteq Range(worker[w].page)
  BY <1>2, HeadAndTail
<1>4. n \in 0..MaxPages /\ (n # MaxPages => n < MaxPages)
  BY <1>2, PagesAreSome
<1> HIDE DEF rest, n
<1>5. CASE rest # <<>>
  <2>1. AfterAcknowledge(w) = [worker[w] EXCEPT !.page = rest, !.step = "consume"]
    BY <1>5 DEF AfterAcknowledge, rest
  <2>2. AfterAcknowledge(w) \in Job
    <3>1. "consume" \in Steps
      BY DEF Steps
    <3> QED
      BY <1>1, <1>3, <2>1, <3>1, Zenon DEF Job
  <2>3. /\ AfterAcknowledge(w).account = worker[w].account /\ AfterAcknowledge(w).page = rest
        /\ AfterAcknowledge(w).step = "consume" /\ AfterAcknowledge(w).pages = worker[w].pages
    BY <1>1, <2>1 DEF Job
  <2> QED
    BY <1>2, <1>3, <1>5, <2>2, <2>3 DEF JobOK
<1>6. CASE rest = <<>>
  <2> PICK s : s = IF n = MaxPages THEN "done" ELSE "read"
    OBVIOUS
  <2>1. AfterAcknowledge(w) = [worker[w] EXCEPT !.page = rest, !.pages = n, !.step = s]
    BY <1>6 DEF AfterAcknowledge, rest, n
  <2>2. AfterAcknowledge(w) \in Job
    <3>1. s \in Steps
      BY DEF Steps
    <3> QED
      BY <1>1, <1>3, <1>4, <2>1, <3>1, Zenon DEF Job
  <2>3. /\ AfterAcknowledge(w).account = worker[w].account /\ AfterAcknowledge(w).page = rest
        /\ AfterAcknowledge(w).step = s /\ AfterAcknowledge(w).pages = n
    BY <1>1, <2>1 DEF Job
  <2> QED
    BY <1>2, <1>3, <1>4, <2>2, <2>3 DEF JobOK
<1> QED
  BY <1>5, <1>6

LEMMA ExecuteAcknowledgeIInv ==
  ASSUME IInv, NEW a \in Accounts, ExecuteAcknowledge(a)
  PROVE  IInv'
<1> USE DEF IInv
<1> PICK r : r = Head(mailbox[a])
  OBVIOUS
<1>2. /\ r = mailbox[a][1] /\ r \in Request /\ 1 \in DOMAIN mailbox[a] /\ r.kind = "acknowledge"
      /\ mailbox[a] # <<>> /\ mailbox' = [mailbox EXCEPT ![a] = Tail(@)]
  BY HeadTailProperties DEF ExecuteAcknowledge, TypeOK
<1>3. r.event \in inbox[a] /\ pending' = [pending EXCEPT ![a] = Without(a, r.event)]
  BY <1>2 DEF MailIsAwaited, ExecuteAcknowledge
<1>1. FilesGrow /\ NothingLost' /\ pending' \in [Accounts -> Seq(Ids)]
  BY <1>3, WithoutLosesNothing DEF ExecuteAcknowledge
<1>4. CASE r.by = Abandoned
  <2>1. UNCHANGED worker
    BY <1>4 DEF ExecuteAcknowledge, Waits
  <2>2. mailbox' \in [Accounts -> Seq(Request)] /\ MailIsAwaited'
    BY <1>1, <1>2, <2>1, AnswerKeepsMail
  <2>3. PagesArePublished'
    BY <1>1, <2>1, SameJobs
  <2>4. Dispatched'
    BY <2>1, SameQueue DEF ExecuteAcknowledge, Holds
  <2>5. TypeOK'
    BY <1>1, <2>1, <2>2 DEF ExecuteAcknowledge, TypeOK
  <2> QED
    BY <1>1, <2>2, <2>3, <2>4, <2>5
<1>5. CASE r.by # Abandoned
  <2>1. PICK w \in Workers : w = r.by
    BY <1>2, <1>5 DEF Request
  <2>2. worker[w].step = "acknowledging" /\ worker[w].account = a
    BY <1>2, <2>1 DEF MailIsAwaited, Waiting
  <2> PICK j : j = AfterAcknowledge(w)
    OBVIOUS
  <2>3. worker' = [worker EXCEPT ![w] = j]
    BY <1>5, <2>1 DEF ExecuteAcknowledge, Waits
  <2>4. j \in Job /\ j.account = a /\ j.step \in {"consume", "done", "read"} /\ JobOK(j)
    BY <2>2, AfterAcknowledgeIsJob
  <2>5. JobOK(j)'
    BY <2>4 DEF JobOK, ExecuteAcknowledge
  <2>7. worker' \in [Workers -> Job \cup {Idle}] /\ PagesArePublished'
    BY <1>1, <2>3, <2>4, <2>5, OneJobChanges
  <2>8. \A v \in Workers : v # w => worker'[v] = worker[v]
    BY <2>3 DEF TypeOK
  <2>9. mailbox' \in [Accounts -> Seq(Request)] /\ MailIsAwaited'
    BY <1>1, <1>2, <2>1, <2>8, AnswerKeepsMail
  <2>10. worker'[w] = j
    BY <2>3 DEF TypeOK
  <2>11. Dispatched'
    <3>1. \A v \in Workers : Holds(v)' => Holds(v) /\ worker'[v].account = worker[v].account
      BY <2>2, <2>4, <2>8, <2>10 DEF Holds
    <3>2. UNCHANGED <<queue, scheduled>>
      BY DEF ExecuteAcknowledge
    <3> QED
      BY <3>1, <3>2, SameQueue
  <2>12. TypeOK'
    BY <1>1, <2>7, <2>9 DEF ExecuteAcknowledge, TypeOK
  <2> QED
    BY <1>1, <2>7, <2>9, <2>11, <2>12
<1> QED
  BY <1>4, <1>5

LEMMA RequestFailsIInv ==
  ASSUME IInv, NEW a \in Accounts, NEW durable \in BOOLEAN, RequestFails(a, durable)
  PROVE  IInv'
<1> USE DEF IInv
<1> PICK r : r = Head(mailbox[a])
  OBVIOUS
<1>1. /\ r = mailbox[a][1] /\ r \in Request /\ 1 \in DOMAIN mailbox[a]
  BY HeadTailProperties DEF RequestFails, TypeOK
<1>2. FilesGrow /\ NothingLost' /\ pending' \in [Accounts -> Seq(Ids)]
  <2>1. CASE durable /\ (r.kind = "acknowledge" \/ r.event = Abandoned)
    <3>1. r.event \in inbox[a] \cup {Abandoned}
      BY <1>1, <2>1 DEF MailIsAwaited
    <3>2. pending' = [pending EXCEPT ![a] = Without(a, r.event)]
      BY <2>1 DEF RequestFails
    <3> QED
      BY <3>1, <3>2, WithoutLosesNothing DEF RequestFails
  <2>2. CASE ~durable
    BY <2>2 DEF RequestFails, NothingLost, FilesGrow, TypeOK
  <2>3. r.kind = "acknowledge" \/ r.event = Abandoned
    BY <1>1 DEF MailIsAwaited, Request
  <2> QED
    BY <2>1, <2>2, <2>3
<1>3. /\ faults' \in 0..MaxFaults
      /\ mailbox' \in [Accounts -> Seq(Request)]
      /\ worker' \in [Workers -> Job \cup {Idle}]
      /\ Dispatched' /\ MailIsAwaited' /\ PagesArePublished'
  BY <1>2, FailureKeeps DEF RequestFails
<1>4. TypeOK'
  BY <1>2, <1>3 DEF RequestFails, TypeOK
<1> QED
  BY <1>2, <1>3, <1>4

-----------------------------------------------------------------------------
(* The worker *)

\* A job with another step is a job.
LEMMA NextStep ==
  ASSUME NEW j \in Job, NEW s \in Steps
  PROVE  /\ [j EXCEPT !.step = s] \in Job
         /\ [j EXCEPT !.step = s].step = s
         /\ [j EXCEPT !.step = s].account = j.account
         /\ [j EXCEPT !.step = s].page = j.page
         /\ [j EXCEPT !.step = s].pages = j.pages
<1>1. [j EXCEPT !.step = s] \in Job
  BY Zenon DEF Job
<1> QED
  BY <1>1 DEF Job

\* A worker that waits for no request moves on with its account.
LEMMA WorkerMoves ==
  ASSUME IInv, FilesGrow, NEW w \in Workers, Holds(w),
         worker[w].step \notin {"reading", "acknowledging"},
         NEW j \in Job \cup {Idle}, worker' = [worker EXCEPT ![w] = j],
         j.step # "idle" => JobOK(j)', UNCHANGED mailbox
  PROVE  /\ worker' \in [Workers -> Job \cup {Idle}]
         /\ PagesArePublished' /\ MailIsAwaited'
         /\ worker'[w] = j /\ \A v \in Workers \ {w} : worker'[v] = worker[v]
<1>1. worker'[w] = j /\ \A v \in Workers \ {w} : worker'[v] = worker[v]
  BY DEF IInv, TypeOK
<1>2. worker' \in [Workers -> Job \cup {Idle}] /\ PagesArePublished'
  BY OneJobChanges DEF IInv
<1>3. MailIsAwaited'
  BY <1>1, SameMail DEF IInv
<1> QED
  BY <1>1, <1>2, <1>3

LEMMA TakeAccountIInv ==
  ASSUME IInv, NEW w \in Workers, TakeAccount(w)
  PROVE  IInv'
<1> USE DEF IInv
<1>1. FilesGrow /\ NothingLost'
  BY SameFiles DEF TakeAccount
<1>2. /\ Head(queue) \in Accounts /\ Head(queue) = queue[1] /\ 1 \in DOMAIN queue
      /\ Tail(queue) \in Seq(Accounts) /\ Len(Tail(queue)) <= QueueSize
      /\ Len(queue) \in Nat /\ Len(Tail(queue)) = Len(queue) - 1 /\ DOMAIN queue = 1..Len(queue)
      /\ \A i \in DOMAIN Tail(queue) : i + 1 \in DOMAIN queue /\ Tail(queue)[i] = queue[i + 1] /\ i \in Nat \ {0}
  <2>1. queue \in Seq(Accounts) /\ queue # <<>> /\ Len(queue) \in Nat \ {0} /\ Len(queue) <= QueueSize
    BY EmptySeq DEF TakeAccount, TypeOK
  <2>2. /\ Tail(queue) \in Seq(Accounts) /\ Len(Tail(queue)) = Len(queue) - 1
        /\ Head(queue) \in Accounts
        /\ \A i \in 1..Len(Tail(queue)) : Tail(queue)[i] = queue[i + 1]
    BY <2>1, HeadTailProperties, Zenon
  <2>3. DOMAIN Tail(queue) = 1..(Len(queue) - 1) /\ DOMAIN queue = 1..Len(queue)
    BY <2>1, <2>2
  <2>4. \A i \in DOMAIN Tail(queue) : i \in Nat \ {0} /\ i + 1 \in DOMAIN queue
    BY <2>1, <2>3
  <2>5. Len(Tail(queue)) <= QueueSize
    BY <2>1, <2>2, DeliveryAssumption
  <2> QED
    BY <2>1, <2>2, <2>3, <2>4, <2>5
<1> PICK a \in Accounts : a = Head(queue)
  BY <1>2
<1> PICK j : j = Working(a, "read", <<>>, 0)
  OBVIOUS
<1>3. /\ j \in Job /\ j.account = a /\ j.step = "read" /\ j.page = <<>> /\ j.pages = 0
  BY PagesAreSome DEF Working, Job, Steps
<1>4. JobOK(j)'
  BY <1>3, EmptyRange, PagesAreSome DEF JobOK
<1>5. worker[w] = Idle /\ worker[w].step = "idle" /\ worker' = [worker EXCEPT ![w] = j]
  BY DEF TakeAccount, Idle
<1>6. worker' \in [Workers -> Job \cup {Idle}] /\ PagesArePublished'
  BY <1>1, <1>3, <1>4, <1>5, OneJobChanges
<1>7. worker'[w] = j /\ \A v \in Workers \ {w} : worker'[v] = worker[v]
  BY <1>5 DEF TypeOK
<1>8. MailIsAwaited'
  BY <1>1, <1>5, <1>7, SameMail DEF TakeAccount
<1>9. queue' = Tail(queue) /\ UNCHANGED scheduled
  BY DEF TakeAccount
<1>10. \A i, k \in DOMAIN queue' : queue'[i] = queue'[k] => i = k
  <2> SUFFICES ASSUME NEW i \in DOMAIN queue', NEW k \in DOMAIN queue', queue'[i] = queue'[k] PROVE i = k
    OBVIOUS
  <2>1. i + 1 = k + 1 /\ i \in Nat /\ k \in Nat
    BY <1>2, <1>9 DEF Dispatched, OneDelivery
  <2> QED
    BY <2>1
<1>11. \A i \in DOMAIN queue' : queue'[i] # a /\ queue'[i] \in Range(queue) /\ queue'[i] \in DOMAIN scheduled
  <2> SUFFICES ASSUME NEW i \in DOMAIN queue'
               PROVE queue'[i] # a /\ queue'[i] \in Range(queue) /\ queue'[i] \in DOMAIN scheduled
    OBVIOUS
  <2>1. i + 1 \in DOMAIN queue /\ queue'[i] = queue[i + 1] /\ i + 1 # 1 /\ a = queue[1] /\ 1 \in DOMAIN queue
    BY <1>2, <1>9
  <2>2. queue[i + 1] # queue[1]
    BY <2>1 DEF Dispatched, OneDelivery
  <2> QED
    BY <2>1, <2>2 DEF Dispatched, HeldIsScheduled, Range
<1>12. a \in Range(queue) /\ a \in DOMAIN scheduled
  BY <1>2 DEF Range, Dispatched, HeldIsScheduled
<1>13. OneDelivery'
  <2>1. \A v \in Workers \ {w} : Holds(v)' => Holds(v) /\ worker'[v].account # a
    BY <1>7, <1>12 DEF Dispatched, OneDelivery, Holds
  <2>2. \A u, v \in Workers : Holds(u)' /\ Holds(v)' /\ worker'[u].account = worker'[v].account => u = v
    BY <1>3, <1>7, <2>1 DEF Dispatched, OneDelivery, Holds
  <2>3. \A b \in Range(queue'), v \in Workers : Holds(v)' => worker'[v].account # b
    <3>1. \A b \in Range(queue') : b # a /\ b \in Range(queue)
      BY <1>11 DEF Range
    <3> QED
      BY <1>3, <1>7, <3>1 DEF Dispatched, OneDelivery, Holds
  <2> QED
    BY <1>10, <2>2, <2>3 DEF OneDelivery, Holds
<1>14. HeldIsScheduled'
  BY <1>3, <1>7, <1>9, <1>11, <1>12 DEF Dispatched, HeldIsScheduled, Holds
<1>15. TypeOK'
  BY <1>2, <1>6, <1>9 DEF TakeAccount, TypeOK, files
<1> QED
  BY <1>1, <1>6, <1>8, <1>13, <1>14, <1>15 DEF Dispatched

LEMMA SubmitKeeps ==
  ASSUME IInv, NEW w \in Workers, NEW kind \in {"read", "acknowledge"}, NEW event \in Ids \cup {Abandoned},
         worker[w].step = kind,
         kind = "read" => event = Abandoned,
         kind = "acknowledge" => event \in inbox[worker[w].account],
         Submit(w, kind, event, Waiting(kind))
  PROVE  IInv'
<1> USE DEF IInv
<1>1. FilesGrow /\ NothingLost'
  BY SameFiles DEF Submit
<1>2. /\ worker[w] \in Job /\ worker[w].account \in Accounts /\ JobOK(worker[w])
      /\ Holds(w) /\ Waiting(kind) \in Steps
  BY BusyHasJob DEF PagesArePublished, Job, Holds, Waiting, Steps
<1> PICK a \in Accounts : a = worker[w].account
  BY <1>2
<1> PICK j : j = [worker[w] EXCEPT !.step = Waiting(kind)]
  OBVIOUS
<1>3. /\ j \in Job /\ j.account = a /\ j.step = Waiting(kind)
      /\ j.page = worker[w].page /\ j.pages = worker[w].pages
  BY <1>2, NextStep
<1>4. JobOK(j)'
  <2>1. UNCHANGED <<published, inbox>>
    BY DEF Submit, files
  <2> QED
    BY <1>2, <1>3, <2>1 DEF JobOK, Waiting
<1>5. worker' = [worker EXCEPT ![w] = j]
  BY DEF Submit
<1>6. worker' \in [Workers -> Job \cup {Idle}] /\ PagesArePublished'
  BY <1>1, <1>3, <1>4, <1>5, OneJobChanges
<1>7. worker'[w] = j /\ \A v \in Workers \ {w} : worker'[v] = worker[v]
  BY <1>5 DEF TypeOK
<1>8. Dispatched'
  <2>1. \A v \in Workers : Holds(v)' => Holds(v) /\ worker'[v].account = worker[v].account
    BY <1>2, <1>3, <1>7 DEF Holds
  <2>2. UNCHANGED <<queue, scheduled>>
    BY DEF Submit
  <2> QED
    BY <2>1, <2>2, SameQueue
<1> PICK r : r = [kind |-> kind, event |-> event, by |-> w]
  OBVIOUS
<1>9. r \in Request /\ r.kind = kind /\ r.event = event /\ r.by = w
  BY DEF Request
<1>10. /\ mailbox' \in [Accounts -> Seq(Request)] /\ mailbox'[a] = Append(mailbox[a], r)
       /\ \A b \in Accounts \ {a} : mailbox'[b] = mailbox[b]
       /\ mailbox[a] \in Seq(Request)
  BY <1>9, AppendProperties DEF Submit, TypeOK
<1>11. ASSUME NEW b \in Accounts, NEW i \in DOMAIN mailbox[b]
       PROVE  mailbox[b][i].by # w
  <2>1. mailbox[b][i].by \in Workers => worker[mailbox[b][i].by].step \in {"reading", "acknowledging"}
    BY DEF MailIsAwaited, Waiting
  <2> QED
    BY <2>1
<1>12. /\ DOMAIN mailbox'[a] = DOMAIN mailbox[a] \cup {Len(mailbox[a]) + 1}
       /\ Len(mailbox[a]) + 1 \notin DOMAIN mailbox[a]
       /\ mailbox'[a][Len(mailbox[a]) + 1] = r
       /\ \A i \in DOMAIN mailbox[a] : mailbox'[a][i] = mailbox[a][i]
  <2> PICK s : s = mailbox[a]
    OBVIOUS
  <2>1. s \in Seq(Request) /\ Len(s) \in Nat /\ DOMAIN s = 1..Len(s)
    BY <1>10
  <2>2. /\ Len(Append(s, r)) = Len(s) + 1 /\ Append(s, r) \in Seq(Request)
        /\ \A i \in 1..Len(s) : Append(s, r)[i] = s[i]
        /\ Append(s, r)[Len(s) + 1] = r
    BY <1>9, <2>1, AppendProperties
  <2>3. DOMAIN Append(s, r) = 1..(Len(s) + 1)
    BY <2>2
  <2>4. 1..(Len(s) + 1) = 1..Len(s) \cup {Len(s) + 1} /\ Len(s) + 1 \notin 1..Len(s)
    BY <2>1
  <2> QED
    BY <1>10, <2>1, <2>2, <2>3, <2>4
<1>13. ASSUME NEW b \in Accounts, NEW i \in DOMAIN mailbox'[b]
       PROVE  /\ mailbox'[b][i].kind = "acknowledge" => mailbox'[b][i].event \in inbox'[b]
              /\ mailbox'[b][i].kind = "read" => mailbox'[b][i].event = Abandoned
              /\ mailbox'[b][i].by \in Workers =>
                   /\ worker'[mailbox'[b][i].by].step = Waiting(mailbox'[b][i].kind)
                   /\ worker'[mailbox'[b][i].by].account = b
                   /\ \A k \in DOMAIN mailbox'[b] : mailbox'[b][k].by = mailbox'[b][i].by => i = k
  <2>1. inbox' = inbox
    BY DEF Submit, files
  <2>2. CASE i \in DOMAIN mailbox[b] /\ mailbox'[b][i] = mailbox[b][i]
    <3>1. /\ mailbox[b][i].kind = "acknowledge" => mailbox[b][i].event \in inbox[b]
          /\ mailbox[b][i].kind = "read" => mailbox[b][i].event = Abandoned
          /\ mailbox[b][i].by \in Workers =>
               /\ worker[mailbox[b][i].by].step = Waiting(mailbox[b][i].kind)
               /\ worker[mailbox[b][i].by].account = b
               /\ \A k \in DOMAIN mailbox[b] : mailbox[b][k].by = mailbox[b][i].by => i = k
      BY <2>2 DEF MailIsAwaited
    <3>2. mailbox[b][i].by # w
      BY <1>11, <2>2
    <3>3. \A k \in DOMAIN mailbox'[b] :
            \/ k \in DOMAIN mailbox[b] /\ mailbox'[b][k] = mailbox[b][k]
            \/ mailbox'[b][k].by = w
      BY <1>9, <1>10, <1>12
    <3> QED
      BY <1>7, <2>1, <2>2, <3>1, <3>2, <3>3
  <2>3. CASE b = a /\ i = Len(mailbox[a]) + 1
    <3>1. mailbox'[b][i] = r
      BY <1>12, <2>3
    <3>2. \A k \in DOMAIN mailbox'[b] : k # i => mailbox'[b][k].by # w
      BY <1>11, <1>12, <2>3
    <3> QED
      BY <1>3, <1>7, <1>9, <2>1, <2>3, <3>1, <3>2
  <2> QED
    BY <1>10, <1>12, <2>2, <2>3
<1>14. MailIsAwaited'
  BY <1>13 DEF MailIsAwaited
<1>15. TypeOK'
  BY <1>6, <1>10 DEF Submit, TypeOK, files
<1> QED
  BY <1>1, <1>6, <1>8, <1>14, <1>15

LEMMA SubmitReadIInv ==
  ASSUME IInv, NEW w \in Workers, SubmitRead(w)
  PROVE  IInv'
<1>1. worker[w].step = "read" /\ Submit(w, "read", Abandoned, Waiting("read"))
  BY DEF SubmitRead, Waiting
<1> QED
  BY <1>1, SubmitKeeps

LEMMA SubmitAcknowledgeIInv ==
  ASSUME IInv, NEW w \in Workers, SubmitAcknowledge(w)
  PROVE  IInv'
<1>1. /\ worker[w].step = "acknowledge"
      /\ Submit(w, "acknowledge", Head(worker[w].page), Waiting("acknowledge"))
  BY DEF SubmitAcknowledge, Waiting
<1>2. worker[w] \in Job /\ JobOK(worker[w])
  BY <1>1, BusyHasJob DEF IInv, PagesArePublished
<1>3. Head(worker[w].page) \in Ids /\ Head(worker[w].page) \in inbox[worker[w].account]
  BY <1>1, <1>2, HeadAndTail DEF Job, JobOK
<1> QED
  BY <1>1, <1>3, SubmitKeeps

\* Applying a published event once more changes nothing.
LEMMA ApplyKeeps ==
  ASSUME TypeOK, NothingLost, NEW a \in Accounts, NEW id \in Range(published[a]), ApplyOnce(a, id)
  PROVE  /\ UNCHANGED <<published, pending, commands>>
         /\ inbox' \in [Accounts -> SUBSET Ids] /\ applied' \in [Accounts -> Seq(Ids)]
         /\ FilesGrow /\ NothingLost' /\ id \in inbox'[a]
<1>1. id \in Ids
  <2>1. published[a] \in Seq(Ids)
    BY DEF TypeOK
  <2> QED
    BY <2>1 DEF Range
<1>2. CASE id \in inbox[a] /\ UNCHANGED files
  BY <1>2, SameFiles DEF files, TypeOK
<1>3. CASE /\ inbox' = [inbox EXCEPT ![a] = @ \cup {id}]
           /\ applied' = [applied EXCEPT ![a] = Append(@, id)]
           /\ UNCHANGED <<published, pending, commands>>
  <2>1. /\ inbox' \in [Accounts -> SUBSET Ids] /\ inbox'[a] = inbox[a] \cup {id}
        /\ \A b \in Accounts \ {a} : inbox'[b] = inbox[b]
    BY <1>1, <1>3 DEF TypeOK
  <2>2. applied' \in [Accounts -> Seq(Ids)]
    BY <1>1, <1>3, AppendProperties DEF TypeOK
  <2>3. FilesGrow /\ NothingLost'
    BY <1>3, <2>1 DEF FilesGrow, NothingLost
  <2> QED
    BY <1>3, <2>1, <2>2, <2>3
<1> QED
  BY <1>2, <1>3 DEF ApplyOnce, NotInInbox

LEMMA ConsumeIInv ==
  ASSUME IInv, NEW w \in Workers, Consume(w)
  PROVE  IInv'
<1> USE DEF IInv
<1>1. /\ worker[w].step = "consume" /\ worker[w] \in Job /\ JobOK(worker[w])
      /\ Holds(w) /\ "acknowledge" \in Steps
  BY BusyHasJob DEF Consume, PagesArePublished, Holds, Steps
<1> PICK a \in Accounts : a = worker[w].account
  BY <1>1 DEF Job
<1> PICK id : id = Head(worker[w].page)
  OBVIOUS
<1>2. id \in Range(published[a])
  BY <1>1, HeadAndTail DEF Job, JobOK
<1>3. /\ UNCHANGED <<published, pending, commands>>
      /\ inbox' \in [Accounts -> SUBSET Ids] /\ applied' \in [Accounts -> Seq(Ids)]
      /\ FilesGrow /\ NothingLost' /\ id \in inbox'[a]
  BY <1>2, ApplyKeeps DEF Consume
<1> PICK j : j = [worker[w] EXCEPT !.step = "acknowledge"]
  OBVIOUS
<1>4. /\ j \in Job /\ j.account = a /\ j.step = "acknowledge"
      /\ j.page = worker[w].page /\ j.pages = worker[w].pages
  BY <1>1, NextStep
<1>5. JobOK(j)'
  BY <1>1, <1>3, <1>4 DEF JobOK
<1>6. worker' = [worker EXCEPT ![w] = j] /\ UNCHANGED mailbox
  BY DEF Consume
<1>7. /\ worker' \in [Workers -> Job \cup {Idle}]
      /\ PagesArePublished' /\ MailIsAwaited'
      /\ worker'[w] = j /\ \A v \in Workers \ {w} : worker'[v] = worker[v]
  BY <1>1, <1>3, <1>4, <1>5, <1>6, WorkerMoves
<1>8. Dispatched'
  <2>1. \A v \in Workers : Holds(v)' => Holds(v) /\ worker'[v].account = worker[v].account
    BY <1>1, <1>4, <1>7 DEF Holds
  <2>2. UNCHANGED <<queue, scheduled>>
    BY DEF Consume
  <2> QED
    BY <2>1, <2>2, SameQueue
<1>9. TypeOK'
  BY <1>3, <1>7 DEF Consume, TypeOK
<1> QED
  BY <1>3, <1>7, <1>8, <1>9

LEMMA ConsumeFailsIInv ==
  ASSUME IInv, NEW w \in Workers, NEW durable \in BOOLEAN, ConsumeFails(w, durable)
  PROVE  IInv'
<1> USE DEF IInv
<1>1. /\ worker[w].step = "consume" /\ worker[w] \in Job /\ JobOK(worker[w])
      /\ Holds(w) /\ "failed" \in Steps
  BY BusyHasJob DEF ConsumeFails, PagesArePublished, Holds, Steps
<1> PICK a \in Accounts : a = worker[w].account
  BY <1>1 DEF Job
<1> PICK id : id = Head(worker[w].page)
  OBVIOUS
<1>2. id \in Range(published[a])
  BY <1>1, HeadAndTail DEF Job, JobOK
<1>3. /\ UNCHANGED <<published, pending, commands>>
      /\ inbox' \in [Accounts -> SUBSET Ids] /\ applied' \in [Accounts -> Seq(Ids)]
      /\ FilesGrow /\ NothingLost'
  <2>1. CASE durable
    BY <1>2, <2>1, ApplyKeeps DEF ConsumeFails
  <2>2. CASE ~durable
    BY <2>2, SameFiles DEF ConsumeFails, files, TypeOK
  <2> QED
    BY <2>1, <2>2
<1> PICK j : j = [worker[w] EXCEPT !.step = "failed"]
  OBVIOUS
<1>4. /\ j \in Job /\ j.account = a /\ j.step = "failed"
      /\ j.page = worker[w].page /\ j.pages = worker[w].pages
  BY <1>1, NextStep
<1>5. JobOK(j)'
  BY <1>1, <1>3, <1>4 DEF JobOK
<1>6. worker' = [worker EXCEPT ![w] = j] /\ UNCHANGED mailbox
  BY DEF ConsumeFails, StopsAtError
<1>7. /\ worker' \in [Workers -> Job \cup {Idle}]
      /\ PagesArePublished' /\ MailIsAwaited'
      /\ worker'[w] = j /\ \A v \in Workers \ {w} : worker'[v] = worker[v]
  BY <1>1, <1>3, <1>4, <1>5, <1>6, WorkerMoves
<1>8. Dispatched'
  <2>1. \A v \in Workers : Holds(v)' => Holds(v) /\ worker'[v].account = worker[v].account
    BY <1>1, <1>4, <1>7 DEF Holds
  <2>2. UNCHANGED <<queue, scheduled>>
    BY DEF ConsumeFails
  <2> QED
    BY <2>1, <2>2, SameQueue
<1>9. faults' \in 0..MaxFaults
  BY DeliveryAssumption DEF ConsumeFails, Fault, TypeOK
<1>10. TypeOK'
  BY <1>3, <1>7, <1>9 DEF ConsumeFails, TypeOK
<1> QED
  BY <1>3, <1>7, <1>8, <1>10

LEMMA GiveUpIInv ==
  ASSUME IInv, NEW w \in Workers, GiveUp(w)
  PROVE  IInv'
<1> USE DEF IInv
<1>1. FilesGrow /\ NothingLost'
  BY SameFiles DEF GiveUp
<1>2. /\ worker[w] \in Job /\ JobOK(worker[w]) /\ Holds(w) /\ "failed" \in Steps
  BY BusyHasJob DEF GiveUp, PagesArePublished, Holds, Steps
<1> PICK a \in Accounts : a = worker[w].account
  BY <1>2 DEF Job
<1> PICK j : j = [worker[w] EXCEPT !.step = "failed"]
  OBVIOUS
<1>3. /\ j \in Job /\ j.account = a /\ j.step = "failed"
      /\ j.page = worker[w].page /\ j.pages = worker[w].pages
  BY <1>2, NextStep
<1>4. JobOK(j)'
  <2>1. UNCHANGED <<published, inbox>>
    BY DEF GiveUp, files
  <2> QED
    BY <1>2, <1>3, <2>1 DEF JobOK
<1>5. worker' = [worker EXCEPT ![w] = j]
  BY DEF GiveUp
<1>6. worker' \in [Workers -> Job \cup {Idle}] /\ PagesArePublished'
  BY <1>1, <1>3, <1>4, <1>5, OneJobChanges
<1>7. worker'[w] = j /\ \A v \in Workers \ {w} : worker'[v] = worker[v]
  BY <1>5 DEF TypeOK
<1>8. Dispatched'
  <2>1. \A v \in Workers : Holds(v)' => Holds(v) /\ worker'[v].account = worker[v].account
    BY <1>2, <1>3, <1>7 DEF Holds
  <2>2. UNCHANGED <<queue, scheduled>>
    BY DEF GiveUp
  <2> QED
    BY <2>1, <2>2, SameQueue
<1> DEFINE Given(r) == IF r.by = w THEN [r EXCEPT !.by = Abandoned] ELSE r
<1> PICK s : s = mailbox[a]
  OBVIOUS
<1>9. s \in Seq(Request) /\ \A i \in DOMAIN s : s[i] \in Request
  BY ElementOfSeq DEF TypeOK
<1>10. ASSUME NEW r \in Request
       PROVE  /\ Given(r) \in Request /\ Given(r).kind = r.kind /\ Given(r).event = r.event
              /\ (Given(r).by \in Workers => Given(r) = r /\ r.by # w)
  <2>1. CASE r.by = w
    <3>1. Given(r) = [r EXCEPT !.by = Abandoned]
      BY <2>1
    <3>2. Given(r) \in Request
      BY <3>1, Zenon DEF Request
    <3>3. Given(r).by = Abandoned /\ Given(r).kind = r.kind /\ Given(r).event = r.event
      BY <3>1 DEF Request
    <3>4. Abandoned \notin Workers
      BY DeliveryAssumption DEF Abandoned
    <3> HIDE DEF Given
    <3> QED
      BY <3>2, <3>3, <3>4
  <2>2. CASE r.by # w
    BY <2>2
  <2> QED
    BY <2>1, <2>2
<1>11. mailbox' = [mailbox EXCEPT ![a] = [i \in DOMAIN s |-> Given(s[i])]]
  BY DEF GiveUp
<1> HIDE DEF Given
<1>12. [i \in DOMAIN s |-> Given(s[i])] \in Seq(Request)
  <2>1. DOMAIN s = 1..Len(s) /\ Len(s) \in Nat
    BY <1>9
  <2>2. \A i \in 1..Len(s) : Given(s[i]) \in Request
    BY <1>9, <1>10, <2>1
  <2> QED
    BY <2>1, <2>2
<1>13. /\ mailbox' \in [Accounts -> Seq(Request)]
       /\ mailbox'[a] = [i \in DOMAIN s |-> Given(s[i])]
       /\ \A b \in Accounts \ {a} : mailbox'[b] = mailbox[b]
  BY <1>11, <1>12 DEF TypeOK
<1>14. ASSUME NEW b \in Accounts, NEW i \in DOMAIN mailbox'[b]
       PROVE  /\ i \in DOMAIN mailbox[b] /\ mailbox[b][i] \in Request
              /\ mailbox'[b][i].kind = mailbox[b][i].kind /\ mailbox'[b][i].event = mailbox[b][i].event
              /\ mailbox'[b][i].by \in Workers => mailbox'[b][i].by = mailbox[b][i].by /\ mailbox[b][i].by # w
  <2>1. CASE b = a
    BY <1>9, <1>10, <1>13, <2>1
  <2>2. CASE b # a
    <3>1. mailbox'[b] = mailbox[b]
      BY <1>13, <2>2
    <3>2. mailbox[b] \in Seq(Request)
      BY DEF TypeOK
    <3>3. mailbox[b][i] \in Request
      BY <3>1, <3>2, ElementOfSeq
    <3>4. mailbox[b][i].by \in Workers => mailbox[b][i].by # w
      <4>1. mailbox[b][i].by \in Workers => worker[mailbox[b][i].by].account = b
        BY <3>1 DEF MailIsAwaited
      <4> QED
        BY <2>2, <4>1
    <3> QED
      BY <3>1, <3>3, <3>4
  <2> QED
    BY <2>1, <2>2
<1>15. MailIsAwaited'
  <2>1. ASSUME NEW b \in Accounts, NEW i \in DOMAIN mailbox'[b]
        PROVE  /\ mailbox'[b][i].kind = "acknowledge" => mailbox'[b][i].event \in inbox'[b]
               /\ mailbox'[b][i].kind = "read" => mailbox'[b][i].event = Abandoned
               /\ mailbox'[b][i].by \in Workers =>
                    /\ worker'[mailbox'[b][i].by].step = Waiting(mailbox'[b][i].kind)
                    /\ worker'[mailbox'[b][i].by].account = b
                    /\ \A k \in DOMAIN mailbox'[b] : mailbox'[b][k].by = mailbox'[b][i].by => i = k
    <3>1. inbox' = inbox
      BY DEF GiveUp, files
    <3>2. /\ mailbox[b][i].kind = "acknowledge" => mailbox[b][i].event \in inbox[b]
          /\ mailbox[b][i].kind = "read" => mailbox[b][i].event = Abandoned
          /\ mailbox[b][i].by \in Workers =>
               /\ worker[mailbox[b][i].by].step = Waiting(mailbox[b][i].kind)
               /\ worker[mailbox[b][i].by].account = b
               /\ \A k \in DOMAIN mailbox[b] : mailbox[b][k].by = mailbox[b][i].by => i = k
      BY <1>14 DEF MailIsAwaited
    <3>3. \A k \in DOMAIN mailbox'[b] :
            /\ k \in DOMAIN mailbox[b]
            /\ mailbox'[b][k].by \in Workers => mailbox'[b][k].by = mailbox[b][k].by
      BY <1>14
    <3> QED
      BY <1>7, <1>14, <3>1, <3>2, <3>3
  <2> QED
    BY <2>1 DEF MailIsAwaited
<1>16. faults' \in 0..MaxFaults
  BY DeliveryAssumption DEF GiveUp, Fault, TypeOK
<1>17. TypeOK'
  BY <1>6, <1>13, <1>16 DEF GiveUp, TypeOK, files
<1> QED
  BY <1>1, <1>6, <1>8, <1>15, <1>17

\* The account a worker gives back is held by no other and queued nowhere.
LEMMA FinishIInv ==
  ASSUME IInv, NEW w \in Workers, Finish(w)
  PROVE  IInv'
<1> USE DEF IInv
<1>1. FilesGrow /\ NothingLost'
  BY SameFiles DEF Finish
<1>2. /\ worker[w] \in Job /\ JobOK(worker[w]) /\ Holds(w) /\ "rewake" \in Steps
      /\ worker[w].step \notin {"reading", "acknowledging"}
  BY BusyHasJob DEF Finish, PagesArePublished, Holds, Steps
<1> PICK a \in Accounts : a = worker[w].account
  BY <1>2 DEF Job
<1> PICK j : j = IF scheduled[a] /\ worker[w].step # "failed"
                 THEN [worker[w] EXCEPT !.step = "rewake"] ELSE Idle
  OBVIOUS
<1>3. worker' = [worker EXCEPT ![w] = j]
  BY DEF Finish
<1>4. j = Idle \/ (j \in Job /\ j.step = "rewake" /\ j.page = worker[w].page /\ j.account = a)
  <2>1. CASE j = [worker[w] EXCEPT !.step = "rewake"]
    BY <1>2, <2>1, NextStep
  <2> QED
    BY <2>1
<1>5. j \in Job \cup {Idle} /\ j.step \in {"idle", "rewake"}
  BY <1>4 DEF Idle
<1>6. j.step # "idle" => JobOK(j)'
  <2>1. UNCHANGED <<published, inbox>>
    BY DEF Finish, files
  <2> QED
    BY <1>2, <1>4, <2>1 DEF JobOK, Idle
<1>7. /\ worker' \in [Workers -> Job \cup {Idle}]
      /\ PagesArePublished' /\ MailIsAwaited'
      /\ worker'[w] = j /\ \A v \in Workers \ {w} : worker'[v] = worker[v]
  <2>1. UNCHANGED mailbox
    BY DEF Finish
  <2> QED
    BY <1>1, <1>2, <1>3, <1>5, <1>6, <2>1, WorkerMoves
<1>8. /\ scheduled' = [b \in DOMAIN scheduled \ {a} |-> scheduled[b]] /\ UNCHANGED queue
      /\ deferred' \subseteq Accounts
  BY DEF Finish, TypeOK
<1>9. DOMAIN scheduled' = DOMAIN scheduled \ {a} /\ \A b \in DOMAIN scheduled' : scheduled'[b] = scheduled[b]
  BY <1>8
<1>10. \A v \in Workers : Holds(v)' => Holds(v) /\ v # w /\ worker'[v] = worker[v]
  BY <1>5, <1>7 DEF Holds
<1>11. OneDelivery'
  BY <1>8, <1>10 DEF Dispatched, OneDelivery, Holds
<1>12. HeldIsScheduled'
  <2>1. \A i \in DOMAIN queue : queue[i] # a
    BY <1>2 DEF Dispatched, OneDelivery, Holds, Range
  <2>2. \A v \in Workers : Holds(v)' => worker[v].account # a
    BY <1>2, <1>10 DEF Dispatched, OneDelivery, Holds
  <2> QED
    BY <1>8, <1>9, <1>10, <2>1, <2>2 DEF Dispatched, HeldIsScheduled, Holds
<1>13. TypeOK'
  BY <1>7, <1>8, <1>9 DEF Finish, TypeOK, files
<1> QED
  BY <1>1, <1>7, <1>11, <1>12, <1>13 DEF Dispatched

LEMMA RewakeIInv ==
  ASSUME IInv, NEW w \in Workers, Rewake(w)
  PROVE  IInv'
<1> USE DEF IInv
<1>1. FilesGrow /\ NothingLost'
  BY SameFiles DEF Rewake
<1>2. worker[w].step = "rewake" /\ worker[w] \in Job /\ worker[w].account \in Accounts
  BY BusyHasJob DEF Rewake, Job
<1>3. worker' = [worker EXCEPT ![w] = Idle] /\ Idle.step = "idle"
  BY DEF Rewake, Idle
<1>4. worker' \in [Workers -> Job \cup {Idle}] /\ PagesArePublished'
  <2> PICK j : j = Idle
    OBVIOUS
  <2> QED
    BY <1>1, <1>3, OneJobChanges
<1>5. worker'[w] = Idle /\ \A v \in Workers \ {w} : worker'[v] = worker[v]
  BY <1>3 DEF TypeOK
<1>6. MailIsAwaited'
  BY <1>1, <1>2, <1>5, SameMail DEF Rewake
<1>7. \A v \in Workers : Holds(v)' => Holds(v) /\ worker'[v].account = worker[v].account
  BY <1>3, <1>5 DEF Holds
<1>8. /\ Dispatched'
      /\ queue' \in Seq(Accounts) /\ Len(queue') <= QueueSize
      /\ DOMAIN scheduled' \subseteq Accounts
      /\ \A b \in DOMAIN scheduled' : scheduled'[b] \in BOOLEAN
      /\ deferred' \subseteq Accounts
  BY <1>2, <1>7, WakeKeepsDispatch DEF Rewake
<1>9. TypeOK'
  BY <1>4, <1>8 DEF Rewake, TypeOK, files
<1> QED
  BY <1>1, <1>4, <1>6, <1>8, <1>9

-----------------------------------------------------------------------------
(* The scan, the end of the dispatcher and of the process *)

\* A step that changes only the scan, the flag and the bounds.
LEMMA QuietStep ==
  ASSUME IInv, UNCHANGED <<files, waking, mailbox, queue, scheduled, worker>>,
         scanning' \in Seq(Accounts), running' \in BOOLEAN,
         faults' \in 0..MaxFaults, deferred' \subseteq Accounts
  PROVE  IInv'
<1> USE DEF IInv
<1>1. FilesGrow /\ NothingLost'
  BY SameFiles
<1>2. Dispatched'
  BY SameQueue DEF Holds
<1>3. MailIsAwaited' /\ PagesArePublished'
  BY <1>1, SameMail, SameJobs
<1>4. TypeOK'
  BY DEF TypeOK, files
<1> QED
  BY <1>1, <1>2, <1>3, <1>4

LEMMA ScanStepIInv ==
  ASSUME IInv, ScanStep
  PROVE  IInv'
<1> USE DEF IInv
<1>1. /\ Head(scanning) \in Accounts /\ Tail(scanning) \in Seq(Accounts)
      /\ UNCHANGED <<files, waking, mailbox, worker, running, faults>> /\ scanning' = Tail(scanning)
  BY HeadTailProperties DEF ScanStep, TypeOK
<1>2. CASE UNCHANGED <<queue, scheduled, deferred>>
  BY <1>1, <1>2, QuietStep DEF TypeOK
<1>3. CASE Wake(Head(scanning))
  <2>1. FilesGrow /\ NothingLost'
    BY <1>1, SameFiles
  <2>2. /\ Dispatched'
        /\ queue' \in Seq(Accounts) /\ Len(queue') <= QueueSize
        /\ DOMAIN scheduled' \subseteq Accounts
        /\ \A b \in DOMAIN scheduled' : scheduled'[b] \in BOOLEAN
        /\ deferred' \subseteq Accounts
    BY <1>1, <1>3, WakeKeepsDispatch DEF Holds
  <2>3. MailIsAwaited' /\ PagesArePublished'
    BY <1>1, <2>1, SameMail, SameJobs
  <2>4. TypeOK'
    BY <1>1, <2>2 DEF TypeOK, files
  <2> QED
    BY <2>1, <2>2, <2>3, <2>4
<1> QED
  BY <1>2, <1>3 DEF ScanStep

\* A new process has nothing to deliver but what the files say.
LEMMA StartIInv ==
  ASSUME IInv, Start, faults' \in 0..MaxFaults
  PROVE  IInv'
<1> USE DEF IInv
<1>1. FilesGrow /\ NothingLost'
  BY SameFiles DEF Start
<1>2. \A w \in Workers : worker'[w] = Idle /\ worker'[w].step = "idle"
  BY DEF Start, Idle
<1>3. \A a \in Accounts : mailbox'[a] = <<>>
  BY DEF Start
<1>4. Dispatched'
  BY <1>2, EmptyRange DEF Start, Dispatched, OneDelivery, HeldIsScheduled, Holds
<1>5. MailIsAwaited'
  BY <1>3 DEF MailIsAwaited
<1>6. PagesArePublished'
  BY <1>2 DEF PagesArePublished
<1>7. TypeOK'
  <2>1. worker' \in [Workers -> Job \cup {Idle}] /\ mailbox' \in [Accounts -> Seq(Request)]
    BY DEF Start
  <2>2. queue' \in Seq(Accounts) /\ Len(queue') <= QueueSize
    BY DeliveryAssumption DEF Start
  <2>3. DOMAIN scheduled' = {}
    BY DEF Start, Unscheduled
  <2> QED
    BY <2>1, <2>2, <2>3, OrderIsSeq DEF Start, TypeOK, files
<1> QED
  BY <1>1, <1>4, <1>5, <1>6, <1>7

-----------------------------------------------------------------------------
(* The invariant *)

LEMMA StepIInv == IInv /\ [Next]_vars => IInv'
<1> SUFFICES ASSUME IInv, [Next]_vars PROVE IInv'
  OBVIOUS
<1>0. TypeOK /\ MaxFaults \in Nat
  BY DeliveryAssumption DEF IInv
<1>1. ASSUME NEW a \in Accounts, NEW id \in Ids, CommandPublishes(a, id) PROVE IInv'
  BY <1>1, CommandPublishesIInv
<1>2. ASSUME NEW a \in Accounts, NEW id \in Ids, CommandPublishesUnreported(a, id) PROVE IInv'
  BY <1>2, CommandPublishesUnreportedIInv
<1>3. ASSUME NEW a \in Accounts, CommandWakes(a) PROVE IInv'
  BY <1>3, CommandWakesIInv
<1>4. ASSUME NEW a \in Accounts, ExecuteRead(a) PROVE IInv'
  BY <1>4, ExecuteReadIInv
<1>5. ASSUME NEW a \in Accounts, ExecuteAcknowledge(a) PROVE IInv'
  BY <1>5, ExecuteAcknowledgeIInv
<1>6. ASSUME NEW a \in Accounts, NEW durable \in BOOLEAN, RequestFails(a, durable) PROVE IInv'
  BY <1>6, RequestFailsIInv
<1>7. ASSUME NEW w \in Workers, TakeAccount(w) PROVE IInv'
  BY <1>7, TakeAccountIInv
<1>8. ASSUME NEW w \in Workers, SubmitRead(w) PROVE IInv'
  BY <1>8, SubmitReadIInv
<1>9. ASSUME NEW w \in Workers, SubmitAcknowledge(w) PROVE IInv'
  BY <1>9, SubmitAcknowledgeIInv
<1>10. ASSUME NEW w \in Workers, Consume(w) PROVE IInv'
  BY <1>10, ConsumeIInv
<1>11. ASSUME NEW w \in Workers, NEW durable \in BOOLEAN, ConsumeFails(w, durable) PROVE IInv'
  BY <1>11, ConsumeFailsIInv
<1>12. ASSUME NEW w \in Workers, GiveUp(w) PROVE IInv'
  BY <1>12, GiveUpIInv
<1>13. ASSUME NEW w \in Workers, Finish(w) PROVE IInv'
  BY <1>13, FinishIInv
<1>14. ASSUME NEW w \in Workers, Rewake(w) PROVE IInv'
  BY <1>14, RewakeIInv
<1>15. CASE ScanStarts
  BY <1>0, <1>15, OrderIsSeq, QuietStep DEF ScanStarts, TypeOK
<1>16. CASE ScanStep
  BY <1>16, ScanStepIInv
<1>17. CASE ScanFails
  <2>1. scanning' \in Seq(Accounts) /\ faults' \in 0..MaxFaults
    BY <1>0, <1>17 DEF ScanFails, Fault, TypeOK
  <2> QED
    BY <1>0, <1>17, <2>1, QuietStep DEF ScanFails, TypeOK
<1>18. CASE Close
  <2>1. faults' \in 0..MaxFaults
    BY <1>0, <1>18 DEF Close, Fault, TypeOK
  <2> QED
    BY <1>0, <1>18, <2>1, QuietStep DEF Close, TypeOK
<1>19. CASE Crash
  <2>1. faults' \in 0..MaxFaults
    BY <1>0, <1>19 DEF Crash, Fault, TypeOK
  <2> QED
    BY <1>19, <2>1, StartIInv DEF Crash
<1>20. CASE Restart
  BY <1>0, <1>20, StartIInv DEF Restart, TypeOK
<1>21. CASE UNCHANGED vars
  BY <1>0, <1>21, QuietStep DEF vars, files, dispatch, TypeOK
<1> QED
  BY <1>1, <1>2, <1>3, <1>4, <1>5, <1>6, <1>7, <1>8, <1>9, <1>10, <1>11, <1>12, <1>13, <1>14,
     <1>15, <1>16, <1>17, <1>18, <1>19, <1>20, <1>21 DEF Next

LEMMA Invariance == Spec => []IInv
BY InitIInv, StepIInv, PTL DEF Spec

\* The state of the outbox, the dispatcher and the inbox has its type.
THEOREM TypeCorrect == Spec => []TypeOK
BY Invariance, PTL DEF IInv

\* However many workers run, an account is delivered by one of them at a time
\* and is queued at most once: scan, wake and rewake all look at the same map.
THEOREM OneDeliveryAtATime == Spec => []OneDelivery
BY Invariance, PTL DEF IInv, Dispatched

\* Whatever fails, is given up, or executed after it was given up: an event that
\* was committed is pending or was applied to the shared file.
THEOREM CommittedIsNeverLost == Spec => []NothingLost
BY Invariance, PTL DEF IInv

-----------------------------------------------------------------------------
(* No wake is lost.  A delivery that nobody told to run again has still the   *)
(* pages to empty the outbox: what it read is the beginning of the outbox,    *)
(* and the requests that others abandoned come before its own.               *)

\* The scan, a command or a wake that is still to come looks at the account.
Announced(a) ==
  \/ a \in waking \cup deferred
  \/ a \in DOMAIN scheduled /\ scheduled[a] = TRUE

\* The events of an account are distinct and no more than the outbox takes.
OutboxOK(p) ==
  /\ Len(p) <= MaxPending
  /\ \A i, k \in DOMAIN p : p[i] = p[k] => i = k

\* The request of a worker is the last of the mailbox; what others abandoned
\* comes before it and is executed before it.
MailOrder(w) ==
  LET m == mailbox[worker[w].account] IN
  /\ worker[w].step = "reading" => m # <<>> /\ m[Len(m)].by = w
  /\ worker[w].step \in {"consume", "acknowledge"} => m = <<>>
  /\ worker[w].step = "acknowledging" =>
       Len(m) = 1 /\ m[1].by = w /\ m[1].event = Head(worker[w].page)

\* The pages that are left are enough for p, and the page is its beginning.
DrainOK(j, p) ==
  /\ j.step \in {"read", "reading"} => Len(p) + j.pages * PageSize <= MaxPending
  /\ j.step \in {"consume", "acknowledge", "acknowledging"} =>
       /\ Len(j.page) <= Len(p)
       /\ \A i \in 1..Len(j.page) : j.page[i] = p[i]
       /\ \/ Len(j.page) = Len(p)
          \/ Len(p) + (j.pages + 1) * PageSize <= MaxPending + Len(j.page)
  /\ j.step = "done" => p = <<>>

Drains(w) == ~Announced(worker[w].account) => DrainOK(worker[w], pending[worker[w].account])

WakeInv ==
  /\ ~running => deferred = Accounts
  /\ \A a \in Accounts : OutboxOK(pending[a])
  /\ \A w \in Workers : Holds(w) => MailOrder(w) /\ Drains(w)
  /\ WakeNotLost

\* The pages a delivery may read hold a full outbox.
LEMMA PagesCover ==
  /\ MaxPages * PageSize \in Nat /\ MaxPages * PageSize > MaxPending
  /\ \A n \in Nat : n < MaxPages => n * PageSize \in Nat /\ n * PageSize <= MaxPending
<1> DEFINE q == MaxPending \div PageSize
<1>1. MaxPending \in Nat /\ PageSize \in Nat /\ PageSize > 0
  BY DeliveryAssumption
<1>2. q \in Nat /\ q * PageSize <= MaxPending /\ MaxPending < (q + 1) * PageSize
  BY <1>1, SMTT(30)
<1>3. MaxPages = q + 1
  BY DEF MaxPages
<1> HIDE DEF q
<1>4. ASSUME NEW n \in Nat, n <= q PROVE n * PageSize \in Nat /\ n * PageSize <= q * PageSize
  BY <1>1, <1>2, <1>4, SMTT(30)
<1> QED
  BY <1>1, <1>2, <1>3, <1>4, SMTT(30)

\* A row that is removed leaves the others in their order.
LEMMA WithoutElements ==
  ASSUME NEW a \in Accounts, NEW id, pending[a] \in Seq(Ids), id \in Range(pending[a])
  PROVE  \E k \in 1..Len(pending[a]) :
           /\ pending[a][k] = id
           /\ Without(a, id) \in Seq(Ids) /\ Len(Without(a, id)) = Len(pending[a]) - 1
           /\ \A i \in 1..(Len(pending[a]) - 1) :
                Without(a, id)[i] = IF i < k THEN pending[a][i] ELSE pending[a][i + 1]
<1> DEFINE s == pending[a]
<1>1. PICK k \in DOMAIN s : k = Row(a, id) /\ s[k] = id
  BY DEF Row, Range
<1>2. k \in 1..Len(s) /\ Len(s) \in Nat
  BY <1>1
<1> DEFINE f == SubSeq(s, 1, k - 1)
           g == SubSeq(s, k + 1, Len(s))
<1>3. Without(a, id) = f \o g
  BY <1>1 DEF Without, RemoveAt
<1>4. f \in Seq(Ids) /\ Len(f) = k - 1 /\ \A i \in 1..(k - 1) : f[i] = s[i]
  <2>1. s \in Seq(Ids) /\ 1 \in Nat /\ k - 1 \in Nat /\ \A i \in 1..(k - 1) : 1 + i - 1 = i
    BY <1>2
  <2> QED
    BY <1>2, <2>1, SubSeqProperties
<1>5. g \in Seq(Ids) /\ Len(g) = Len(s) - k /\ \A i \in 1..(Len(s) - k) : g[i] = s[k + i]
  <2>1. s \in Seq(Ids) /\ k + 1 \in Nat /\ Len(s) - (k + 1) + 1 = Len(s) - k
    BY <1>2
  <2> QED
    BY <1>2, <2>1, SubSeqProperties
<1> HIDE DEF f, g
<1>6. /\ f \o g \in Seq(Ids) /\ Len(f \o g) = Len(s) - 1
      /\ \A i \in 1..(Len(s) - 1) : (f \o g)[i] = IF i <= k - 1 THEN f[i] ELSE g[i - (k - 1)]
  <2>1. Len(f) + Len(g) = Len(s) - 1
    BY <1>2, <1>4, <1>5
  <2>2. /\ f \o g \in Seq(Ids) /\ Len(f \o g) = Len(f) + Len(g)
        /\ \A i \in 1..(Len(f) + Len(g)) :
             (f \o g)[i] = IF i <= Len(f) THEN f[i] ELSE g[i - Len(f)]
    BY <1>4, <1>5, ConcatProperties
  <2> QED
    BY <1>4, <2>1, <2>2
<1>7. ASSUME NEW i \in 1..(Len(s) - 1)
      PROVE  (f \o g)[i] = IF i < k THEN s[i] ELSE s[i + 1]
  <2>1. CASE i < k
    BY <1>2, <1>4, <1>6, <2>1
  <2>2. CASE ~(i < k)
    <3>1. i - (k - 1) \in 1..(Len(s) - k) /\ k + (i - (k - 1)) = i + 1
      BY <1>2, <2>2
    <3>2. ~(i <= k - 1)
      BY <1>2, <2>2
    <3> QED
      BY <1>5, <1>6, <2>2, <3>1, <3>2
  <2> QED
    BY <2>1, <2>2
<1> QED
  BY <1>1, <1>2, <1>3, <1>6, <1>7

\* Removing a row keeps the rows distinct and makes the outbox no longer.
LEMMA WithoutIsOK ==
  ASSUME NEW a \in Accounts, NEW id, pending[a] \in Seq(Ids), OutboxOK(pending[a])
  PROVE  /\ OutboxOK(Without(a, id))
         /\ Without(a, id) \in Seq(Ids)
         /\ Len(Without(a, id)) <= Len(pending[a])
<1>0. MaxPending \in Nat
  BY DeliveryAssumption
<1>1. CASE id \notin Range(pending[a])
  BY <1>1 DEF Without
<1>2. CASE id \in Range(pending[a])
  <2> PICK s \in Seq(Ids) : s = pending[a]
    OBVIOUS
  <2> PICK t : t = Without(a, id)
    OBVIOUS
  <2>0. \E k \in 1..Len(pending[a]) :
          /\ pending[a][k] = id
          /\ Without(a, id) \in Seq(Ids) /\ Len(Without(a, id)) = Len(pending[a]) - 1
          /\ \A i \in 1..(Len(pending[a]) - 1) :
               Without(a, id)[i] = IF i < k THEN pending[a][i] ELSE pending[a][i + 1]
    BY <1>2, WithoutElements
  <2>1. PICK k \in 1..Len(s) :
          /\ t \in Seq(Ids) /\ Len(t) = Len(s) - 1
          /\ \A i \in 1..(Len(s) - 1) : t[i] = IF i < k THEN s[i] ELSE s[i + 1]
    BY <2>0, Zenon
  <2>2. /\ Len(s) \in Nat /\ DOMAIN s = 1..Len(s) /\ DOMAIN t = 1..(Len(s) - 1)
        /\ \A i, m \in DOMAIN s : s[i] = s[m] => i = m
    BY <2>1 DEF OutboxOK
  <2>3. ASSUME NEW i \in DOMAIN t, NEW m \in DOMAIN t, t[i] = t[m]
        PROVE  i = m
    <3>1. i \in DOMAIN s /\ i + 1 \in DOMAIN s /\ m \in DOMAIN s /\ m + 1 \in DOMAIN s
      BY <2>2
    <3>2. (IF i < k THEN i ELSE i + 1) = (IF m < k THEN m ELSE m + 1)
      BY <2>1, <2>2, <2>3, <3>1
    <3> QED
      BY <2>2, <3>2
  <2>4. Len(t) <= Len(s) /\ Len(t) <= MaxPending
    BY <1>0, <2>1, <2>2 DEF OutboxOK
  <2> QED
    BY <2>1, <2>3, <2>4 DEF OutboxOK
<1> QED
  BY <1>1, <1>2

\* The first row is the one an acknowledgement of it removes.
LEMMA WithoutFirst ==
  ASSUME NEW a \in Accounts, pending[a] \in Seq(Ids), OutboxOK(pending[a]), pending[a] # <<>>
  PROVE  /\ Len(Without(a, pending[a][1])) = Len(pending[a]) - 1
         /\ \A i \in 1..(Len(pending[a]) - 1) : Without(a, pending[a][1])[i] = pending[a][i + 1]
<1> PICK s \in Seq(Ids) : s = pending[a]
  OBVIOUS
<1>1. Len(s) \in Nat \ {0} /\ DOMAIN s = 1..Len(s) /\ 1 \in DOMAIN s
  BY EmptySeq
<1>2. s[1] \in Range(s)
  BY <1>1 DEF Range
<1>3. PICK k \in 1..Len(s) :
        /\ s[k] = s[1]
        /\ Len(Without(a, s[1])) = Len(s) - 1
        /\ \A i \in 1..(Len(s) - 1) : Without(a, s[1])[i] = IF i < k THEN s[i] ELSE s[i + 1]
  BY <1>2, WithoutElements
<1>4. k = 1
  BY <1>1, <1>3 DEF OutboxOK
<1> QED
  BY <1>1, <1>3, <1>4

\* A worker and its account that a step leaves alone stay in order.
LEMMA Undisturbed ==
  ASSUME NEW v \in Workers, MailOrder(v), Drains(v),
         NEW b \in Accounts, worker[v].account = b, worker'[v] = worker[v],
         mailbox'[b] = mailbox[b], pending'[b] = pending[b], Announced(b) => Announced(b)'
  PROVE  MailOrder(v)' /\ Drains(v)'
<1>1. MailOrder(v)'
  BY DEF MailOrder
<1>2. Drains(v)'
  BY DEF Drains, DrainOK
<1> QED
  BY <1>1, <1>2

\* A step of one account and of the worker that holds it.
LEMMA AccountMoves ==
  ASSUME TypeOK, WakeInv, NEW a \in Accounts,
         UNCHANGED <<scheduled, running>>,
         waking \subseteq waking', deferred \subseteq deferred', deferred' \subseteq Accounts,
         \A c \in Accounts \ {a} : pending'[c] = pending[c] /\ mailbox'[c] = mailbox[c],
         OutboxOK(pending'[a]),
         pending'[a] # <<>> => pending[a] # <<>> \/ a \in waking' \cup deferred',
         \A v \in Workers : ~(Holds(v) /\ worker[v].account = a) => worker'[v] = worker[v],
         \A v \in Workers : Holds(v) /\ worker[v].account = a =>
           Holds(v)' /\ MailOrder(v)' /\ Drains(v)'
  PROVE  WakeInv'
<1>1. ~running' => deferred' = Accounts
  BY DEF WakeInv
<1>2. \A c \in Accounts : OutboxOK(pending'[c])
  BY DEF WakeInv
<1>3. ASSUME NEW v \in Workers, Holds(v)'
      PROVE  MailOrder(v)' /\ Drains(v)'
  <2>1. CASE Holds(v) /\ worker[v].account = a
    BY <2>1
  <2>2. CASE ~(Holds(v) /\ worker[v].account = a)
    <3>1. worker'[v] = worker[v] /\ Holds(v)
      BY <1>3, <2>2 DEF Holds
    <3>2. worker[v].account \in Accounts /\ worker[v].account # a
      <4>1. worker[v] \in Job
        BY <3>1, BusyHasJob DEF Holds
      <4> QED
        BY <2>2, <3>1, <4>1 DEF Job
    <3> PICK b \in Accounts : b = worker[v].account
      BY <3>2
    <3>3. Announced(b) => Announced(b)'
      BY DEF Announced
    <3>4. MailOrder(v) /\ Drains(v)
      BY <3>1 DEF WakeInv
    <3>5. mailbox'[b] = mailbox[b] /\ pending'[b] = pending[b]
      BY <3>2
    <3> QED
      BY <3>1, <3>3, <3>4, <3>5, Undisturbed
  <2> QED
    BY <2>1, <2>2
<1>4. WakeNotLost'
  <2> SUFFICES ASSUME NEW c \in Accounts, pending'[c] # <<>>
               PROVE  \/ c \in DOMAIN scheduled' \cup waking' \cup deferred'
                      \/ \E w \in Workers : worker'[w].step = "rewake" /\ worker'[w].account = c
    BY DEF WakeNotLost
  <2>1. CASE pending[c] # <<>>
    <3>1. CASE c \in DOMAIN scheduled \cup waking \cup deferred
      BY <3>1
    <3>2. CASE \E w \in Workers : worker[w].step = "rewake" /\ worker[w].account = c
      <4>1. PICK w \in Workers : worker[w].step = "rewake" /\ worker[w].account = c
        BY <3>2
      <4>2. worker'[w] = worker[w]
        BY <4>1 DEF Holds
      <4> QED
        BY <4>1, <4>2
    <3> QED
      BY <2>1, <3>1, <3>2 DEF WakeInv, WakeNotLost
  <2>2. CASE pending[c] = <<>>
    BY <2>2
  <2> QED
    BY <2>1, <2>2
<1> QED
  BY <1>1, <1>2, <1>3, <1>4 DEF WakeInv

\* A wake leaves no account behind: it queues it, marks it, or leaves it to the
\* scan because the queue is full.
LEMMA WakeAnnounces ==
  ASSUME TypeOK, Dispatched, WakeInv, NEW a \in Accounts, Wake(a), UNCHANGED running
  PROVE  /\ ~running' => deferred' = Accounts
         /\ a \in DOMAIN scheduled' \cup deferred'
         /\ DOMAIN scheduled \subseteq DOMAIN scheduled'
         /\ \A b \in Accounts \ {a} : b \in deferred => b \in deferred'
         /\ \A b \in DOMAIN scheduled : scheduled[b] = TRUE => scheduled'[b] = TRUE
         /\ a \in DOMAIN scheduled => a \in deferred' \/ scheduled'[a] = TRUE
<1>1. CASE ~running
  BY <1>1 DEF Wake, WakeInv
<1>2. CASE running /\ IsScheduled(a)
  <2>1. scheduled' = [scheduled EXCEPT ![a] = TRUE] /\ UNCHANGED deferred /\ a \in DOMAIN scheduled
    BY <1>2 DEF Wake, WokenAgain, IsScheduled
  <2> QED
    BY <1>2, <2>1
<1>3. CASE running /\ ~IsScheduled(a)
  <2>0. a \notin DOMAIN scheduled /\ running'
    BY <1>3 DEF IsScheduled
  <2>1. CASE HasRoom
    <3>1. /\ scheduled' = [b \in DOMAIN scheduled \cup {a} |-> IF b = a THEN FALSE ELSE scheduled[b]]
          /\ deferred' = deferred \ {a}
      BY <1>3, <2>1 DEF Wake
    <3> QED
      BY <2>0, <3>1
  <2>2. CASE ~HasRoom
    <3>1. UNCHANGED scheduled /\ deferred' = deferred \cup {a}
      BY <1>3, <2>2 DEF Wake
    <3> QED
      BY <2>0, <3>1
  <2> QED
    BY <2>1, <2>2
<1> QED
  BY <1>1, <1>2, <1>3

\* A step whose effect is a wake of one account.
LEMMA WakeMoves ==
  ASSUME TypeOK, Dispatched, WakeInv, NEW a \in Accounts, Wake(a),
         UNCHANGED <<pending, mailbox, running>>,
         waking \ {a} \subseteq waking',
         \A v \in Workers :
           \/ worker'[v] = worker[v]
           \/ worker[v].step = "rewake" /\ worker[v].account = a /\ worker'[v].step = "idle"
  PROVE  WakeInv'
<1>1. /\ ~running' => deferred' = Accounts
      /\ a \in DOMAIN scheduled' \cup deferred'
      /\ DOMAIN scheduled \subseteq DOMAIN scheduled'
      /\ \A b \in Accounts \ {a} : b \in deferred => b \in deferred'
      /\ \A b \in DOMAIN scheduled : scheduled[b] = TRUE => scheduled'[b] = TRUE
      /\ a \in DOMAIN scheduled => a \in deferred' \/ scheduled'[a] = TRUE
  BY WakeAnnounces
<1>2. \A c \in Accounts : OutboxOK(pending'[c])
  BY DEF WakeInv
<1>3. ASSUME NEW v \in Workers, Holds(v)'
      PROVE  MailOrder(v)' /\ Drains(v)'
  <2>1. worker'[v] = worker[v] /\ Holds(v)
    BY <1>3 DEF Holds
  <2>2. worker[v] \in Job
    BY <2>1, BusyHasJob DEF Holds
  <2> PICK b \in Accounts : b = worker[v].account
    BY <2>2 DEF Job
  <2>3. b \in DOMAIN scheduled
    BY <2>1 DEF Dispatched, HeldIsScheduled
  <2>4. Announced(b) => Announced(b)'
    <3>1. CASE b = a
      BY <1>1, <2>3, <3>1 DEF Announced
    <3>2. CASE b # a
      BY <1>1, <2>3, <3>2 DEF Announced
    <3> QED
      BY <3>1, <3>2
  <2>5. MailOrder(v) /\ Drains(v)
    BY <2>1 DEF WakeInv
  <2> QED
    BY <2>1, <2>4, <2>5, Undisturbed
<1>4. WakeNotLost'
  <2> SUFFICES ASSUME NEW c \in Accounts, pending[c] # <<>>, c # a
               PROVE  \/ c \in DOMAIN scheduled' \cup waking' \cup deferred'
                      \/ \E w \in Workers : worker'[w].step = "rewake" /\ worker'[w].account = c
    BY <1>1 DEF WakeNotLost
  <2>1. CASE c \in DOMAIN scheduled \cup waking \cup deferred
    BY <1>1, <2>1
  <2>2. CASE \E w \in Workers : worker[w].step = "rewake" /\ worker[w].account = c
    <3>1. PICK w \in Workers : worker[w].step = "rewake" /\ worker[w].account = c
      BY <2>2
    <3>2. worker'[w] = worker[w]
      BY <3>1
    <3> QED
      BY <3>1, <3>2
  <2> QED
    BY <2>1, <2>2 DEF WakeInv, WakeNotLost
<1> QED
  BY <1>1, <1>2, <1>3, <1>4 DEF WakeInv

-----------------------------------------------------------------------------
(* The account and the wake *)

LEMMA InitWakeInv == Init => WakeInv
<1> SUFFICES ASSUME Init PROVE WakeInv
  OBVIOUS
<1>1. \A a \in Accounts : pending[a] = <<>>
  BY DEF Init
<1>2. \A a \in Accounts : OutboxOK(pending[a])
  BY <1>1, DeliveryAssumption DEF OutboxOK
<1>3. \A w \in Workers : ~Holds(w)
  BY DEF Init, Idle, Holds
<1> QED
  BY <1>1, <1>2, <1>3 DEF Init, WakeInv, WakeNotLost

\* A published event is new to the outbox, and there is room for it.
LEMMA PublishIsOK ==
  ASSUME IInv, WakeInv, NEW a \in Accounts, NEW id \in Ids, Publish(a, id)
  PROVE  OutboxOK(pending'[a]) /\ \A c \in Accounts \ {a} : pending'[c] = pending[c]
<1>1. CASE UNCHANGED pending
  BY <1>1 DEF WakeInv
<1>2. CASE /\ ~WasPublished(a, id) /\ Len(pending[a]) < MaxPending
           /\ pending' = [pending EXCEPT ![a] = Append(@, id)]
  <2> PICK s \in Seq(Ids) : s = pending[a]
    BY DEF IInv, TypeOK
  <2>1. pending'[a] = Append(s, id) /\ \A c \in Accounts \ {a} : pending'[c] = pending[c]
    BY <1>2 DEF IInv, TypeOK
  <2>2. id \notin Range(s)
    BY <1>2 DEF WasPublished, IInv, NothingLost
  <2>3. \A i, k \in DOMAIN s : s[i] = s[k] => i = k
    BY DEF WakeInv, OutboxOK
  <2>4. /\ Len(s) \in Nat /\ DOMAIN s = 1..Len(s) /\ Len(Append(s, id)) = Len(s) + 1
        /\ DOMAIN Append(s, id) = 1..(Len(s) + 1)
        /\ Append(s, id)[Len(s) + 1] = id
        /\ \A i \in 1..Len(s) : Append(s, id)[i] = s[i]
    BY AppendProperties
  <2>5. \A i \in 1..(Len(s) + 1) : i \in 1..Len(s) \/ i = Len(s) + 1
    BY <2>4
  <2>6. \A i, k \in DOMAIN Append(s, id) : Append(s, id)[i] = Append(s, id)[k] => i = k
    BY <2>2, <2>3, <2>4, <2>5 DEF Range
  <2>7. Len(Append(s, id)) <= MaxPending
    BY <1>2, <2>4, DeliveryAssumption
  <2> QED
    BY <2>1, <2>6, <2>7 DEF OutboxOK
<1> QED
  BY <1>1, <1>2 DEF Publish

LEMMA CommandPublishesWakeInv ==
  ASSUME IInv, WakeInv, NEW a \in Accounts, NEW id \in Ids, CommandPublishes(a, id)
  PROVE  WakeInv'
<1>1. OutboxOK(pending'[a]) /\ \A c \in Accounts \ {a} : pending'[c] = pending[c]
  BY PublishIsOK DEF CommandPublishes
<1>2. /\ UNCHANGED <<mailbox, scheduled, running, worker, deferred>>
      /\ waking \subseteq waking' /\ a \in waking' /\ deferred \subseteq Accounts /\ TypeOK
  BY DEF CommandPublishes, dispatch, IInv, TypeOK
<1>3. ASSUME NEW v \in Workers, Holds(v), worker[v].account = a
      PROVE  Holds(v)' /\ MailOrder(v)' /\ Drains(v)'
  <2>1. Holds(v)' /\ worker'[v] = worker[v]
    BY <1>2, <1>3 DEF Holds
  <2>2. MailOrder(v)'
    BY <1>2, <1>3 DEF WakeInv, MailOrder
  <2>3. Drains(v)'
    BY <1>2, <1>3 DEF Drains, Announced
  <2> QED
    BY <2>1, <2>2, <2>3
<1> QED
  BY <1>1, <1>2, <1>3, AccountMoves

\* Who waits at a runtime that fails, fails; the others of the account keep
\* their job and wait for no request.
LEMMA FailureMoves ==
  ASSUME IInv, WakeInv, NEW a \in Accounts, RuntimeFails(a)
  PROVE  /\ \A c \in Accounts \ {a} : mailbox'[c] = mailbox[c]
         /\ \A v \in Workers : ~(Holds(v) /\ worker[v].account = a) => worker'[v] = worker[v]
         /\ \A v \in Workers : Holds(v) /\ worker[v].account = a =>
              /\ Holds(v)' /\ MailOrder(v)' /\ worker'[v].account = a
              /\ \/ worker'[v].step = "failed"
                 \/ worker'[v] = worker[v] /\ worker[v].step \notin {"reading", "acknowledging"}
<1>1. /\ mailbox'[a] = <<>> /\ mailbox[a] \in Seq(Request)
      /\ \A b \in Accounts \ {a} : mailbox'[b] = mailbox[b]
  BY DEF RuntimeFails, IInv, TypeOK
<1> DEFINE Asked(w) == \E i \in DOMAIN mailbox[a] : mailbox[a][i].by = w
<1>2. ASSUME NEW w \in Workers
      PROVE  worker'[w] = IF Asked(w) THEN [worker[w] EXCEPT !.step = "failed"] ELSE worker[w]
  BY DEF RuntimeFails, Range
<1>3. ASSUME NEW w \in Workers, Asked(w)
      PROVE  Holds(w) /\ worker[w].account = a
  BY <1>3 DEF IInv, MailIsAwaited, Waiting, Holds
<1>4. ASSUME NEW v \in Workers, Holds(v), worker[v].account = a
      PROVE  /\ Holds(v)' /\ MailOrder(v)' /\ worker'[v].account = a
             /\ \/ worker'[v].step = "failed"
                \/ worker'[v] = worker[v] /\ worker[v].step \notin {"reading", "acknowledging"}
  <2>1. worker[v] \in Job
    BY <1>4, BusyHasJob DEF Holds, IInv
  <2>2. CASE Asked(v)
    <3>1. worker'[v].step = "failed" /\ worker'[v].account = a
      BY <1>2, <1>4, <2>1, <2>2 DEF Job
    <3> QED
      BY <3>1 DEF Holds, MailOrder
  <2>3. CASE ~Asked(v)
    <3>1. worker'[v] = worker[v]
      BY <1>2, <2>3
    <3>2. worker[v].step \notin {"reading", "acknowledging"}
      <4>1. MailOrder(v)
        BY <1>4 DEF WakeInv
      <4>2. Len(mailbox[a]) \in Nat /\ DOMAIN mailbox[a] = 1..Len(mailbox[a])
        BY <1>1
      <4>3. worker[v].step = "reading" => Len(mailbox[a]) \in DOMAIN mailbox[a]
        BY <1>1, <1>4, <4>1, <4>2, EmptySeq DEF MailOrder
      <4> QED
        BY <1>4, <2>3, <4>1, <4>2, <4>3 DEF MailOrder
    <3>3. Holds(v)' /\ MailOrder(v)'
      BY <1>1, <1>4, <3>1, <3>2 DEF Holds, MailOrder
    <3> QED
      BY <1>4, <3>1, <3>2, <3>3
  <2> QED
    BY <2>2, <2>3
<1>5. \A v \in Workers : ~(Holds(v) /\ worker[v].account = a) => worker'[v] = worker[v]
  BY <1>2, <1>3
<1> QED
  BY <1>1, <1>4, <1>5

LEMMA CommandPublishesUnreportedWakeInv ==
  ASSUME IInv, WakeInv, NEW a \in Accounts, NEW id \in Ids, CommandPublishesUnreported(a, id)
  PROVE  WakeInv'
<1>1. OutboxOK(pending'[a]) /\ \A c \in Accounts \ {a} : pending'[c] = pending[c]
  BY PublishIsOK DEF CommandPublishesUnreported
<1>2. /\ UNCHANGED <<scheduled, running, waking>>
      /\ deferred \subseteq deferred' /\ a \in deferred' /\ deferred' \subseteq Accounts /\ TypeOK
  BY DEF CommandPublishesUnreported, IInv, TypeOK
<1>3. /\ \A c \in Accounts \ {a} : mailbox'[c] = mailbox[c]
      /\ \A v \in Workers : ~(Holds(v) /\ worker[v].account = a) => worker'[v] = worker[v]
      /\ \A v \in Workers : Holds(v) /\ worker[v].account = a =>
              Holds(v)' /\ MailOrder(v)' /\ worker'[v].account = a
  BY FailureMoves DEF CommandPublishesUnreported
<1>4. \A v \in Workers : Holds(v) /\ worker[v].account = a => Drains(v)'
  BY <1>2, <1>3 DEF Drains, Announced
<1> QED
  BY <1>1, <1>2, <1>3, <1>4, AccountMoves

LEMMA CommandWakesWakeInv ==
  ASSUME IInv, WakeInv, NEW a \in Accounts, CommandWakes(a)
  PROVE  WakeInv'
<1>1. /\ UNCHANGED <<pending, mailbox, running, worker>> /\ waking \ {a} \subseteq waking'
      /\ TypeOK /\ Dispatched /\ Wake(a)
  BY DEF CommandWakes, files, IInv
<1> QED
  BY <1>1, WakeMoves

LEMMA RewakeWakeInv ==
  ASSUME IInv, WakeInv, NEW w \in Workers, Rewake(w)
  PROVE  WakeInv'
<1>1. /\ UNCHANGED <<pending, mailbox, running, waking>> /\ TypeOK /\ Dispatched
      /\ worker[w].step = "rewake" /\ worker' = [worker EXCEPT ![w] = Idle] /\ Idle.step = "idle"
  BY DEF Rewake, files, IInv, Idle
<1>2. worker[w] \in Job
  BY <1>1, BusyHasJob
<1> PICK a \in Accounts : a = worker[w].account
  BY <1>2 DEF Job
<1>3. Wake(a)
  BY DEF Rewake
<1>4. worker'[w].step = "idle" /\ \A v \in Workers \ {w} : worker'[v] = worker[v]
  BY <1>1 DEF TypeOK
<1> QED
  BY <1>1, <1>3, <1>4, WakeMoves

\* A step that concerns neither the outboxes nor their deliveries.
LEMMA QuietWakeInv ==
  ASSUME TypeOK, WakeInv, UNCHANGED <<pending, mailbox, worker, waking, scheduled>>,
         deferred \subseteq deferred', ~running' => deferred' = Accounts
  PROVE  WakeInv'
<1>1. ASSUME NEW v \in Workers, Holds(v)'
      PROVE  MailOrder(v)' /\ Drains(v)'
  <2>1. worker'[v] = worker[v] /\ Holds(v)
    BY <1>1 DEF Holds
  <2>2. worker[v] \in Job
    BY <2>1, BusyHasJob DEF Holds
  <2> PICK b \in Accounts : b = worker[v].account
    BY <2>2 DEF Job
  <2>3. Announced(b) => Announced(b)'
    BY DEF Announced
  <2>4. MailOrder(v) /\ Drains(v)
    BY <2>1 DEF WakeInv
  <2> QED
    BY <2>1, <2>3, <2>4, Undisturbed
<1>2. WakeNotLost'
  BY DEF WakeInv, WakeNotLost
<1> QED
  BY <1>1, <1>2 DEF WakeInv

LEMMA ScanStepWakeInv ==
  ASSUME IInv, WakeInv, ScanStep
  PROVE  WakeInv'
<1>1. /\ Head(scanning) \in Accounts /\ UNCHANGED <<pending, mailbox, waking, worker, running>>
      /\ TypeOK /\ Dispatched
  BY HeadTailProperties DEF ScanStep, IInv, TypeOK, files
<1> PICK a \in Accounts : a = Head(scanning)
  BY <1>1
<1>2. CASE UNCHANGED <<queue, scheduled, deferred>>
  BY <1>1, <1>2, QuietWakeInv DEF WakeInv
<1>3. CASE Wake(a)
  BY <1>1, <1>3, WakeMoves
<1> QED
  BY <1>2, <1>3 DEF ScanStep

LEMMA StartWakeInv ==
  ASSUME WakeInv, Start
  PROVE  WakeInv'
<1>1. \A w \in Workers : ~Holds(w)'
  BY DEF Start, Idle, Holds
<1>2. deferred' = Accounts /\ UNCHANGED pending
  BY DEF Start, files
<1> QED
  BY <1>1, <1>2 DEF WakeInv, WakeNotLost

-----------------------------------------------------------------------------
(* The worker and the wake *)

\* A step of the one worker that holds an account.
LEMMA JobMoves ==
  ASSUME IInv, WakeInv, NEW w \in Workers, Holds(w),
         UNCHANGED <<scheduled, running, waking, deferred, pending>>,
         \A v \in Workers \ {w} : worker'[v] = worker[v],
         \A c \in Accounts \ {worker[w].account} : mailbox'[c] = mailbox[c],
         Holds(w)', MailOrder(w)', Drains(w)'
  PROVE  WakeInv'
<1>1. worker[w] \in Job /\ TypeOK /\ deferred \subseteq Accounts
  BY BusyHasJob DEF Holds, IInv, TypeOK
<1> PICK a \in Accounts : a = worker[w].account
  BY <1>1 DEF Job
<1>2. \A v \in Workers : Holds(v) /\ worker[v].account = a => v = w
  BY DEF IInv, Dispatched, OneDelivery, Holds
<1>3. OutboxOK(pending'[a]) /\ \A c \in Accounts \ {a} : pending'[c] = pending[c]
  BY DEF WakeInv
<1> QED
  BY <1>1, <1>2, <1>3, AccountMoves

LEMMA TakeAccountWakeInv ==
  ASSUME IInv, WakeInv, NEW w \in Workers, TakeAccount(w)
  PROVE  WakeInv'
<1>1. /\ UNCHANGED <<pending, mailbox, waking, scheduled, deferred, running>> /\ TypeOK
      /\ worker[w].step = "idle"
  BY DEF TakeAccount, IInv, files, Idle
<1>2. Head(queue) \in Accounts /\ worker' = [worker EXCEPT ![w] = Working(Head(queue), "read", <<>>, 0)]
  BY HeadTailProperties DEF TakeAccount, IInv, TypeOK
<1> PICK a \in Accounts : a = Head(queue)
  BY <1>2
<1> PICK j : j = Working(a, "read", <<>>, 0)
  OBVIOUS
<1>3. j.step = "read" /\ j.account = a /\ j.pages = 0
  BY DEF Working
<1>4. worker'[w] = j /\ \A v \in Workers \ {w} : worker'[v] = worker[v]
  BY <1>2 DEF IInv, TypeOK
<1>5. MailOrder(w)' /\ Drains(w)'
  <2>1. MailOrder(w)'
    BY <1>3, <1>4 DEF MailOrder
  <2>2. pending[a] \in Seq(Ids) /\ Len(pending[a]) \in Nat /\ Len(pending[a]) <= MaxPending
    BY DEF IInv, TypeOK, WakeInv, OutboxOK
  <2>3. DrainOK(j, pending[a])
    BY <1>3, <2>2, DeliveryAssumption DEF DrainOK
  <2>4. Drains(w)'
    BY <1>1, <1>3, <1>4, <2>3 DEF Drains
  <2> QED
    BY <2>1, <2>4
<1>6. ASSUME NEW v \in Workers, Holds(v)'
      PROVE  MailOrder(v)' /\ Drains(v)'
  <2>1. CASE v = w
    BY <1>5, <2>1
  <2>2. CASE v # w
    <3>1. worker'[v] = worker[v] /\ Holds(v) /\ MailOrder(v) /\ Drains(v)
      BY <1>4, <1>6, <2>2 DEF Holds, WakeInv
    <3>2. worker[v] \in Job
      BY <1>1, <3>1, BusyHasJob DEF Holds
    <3> PICK b \in Accounts : b = worker[v].account
      BY <3>2 DEF Job
    <3>3. Announced(b) => Announced(b)'
      BY <1>1 DEF Announced
    <3> QED
      BY <1>1, <3>1, <3>3, Undisturbed
  <2> QED
    BY <2>1, <2>2
<1>7. WakeNotLost'
  <2>1. \A v \in Workers : worker[v].step = "rewake" => worker'[v] = worker[v]
    BY <1>1, <1>4
  <2> QED
    BY <1>1, <2>1 DEF WakeInv, WakeNotLost
<1> QED
  BY <1>1, <1>6, <1>7 DEF WakeInv

LEMMA SubmitReadWakeInv ==
  ASSUME IInv, WakeInv, NEW w \in Workers, SubmitRead(w)
  PROVE  WakeInv'
<1>1. worker[w].step = "read" /\ Holds(w) /\ TypeOK
  BY DEF SubmitRead, Holds, IInv
<1>2. worker[w] \in Job
  BY <1>1, BusyHasJob
<1> PICK a \in Accounts : a = worker[w].account
  BY <1>2 DEF Job
<1> PICK m : m = [kind |-> "read", event |-> Abandoned, by |-> w]
  OBVIOUS
<1> PICK j : j = [worker[w] EXCEPT !.step = "reading"]
  OBVIOUS
<1>3. /\ mailbox' = [mailbox EXCEPT ![a] = Append(@, m)] /\ worker' = [worker EXCEPT ![w] = j]
      /\ UNCHANGED <<pending, waking, scheduled, deferred, running>>
  BY DEF SubmitRead, Submit, files
<1>4. /\ mailbox'[a] = Append(mailbox[a], m)
      /\ \A c \in Accounts \ {a} : mailbox'[c] = mailbox[c]
      /\ worker'[w] = j /\ \A v \in Workers \ {w} : worker'[v] = worker[v]
  BY <1>1, <1>3 DEF TypeOK
<1>5. "reading" \in Steps
  BY DEF Steps
<1>6. j.step = "reading" /\ j.account = a /\ j.pages = worker[w].pages
  BY <1>2, <1>5, NextStep
<1>7. MailOrder(w)'
  <2>1. mailbox[a] \in Seq(Request) /\ m \in Request
    BY <1>1 DEF TypeOK, Request
  <2>2. Append(mailbox[a], m) # <<>> /\ Append(mailbox[a], m)[Len(Append(mailbox[a], m))] = m
    BY <2>1, AppendProperties
  <2> QED
    BY <1>4, <1>6, <2>2 DEF MailOrder
<1>8. Drains(w)'
  <2>1. Drains(w)
    BY <1>1 DEF WakeInv
  <2>2. DrainOK(worker[w], pending[a]) => DrainOK(j, pending[a])
    BY <1>1, <1>6 DEF DrainOK
  <2>3. Announced(a) => Announced(a)'
    BY <1>3 DEF Announced
  <2> QED
    BY <1>3, <1>4, <1>6, <2>1, <2>2, <2>3 DEF Drains
<1>9. Holds(w)'
  BY <1>4, <1>6 DEF Holds
<1> QED
  BY <1>1, <1>3, <1>4, <1>7, <1>8, <1>9, JobMoves

LEMMA SubmitAcknowledgeWakeInv ==
  ASSUME IInv, WakeInv, NEW w \in Workers, SubmitAcknowledge(w)
  PROVE  WakeInv'
<1>1. worker[w].step = "acknowledge" /\ Holds(w) /\ TypeOK
  BY DEF SubmitAcknowledge, Holds, IInv
<1>2. worker[w] \in Job
  BY <1>1, BusyHasJob
<1> PICK a \in Accounts : a = worker[w].account
  BY <1>2 DEF Job
<1> PICK m : m = [kind |-> "acknowledge", event |-> Head(worker[w].page), by |-> w]
  OBVIOUS
<1> PICK j : j = [worker[w] EXCEPT !.step = "acknowledging"]
  OBVIOUS
<1>3. /\ mailbox' = [mailbox EXCEPT ![a] = Append(@, m)] /\ worker' = [worker EXCEPT ![w] = j]
      /\ UNCHANGED <<pending, waking, scheduled, deferred, running>>
  BY DEF SubmitAcknowledge, Submit, files
<1>4. /\ mailbox'[a] = Append(mailbox[a], m)
      /\ \A c \in Accounts \ {a} : mailbox'[c] = mailbox[c]
      /\ worker'[w] = j /\ \A v \in Workers \ {w} : worker'[v] = worker[v]
  BY <1>1, <1>3 DEF TypeOK
<1>5. "acknowledging" \in Steps
  BY DEF Steps
<1>6. j.step = "acknowledging" /\ j.account = a /\ j.page = worker[w].page /\ j.pages = worker[w].pages
  BY <1>2, <1>5, NextStep
<1>7. MailOrder(w)'
  <2>1. mailbox[a] = <<>>
    BY <1>1 DEF WakeInv, MailOrder
  <2>2. <<>> \in Seq({m}) /\ Len(<<>>) = 0
    OBVIOUS
  <2>3. Len(Append(<<>>, m)) = 1 /\ Append(<<>>, m)[1] = m
    BY <2>2, AppendProperties
  <2>4. Len(mailbox'[a]) = 1 /\ mailbox'[a][1] = m
    BY <1>4, <2>1, <2>3
  <2>5. m.by = w /\ m.event = Head(worker[w].page)
    OBVIOUS
  <2>6. /\ worker'[w].step = "acknowledging" /\ worker'[w].account = a
        /\ worker'[w].page = worker[w].page
    BY <1>4, <1>6
  <2>7. Len(mailbox'[a]) = 1 /\ mailbox'[a][1].by = w /\ mailbox'[a][1].event = Head(worker'[w].page)
    BY <2>4, <2>5, <2>6
  <2> QED
    BY <2>6, <2>7 DEF MailOrder
<1>8. Drains(w)'
  <2>1. Drains(w)
    BY <1>1 DEF WakeInv
  <2>2. DrainOK(worker[w], pending[a]) => DrainOK(j, pending[a])
    BY <1>1, <1>6 DEF DrainOK
  <2>3. Announced(a) => Announced(a)'
    BY <1>3 DEF Announced
  <2> QED
    BY <1>3, <1>4, <1>6, <2>1, <2>2, <2>3 DEF Drains
<1>9. Holds(w)'
  BY <1>4, <1>6 DEF Holds
<1> QED
  BY <1>1, <1>3, <1>4, <1>7, <1>8, <1>9, JobMoves

LEMMA ConsumeWakeInv ==
  ASSUME IInv, WakeInv, NEW w \in Workers, Consume(w)
  PROVE  WakeInv'
<1>1. worker[w].step = "consume" /\ Holds(w) /\ TypeOK
  BY DEF Consume, Holds, IInv
<1>2. worker[w] \in Job
  BY <1>1, BusyHasJob
<1> PICK a \in Accounts : a = worker[w].account
  BY <1>2 DEF Job
<1> PICK j : j = [worker[w] EXCEPT !.step = "acknowledge"]
  OBVIOUS
<1>3. /\ worker' = [worker EXCEPT ![w] = j]
      /\ UNCHANGED <<pending, mailbox, waking, scheduled, deferred, running>>
  BY DEF Consume, ApplyOnce, files
<1>4. worker'[w] = j /\ \A v \in Workers \ {w} : worker'[v] = worker[v]
  BY <1>1, <1>3 DEF TypeOK
<1>5. "acknowledge" \in Steps
  BY DEF Steps
<1>6. j.step = "acknowledge" /\ j.account = a /\ j.page = worker[w].page /\ j.pages = worker[w].pages
  BY <1>2, <1>5, NextStep
<1>7. MailOrder(w)'
  <2>1. mailbox[a] = <<>>
    BY <1>1 DEF WakeInv, MailOrder
  <2> QED
    BY <1>3, <1>4, <1>6, <2>1 DEF MailOrder
<1>8. Drains(w)'
  <2>1. Drains(w)
    BY <1>1 DEF WakeInv
  <2>2. DrainOK(worker[w], pending[a]) => DrainOK(j, pending[a])
    BY <1>1, <1>6 DEF DrainOK
  <2>3. Announced(a) => Announced(a)'
    BY <1>3 DEF Announced
  <2> QED
    BY <1>3, <1>4, <1>6, <2>1, <2>2, <2>3 DEF Drains
<1>9. Holds(w)'
  BY <1>4, <1>6 DEF Holds
<1> QED
  BY <1>1, <1>3, <1>4, <1>7, <1>8, <1>9, JobMoves

\* A delivery that fails owes nothing.
LEMMA FailedMoves ==
  ASSUME IInv, WakeInv, NEW w \in Workers, Holds(w),
         UNCHANGED <<scheduled, running, waking, deferred, pending>>,
         \A c \in Accounts \ {worker[w].account} : mailbox'[c] = mailbox[c],
         worker' = [worker EXCEPT ![w].step = "failed"]
  PROVE  WakeInv'
<1>1. worker[w] \in Job /\ "failed" \in Steps
  BY BusyHasJob DEF Holds, IInv, Steps
<1> PICK j : j = [worker[w] EXCEPT !.step = "failed"]
  OBVIOUS
<1>2. worker'[w] = j /\ \A v \in Workers \ {w} : worker'[v] = worker[v]
  BY DEF IInv, TypeOK
<1>3. worker'[w].step = "failed"
  <2>1. j.step = "failed"
    BY <1>1, NextStep
  <2> QED
    BY <1>2, <2>1
<1>4. Holds(w)' /\ MailOrder(w)' /\ Drains(w)'
  BY <1>3 DEF Holds, MailOrder, Drains, DrainOK
<1> QED
  BY <1>2, <1>4, JobMoves

LEMMA ConsumeFailsWakeInv ==
  ASSUME IInv, WakeInv, NEW w \in Workers, NEW durable \in BOOLEAN, ConsumeFails(w, durable)
  PROVE  WakeInv'
<1>1. Holds(w) /\ worker' = [worker EXCEPT ![w].step = "failed"]
  BY DEF ConsumeFails, StopsAtError, Holds
<1>2. UNCHANGED <<pending, mailbox, waking, scheduled, deferred, running>>
  BY DEF ConsumeFails, ApplyOnce, files
<1> QED
  BY <1>1, <1>2, FailedMoves

LEMMA GiveUpWakeInv ==
  ASSUME IInv, WakeInv, NEW w \in Workers, GiveUp(w)
  PROVE  WakeInv'
<1>1. Holds(w) /\ worker' = [worker EXCEPT ![w].step = "failed"]
  BY DEF GiveUp, Holds
<1>2. UNCHANGED <<pending, waking, scheduled, deferred, running>>
  BY DEF GiveUp, files
<1>3. \A c \in Accounts \ {worker[w].account} : mailbox'[c] = mailbox[c]
  BY DEF GiveUp, IInv, TypeOK
<1> QED
  BY <1>1, <1>2, <1>3, FailedMoves

\* The worker gives its account back: to itself when it was woken again, to the
\* scan when it failed, and otherwise with an empty outbox.
LEMMA FinishWakeInv ==
  ASSUME IInv, WakeInv, NEW w \in Workers, Finish(w)
  PROVE  WakeInv'
<1>1. /\ worker[w].step \in {"done", "failed"} /\ Holds(w) /\ TypeOK
      /\ UNCHANGED <<pending, mailbox, waking, running>>
  BY DEF Finish, Holds, IInv, files
<1>2. worker[w] \in Job
  BY <1>1, BusyHasJob DEF Holds
<1> PICK a \in Accounts : a = worker[w].account
  BY <1>2 DEF Job
<1> PICK j : j = IF scheduled[a] /\ worker[w].step # "failed"
                 THEN [worker[w] EXCEPT !.step = "rewake"] ELSE Idle
  OBVIOUS
<1>3. worker' = [worker EXCEPT ![w] = j]
  BY DEF Finish
<1>4. /\ scheduled' = [b \in DOMAIN scheduled \ {a} |-> scheduled[b]]
      /\ deferred' = IF worker[w].step = "failed" THEN deferred \cup {a} ELSE deferred
  BY DEF Finish
<1>5. worker'[w] = j /\ \A v \in Workers \ {w} : worker'[v] = worker[v]
  BY <1>1, <1>3 DEF TypeOK
<1>6. /\ j.step \in {"idle", "rewake"}
      /\ scheduled[a] /\ worker[w].step # "failed" => j.step = "rewake" /\ j.account = a
  <2>1. "rewake" \in Steps
    BY DEF Steps
  <2> QED
    BY <1>2, <2>1, NextStep DEF Idle
<1>7. a \in DOMAIN scheduled /\ scheduled[a] \in BOOLEAN
  BY <1>1 DEF IInv, Dispatched, HeldIsScheduled, TypeOK
<1>8. ASSUME NEW v \in Workers, Holds(v)'
      PROVE  MailOrder(v)' /\ Drains(v)'
  <2>1. v # w /\ worker'[v] = worker[v] /\ Holds(v) /\ MailOrder(v) /\ Drains(v)
    BY <1>5, <1>6, <1>8 DEF Holds, WakeInv
  <2>2. worker[v] \in Job
    BY <1>1, <2>1, BusyHasJob DEF Holds
  <2> PICK b \in Accounts : b = worker[v].account
    BY <2>2 DEF Job
  <2>3. b # a
    BY <1>1, <2>1 DEF IInv, Dispatched, OneDelivery, Holds
  <2>4. Announced(b) => Announced(b)'
    BY <1>1, <1>4, <2>3 DEF Announced
  <2> QED
    BY <1>1, <2>1, <2>4, Undisturbed
<1>9. WakeNotLost'
  <2> SUFFICES ASSUME NEW c \in Accounts, pending[c] # <<>>
               PROVE  \/ c \in DOMAIN scheduled' \cup waking' \cup deferred'
                      \/ \E v \in Workers : worker'[v].step = "rewake" /\ worker'[v].account = c
    BY <1>1 DEF WakeNotLost
  <2>1. CASE c = a
    <3>1. CASE worker[w].step = "failed"
      BY <1>4, <2>1, <3>1
    <3>2. CASE worker[w].step # "failed" /\ scheduled[a] = TRUE
      BY <1>5, <1>6, <2>1, <3>2
    <3>3. CASE worker[w].step # "failed" /\ scheduled[a] # TRUE
      <4>1. Drains(w) /\ worker[w].step = "done"
        BY <1>1, <3>3 DEF WakeInv
      <4>2. Announced(a)
        BY <2>1, <4>1 DEF Drains, DrainOK
      <4> QED
        BY <1>1, <1>4, <2>1, <3>3, <4>2 DEF Announced
    <3> QED
      BY <3>1, <3>2, <3>3
  <2>2. CASE c # a
    <3>1. CASE c \in DOMAIN scheduled \cup waking \cup deferred
      BY <1>1, <1>4, <2>2, <3>1
    <3>2. CASE \E v \in Workers : worker[v].step = "rewake" /\ worker[v].account = c
      BY <1>1, <1>5, <3>2
    <3> QED
      BY <3>1, <3>2 DEF WakeInv, WakeNotLost
  <2> QED
    BY <2>1, <2>2
<1>10. ~running' => deferred' = Accounts
  BY <1>1, <1>4 DEF WakeInv
<1> QED
  BY <1>1, <1>8, <1>9, <1>10 DEF WakeInv

-----------------------------------------------------------------------------
(* The requests and the wake *)

\* Between two pages a shorter outbox is drained as well.
LEMMA DrainSmaller ==
  ASSUME NEW j \in Job, NEW p \in Seq(Ids), NEW q \in Seq(Ids), DrainOK(j, p), Len(q) <= Len(p),
         j.step \in {"read", "reading", "done", "failed"}
  PROVE  DrainOK(j, q)
<1>1. CASE j.step \in {"read", "reading"}
  <2> PICK x : x = j.pages * PageSize
    OBVIOUS
  <2>1. j.pages \in Nat /\ PageSize \in Nat /\ MaxPending \in Nat
    BY DeliveryAssumption, PagesAreSome DEF Job
  <2>2. x \in Nat
    BY <2>1
  <2>3. Len(p) + x <= MaxPending
    BY <1>1 DEF DrainOK
  <2>4. Len(q) + x <= MaxPending
    BY <2>1, <2>2, <2>3
  <2> QED
    BY <1>1, <2>4 DEF DrainOK
<1>2. CASE j.step = "done"
  <2>1. Len(p) = 0 /\ Len(q) \in Nat
    BY <1>2 DEF DrainOK
  <2>2. q = <<>>
    BY <2>1, EmptySeq
  <2> QED
    BY <1>2, <2>2 DEF DrainOK
<1>3. CASE j.step = "failed"
  BY <1>3 DEF DrainOK
<1> QED
  BY <1>1, <1>2, <1>3

\* What a request in the mailbox says of the step of its account's delivery.
LEMMA MailExcludes ==
  ASSUME NEW a \in Accounts, mailbox[a] # <<>>, NEW v \in Workers,
         Holds(v), worker[v] \in Job, worker[v].account = a, MailOrder(v)
  PROVE  worker[v].step \in {"read", "reading", "acknowledging", "done", "failed"}
BY DEF MailOrder, Holds, Job, Steps

LEMMA OneLess ==
  ASSUME NEW n \in Nat \ {0}, n # 1, NEW k, k = n - 1
  PROVE  k \in 1..k /\ k + 1 = n /\ k # 0
OBVIOUS

\* An abandoned request is executed before the one that is awaited.
LEMMA AbandonedHead ==
  ASSUME IInv, NEW a \in Accounts, mailbox[a] # <<>>, Head(mailbox[a]).by = Abandoned,
         mailbox'[a] = Tail(mailbox[a]), NEW v \in Workers, Holds(v), worker[v].account = a,
         MailOrder(v), worker'[v] = worker[v]
  PROVE  /\ MailOrder(v)' /\ worker[v] \in Job
         /\ worker[v].step \in {"read", "reading", "done", "failed"}
<1> PICK s \in Seq(Request) : s = mailbox[a]
  BY DEF IInv, TypeOK
<1>1. Len(s) \in Nat \ {0} /\ Head(s) = s[1] /\ s # <<>>
  BY EmptySeq
<1> PICK t : t = Tail(s)
  OBVIOUS
<1>2. /\ t \in Seq(Request) /\ Len(t) = Len(s) - 1
      /\ \A i \in 1..Len(t) : t[i] = s[i + 1]
  <2>1. /\ Tail(s) \in Seq(Request) /\ Len(Tail(s)) = Len(s) - 1
        /\ \A i \in 1..Len(Tail(s)) : Tail(s)[i] = s[i + 1]
    BY <1>1, HeadTailProperties, Zenon
  <2> QED
    BY <2>1, Zenon
<1>3. s[1].by = Abandoned /\ v # Abandoned
  BY <1>1, DeliveryAssumption DEF Abandoned
<1>4. worker[v] \in Job
  BY BusyHasJob DEF Holds, IInv
<1>5. worker[v].step \in {"read", "reading", "done", "failed"}
  <2>1. worker[v].step # "acknowledging"
    BY <1>3 DEF MailOrder
  <2> QED
    BY <1>4, <2>1, MailExcludes
<1>6. worker[v].step = "reading" => t # <<>> /\ t[Len(t)].by = v
  <2> SUFFICES ASSUME worker[v].step = "reading" PROVE t # <<>> /\ t[Len(t)].by = v
    OBVIOUS
  <2>1. s[Len(s)].by = v
    BY DEF MailOrder
  <2>2. Len(s) # 1
    BY <1>3, <2>1
  <2> PICK n \in Nat \ {0} : n = Len(s)
    BY <1>1
  <2> PICK k : k = Len(t)
    OBVIOUS
  <2>3. k = n - 1 /\ n # 1
    BY <1>2, <2>2, Zenon
  <2>4. k \in 1..k /\ k + 1 = n /\ k # 0
    BY <2>3, OneLess, Zenon
  <2>5. t[k] = s[k + 1] /\ k + 1 = Len(s)
    <3>1. k \in 1..Len(t)
      BY <2>4, Zenon
    <3>2. t[k] = s[k + 1]
      BY <1>2, <3>1, Zenon
    <3> QED
      BY <2>4, <3>2, Zenon
  <2>6. t # <<>>
    BY <2>4
  <2> QED
    BY <2>1, <2>5, <2>6, Zenon
<1>7. MailOrder(v)'
  BY <1>5, <1>6 DEF MailOrder
<1> QED
  BY <1>4, <1>5, <1>7

\* A request that is awaited is alone in the mailbox when it is executed.
LEMMA AwaitedHead ==
  ASSUME IInv, WakeInv, NEW a \in Accounts, mailbox[a] # <<>>,
         NEW w \in Workers, Head(mailbox[a]).by = w
  PROVE  /\ Holds(w) /\ worker[w] \in Job /\ worker[w].account = a
         /\ worker[w].step = Waiting(Head(mailbox[a]).kind)
         /\ Tail(mailbox[a]) = <<>>
         /\ worker[w].step = "acknowledging" => Head(mailbox[a]).event = Head(worker[w].page)
<1> PICK s \in Seq(Request) : s = mailbox[a]
  BY DEF IInv, TypeOK
<1>1. Len(s) \in Nat \ {0} /\ Head(s) = s[1] /\ s # <<>> /\ DOMAIN s = 1..Len(s) /\ s[1] \in Request
  BY EmptySeq
<1>2. s[1].by = w /\ 1 \in DOMAIN s /\ Len(s) \in DOMAIN s
  BY <1>1
<1>3. /\ worker[w].step = Waiting(s[1].kind) /\ worker[w].account = a
      /\ \A k \in DOMAIN s : s[k].by = w => k = 1
  BY <1>2 DEF IInv, MailIsAwaited
<1>4. worker[w].step \in {"reading", "acknowledging"}
  BY <1>3 DEF Waiting
<1>5. Holds(w) /\ worker[w] \in Job
  BY <1>4, BusyHasJob DEF Holds, IInv
<1>6. MailOrder(w)
  BY <1>5 DEF WakeInv
<1>7. Len(s) = 1
  BY <1>2, <1>3, <1>4, <1>6 DEF MailOrder
<1>8. Tail(s) \in Seq(Request) /\ Len(Tail(s)) = 0
  BY <1>1, <1>7, HeadTailProperties
<1>9. Tail(s) = <<>>
  BY <1>8, EmptySeq
<1>10. worker[w].step = "acknowledging" => s[1].event = Head(worker[w].page)
  BY <1>3, <1>6 DEF MailOrder
<1> QED
  BY <1>1, <1>3, <1>5, <1>9, <1>10

\* A page is the beginning of the outbox, and all of it unless it is full.
LEMMA PageDrains ==
  ASSUME NEW a \in Accounts, pending[a] \in Seq(Ids), NEW i \in Job, NEW j \in Job,
         i.step = "reading", DrainOK(i, pending[a]), j.page = Page(a), j.pages = i.pages,
         j.step = IF pending[a] = <<>> THEN "done" ELSE "consume"
  PROVE  DrainOK(j, pending[a])
<1> PICK p \in Seq(Ids) : p = pending[a]
  OBVIOUS
<1>1. Len(p) \in Nat /\ PageSize \in Nat \ {0} /\ MaxPending \in Nat /\ i.pages \in Nat
  BY DeliveryAssumption, PagesAreSome DEF Job
<1> PICK n \in Nat : n = IF Len(p) < PageSize THEN Len(p) ELSE PageSize
  BY <1>1
<1>2. n <= Len(p) /\ (n = Len(p) \/ n = PageSize)
  BY <1>1
<1>3. Page(a) = SubSeq(p, 1, n)
  BY DEF Page
<1>4. Len(Page(a)) = n /\ \A k \in 1..n : Page(a)[k] = p[k]
  <2>1. \A k \in 1..n : 1 + k - 1 = k
    OBVIOUS
  <2>2. n - 1 + 1 = n /\ (1 <= n \/ n = 0)
    OBVIOUS
  <2> QED
    BY <1>2, <1>3, <2>1, <2>2, SubSeqProperties
<1>5. n = Len(p) \/ Len(p) + (i.pages + 1) * PageSize <= MaxPending + n
  <2> PICK x : x = i.pages * PageSize
    OBVIOUS
  <2>1. x \in Nat /\ (i.pages + 1) * PageSize = x + PageSize
    BY <1>1, SMTT(30)
  <2>2. Len(p) + x <= MaxPending
    BY DEF DrainOK
  <2> QED
    BY <1>1, <1>2, <2>1, <2>2
<1>6. CASE p = <<>>
  BY <1>6 DEF DrainOK
<1>7. CASE p # <<>>
  <2>1. j.step = "consume"
    BY <1>7
  <2> QED
    BY <1>2, <1>4, <1>5, <2>1 DEF DrainOK
<1> QED
  BY <1>6, <1>7

LEMMA ExecuteReadWakeInv ==
  ASSUME IInv, WakeInv, NEW a \in Accounts, ExecuteRead(a)
  PROVE  WakeInv'
<1> PICK r : r = Head(mailbox[a])
  OBVIOUS
<1>1. /\ mailbox[a] # <<>> /\ r.kind = "read" /\ r \in Request
      /\ mailbox'[a] = Tail(mailbox[a]) /\ \A c \in Accounts \ {a} : mailbox'[c] = mailbox[c]
      /\ UNCHANGED <<pending, waking, scheduled, deferred, running>>
      /\ TypeOK /\ deferred \subseteq Accounts /\ pending[a] \in Seq(Ids)
  BY HeadTailProperties DEF ExecuteRead, files, IInv, TypeOK
<1>2. CASE r.by = Abandoned
  <2>1. UNCHANGED worker
    BY <1>2 DEF ExecuteRead, Waits
  <2>2. ASSUME NEW v \in Workers, Holds(v), worker[v].account = a
        PROVE  Holds(v)' /\ MailOrder(v)' /\ Drains(v)'
    <3>1. MailOrder(v) /\ Drains(v)
      BY <2>2 DEF WakeInv
    <3>2. MailOrder(v)'
      BY <1>1, <1>2, <2>1, <2>2, <3>1, AbandonedHead
    <3>3. Drains(v)'
      BY <1>1, <2>1, <3>1 DEF Drains, DrainOK, Announced
    <3> QED
      BY <2>1, <2>2, <3>2, <3>3 DEF Holds
  <2>3. OutboxOK(pending'[a])
    BY <1>1 DEF WakeInv
  <2> QED
    BY <1>1, <2>1, <2>2, <2>3, AccountMoves
<1>3. CASE r.by # Abandoned
  <2> PICK w \in Workers : w = r.by
    BY <1>1, <1>3 DEF Request
  <2>1. /\ Holds(w) /\ worker[w] \in Job /\ worker[w].account = a /\ worker[w].step = "reading"
        /\ mailbox'[a] = <<>>
    BY <1>1, AwaitedHead DEF Waiting
  <2> PICK s : s = IF pending[a] = <<>> THEN "done" ELSE "consume"
    OBVIOUS
  <2> PICK j : j = [worker[w] EXCEPT !.page = Page(a), !.step = s]
    OBVIOUS
  <2>2. worker' = [worker EXCEPT ![w] = j]
    BY <1>3 DEF ExecuteRead, Waits
  <2>3. j.step = s /\ j.account = a /\ j.page = Page(a) /\ j.pages = worker[w].pages
    BY <2>1 DEF Job
  <2>4. worker'[w] = j /\ \A v \in Workers \ {w} : worker'[v] = worker[v]
    BY <1>1, <2>2 DEF TypeOK
  <2>5. j \in Job
    <3>1. TypeOK'
      BY ExecuteReadIInv DEF IInv
    <3>2. j \in Job \cup {Idle}
      BY <2>4, <3>1 DEF TypeOK
    <3>3. j.step # "idle"
      BY <2>3
    <3> QED
      BY <3>2, <3>3 DEF Idle
  <2>6. MailOrder(w)'
    BY <2>1, <2>3, <2>4 DEF MailOrder
  <2>7. Drains(w)'
    <3>1. Drains(w)
      BY <2>1 DEF WakeInv
    <3>2. DrainOK(worker[w], pending[a]) => DrainOK(j, pending[a])
      BY <1>1, <2>1, <2>3, <2>5, PageDrains
    <3>3. Announced(a) => Announced(a)'
      BY <1>1 DEF Announced
    <3> QED
      BY <1>1, <2>1, <2>3, <2>4, <3>1, <3>2, <3>3 DEF Drains
  <2>8. Holds(w)'
    BY <2>3, <2>4 DEF Holds
  <2> QED
    BY <1>1, <2>1, <2>4, <2>6, <2>7, <2>8, JobMoves
<1> QED
  BY <1>2, <1>3

\* The page and the outbox lose the same row; behind the last page of a
\* delivery nothing is left.
LEMMA AcknowledgedDrains ==
  ASSUME NEW w \in Workers, worker[w] \in Job, worker[w].step = "acknowledging",
         worker[w].page # <<>>, worker[w].pages < MaxPages,
         NEW p \in Seq(Ids), NEW q \in Seq(Ids), DrainOK(worker[w], p),
         Len(q) = Len(p) - 1, \A i \in 1..(Len(p) - 1) : q[i] = p[i + 1]
  PROVE  DrainOK(AfterAcknowledge(w), q)
<1> PICK j \in Job : j = worker[w]
  OBVIOUS
<1> PICK g \in Seq(Ids) : g = j.page
  BY DEF Job
<1>9. PICK t : t = Tail(g)
  OBVIOUS
<1> PICK n : n = j.pages
  OBVIOUS
<1>1. /\ Len(g) \in Nat \ {0} /\ Len(p) \in Nat /\ n \in Nat /\ n < MaxPages
      /\ PageSize \in Nat \ {0} /\ MaxPending \in Nat /\ MaxPages \in Nat
  BY EmptySeq, DeliveryAssumption, PagesAreSome DEF Job
<1>2. /\ t \in Seq(Ids) /\ Len(t) = Len(g) - 1 /\ \A i \in 1..(Len(g) - 1) : t[i] = g[i + 1]
  <2>1. /\ Tail(g) \in Seq(Ids) /\ Len(Tail(g)) = Len(g) - 1
        /\ \A i \in 1..Len(Tail(g)) : Tail(g)[i] = g[i + 1]
    BY HeadTailProperties, Zenon
  <2> QED
    BY <1>9, <2>1, Zenon
<1>3. /\ Len(g) <= Len(p) /\ \A i \in 1..Len(g) : g[i] = p[i]
      /\ Len(g) = Len(p) \/ Len(p) + (n + 1) * PageSize <= MaxPending + Len(g)
  BY DEF DrainOK
<1>8. PICK x \in Nat : x = (n + 1) * PageSize
  BY <1>1, SMTT(30)
<1> PICK lp \in Nat, lg \in Nat \ {0} : lp = Len(p) /\ lg = Len(g)
  BY <1>1
<1>6. /\ lg <= lp /\ (lg = lp \/ lp + x <= MaxPending + lg)
      /\ Len(q) = lp - 1 /\ Len(t) = lg - 1
  BY <1>2, <1>3, <1>8
<1>7. MaxPending \in Nat /\ (lg - 1 = lp - 1 \/ (lp - 1) + x <= MaxPending + (lg - 1))
  BY <1>1, <1>6
<1>4. CASE t # <<>>
  <2>1. AfterAcknowledge(w) = [j EXCEPT !.page = t, !.step = "consume"]
    BY <1>4, <1>9 DEF AfterAcknowledge
  <2> PICK k : k = AfterAcknowledge(w)
    OBVIOUS
  <2>2. k.step = "consume" /\ k.page = t /\ k.pages = n
    BY <2>1 DEF Job
  <2>3. Len(t) <= Len(q)
    BY <1>1, <1>2, <1>3
  <2>4. ASSUME NEW i \in 1..Len(t) PROVE t[i] = q[i]
    <3>1. i \in 1..(Len(g) - 1) /\ i \in 1..(Len(p) - 1) /\ i + 1 \in 1..Len(g)
      BY <1>1, <1>2, <1>3
    <3> QED
      BY <1>2, <1>3, <3>1
  <2>5. Len(t) = Len(q) \/ Len(q) + x <= MaxPending + Len(t)
    BY <1>6, <1>7, Zenon
  <2> QED
    BY <1>8, <2>2, <2>3, <2>4, <2>5 DEF DrainOK
<1>5. CASE t = <<>>
  <2>8. PICK s : s = IF n + 1 = MaxPages THEN "done" ELSE "read"
    OBVIOUS
  <2>1. AfterAcknowledge(w) = [j EXCEPT !.page = t, !.pages = n + 1, !.step = s]
    BY <1>5, <1>9, <2>8 DEF AfterAcknowledge
  <2> PICK k : k = AfterAcknowledge(w)
    OBVIOUS
  <2>2. k.step = s /\ k.pages = n + 1
    <3>1. j \in [step : Steps, account : Accounts, page : Seq(Ids), pages : 0..MaxPages]
      BY DEF Job
    <3>2. [j EXCEPT !.page = t, !.pages = n + 1, !.step = s].step = s
      BY <3>1
    <3>3. [j EXCEPT !.page = t, !.pages = n + 1, !.step = s].pages = n + 1
      BY <3>1
    <3> QED
      BY <2>1, <3>2, <3>3, Zenon
  <2>3. lg - 1 = 0
    <3>1. Len(t) = 0
      BY <1>5
    <3> QED
      BY <1>6, <3>1
  <2>9. PICK lq \in Nat : lq = lp - 1
    BY <1>6
  <2>4. lq = 0 \/ lq + x <= MaxPending
    <3>1. lg - 1 = lq \/ lq + x <= MaxPending + (lg - 1)
      BY <1>7, <2>9, Zenon
    <3>2. lq = 0 \/ lq + x <= MaxPending + 0
      BY <2>3, <3>1, Zenon
    <3>3. MaxPending + 0 = MaxPending
      BY <1>7
    <3> QED
      BY <3>2, <3>3, Zenon
  <2>5. Len(q) \in Nat /\ Len(q) = lq /\ (Len(q) = 0 \/ Len(q) + x <= MaxPending)
    BY <1>6, <2>4, <2>9, Zenon
  <2>6. CASE n + 1 = MaxPages
    <3>1. x > MaxPending
      BY <1>8, <2>6, PagesCover
    <3>2. Len(q) = 0
      BY <1>1, <2>5, <3>1
    <3>3. q = <<>> /\ s = "done"
      BY <2>6, <2>8, <3>2, EmptySeq
    <3> QED
      BY <2>2, <3>3 DEF DrainOK
  <2>7. CASE n + 1 # MaxPages
    <3>1. n + 1 \in Nat /\ n + 1 < MaxPages
      BY <1>1, <2>7
    <3>2. x <= MaxPending
      BY <1>8, <3>1, PagesCover, Zenon
    <3>3. Len(q) + x <= MaxPending /\ s = "read"
      BY <1>1, <2>5, <2>7, <2>8, <3>2
    <3> QED
      BY <1>8, <2>2, <3>3 DEF DrainOK
  <2> QED
    BY <2>6, <2>7
<1> QED
  BY <1>4, <1>5

LEMMA ExecuteAcknowledgeWakeInv ==
  ASSUME IInv, WakeInv, NEW a \in Accounts, ExecuteAcknowledge(a)
  PROVE  WakeInv'
<1> PICK r : r = Head(mailbox[a])
  OBVIOUS
<1>1. /\ mailbox[a] # <<>> /\ r.kind = "acknowledge" /\ r \in Request
      /\ mailbox'[a] = Tail(mailbox[a]) /\ \A c \in Accounts \ {a} : mailbox'[c] = mailbox[c]
      /\ UNCHANGED <<waking, scheduled, deferred, running>>
      /\ TypeOK /\ deferred \subseteq Accounts /\ pending[a] \in Seq(Ids)
  BY HeadTailProperties DEF ExecuteAcknowledge, IInv, TypeOK
<1>2. pending'[a] = Without(a, r.event) /\ \A c \in Accounts \ {a} : pending'[c] = pending[c]
  BY <1>1 DEF ExecuteAcknowledge, TypeOK
<1>3. OutboxOK(pending[a])
  BY DEF WakeInv
<1>4. OutboxOK(pending'[a]) /\ pending'[a] \in Seq(Ids) /\ Len(pending'[a]) <= Len(pending[a])
  BY <1>1, <1>2, <1>3, WithoutIsOK
<1>5. pending'[a] # <<>> => pending[a] # <<>>
  <2>1. pending[a] = <<>> => Len(pending[a]) = 0
    OBVIOUS
  <2>2. Len(pending'[a]) \in Nat
    BY <1>4
  <2> QED
    BY <1>4, <2>1, <2>2, EmptySeq
<1>6. ASSUME NEW v \in Workers, Holds(v), worker[v].account = a
      PROVE  MailOrder(v) /\ Drains(v) /\ worker[v] \in Job /\ (r.by \in Workers => v = r.by)
  <2>1. MailOrder(v) /\ Drains(v)
    BY <1>6 DEF WakeInv
  <2>2. worker[v] \in Job
    BY <1>1, <1>6, BusyHasJob DEF Holds
  <2>3. r.by \in Workers => v = r.by
    <3>1. r.by \in Workers => Holds(r.by) /\ worker[r.by].account = a
      BY <1>1, AwaitedHead
    <3> QED
      BY <1>6, <3>1 DEF IInv, Dispatched, OneDelivery, Holds
  <2> QED
    BY <2>1, <2>2, <2>3
<1>7. CASE r.by = Abandoned
  <2>1. UNCHANGED worker
    BY <1>7 DEF ExecuteAcknowledge, Waits
  <2>2. ASSUME NEW v \in Workers, Holds(v), worker[v].account = a
        PROVE  Holds(v)' /\ MailOrder(v)' /\ Drains(v)'
    <3>1. MailOrder(v)' /\ worker[v].step \in {"read", "reading", "done", "failed"}
      BY <1>1, <1>6, <1>7, <2>1, <2>2, AbandonedHead
    <3> PICK j \in Job : j = worker[v]
      BY <1>6, <2>2
    <3> PICK q \in Seq(Ids) : q = pending'[a]
      BY <1>4
    <3>2. DrainOK(j, pending[a]) => DrainOK(j, q)
      BY <1>1, <1>4, <3>1, DrainSmaller
    <3>3. Drains(v)'
      BY <1>1, <1>6, <2>1, <2>2, <3>2 DEF Drains, Announced
    <3> QED
      BY <2>1, <2>2, <3>1, <3>3 DEF Holds
  <2> QED
    BY <1>1, <1>2, <1>4, <1>5, <2>1, <2>2, AccountMoves
<1>8. CASE r.by # Abandoned
  <2> PICK w \in Workers : w = r.by
    BY <1>1, <1>8 DEF Request
  <2>1. /\ Holds(w) /\ worker[w] \in Job /\ worker[w].account = a /\ worker[w].step = "acknowledging"
        /\ mailbox'[a] = <<>> /\ r.event = Head(worker[w].page)
    BY <1>1, AwaitedHead DEF Waiting
  <2> PICK j : j = AfterAcknowledge(w)
    OBVIOUS
  <2>2. worker' = [worker EXCEPT ![w] = j]
    BY <1>8 DEF ExecuteAcknowledge, Waits
  <2>3. j.account = a /\ j.step \in {"consume", "done", "read"}
    BY <2>1, AfterAcknowledgeIsJob
  <2>4. worker'[w] = j /\ \A v \in Workers \ {w} : worker'[v] = worker[v]
    BY <1>1, <2>2 DEF TypeOK
  <2>5. Holds(w)' /\ MailOrder(w)'
    BY <2>1, <2>3, <2>4 DEF Holds, MailOrder
  <2>6. Drains(w)'
    <3> SUFFICES ASSUME ~Announced(a)' PROVE DrainOK(j, pending'[a])
      BY <2>3, <2>4 DEF Drains
    <3> PICK p \in Seq(Ids) : p = pending[a]
      BY <1>1
    <3> PICK g \in Seq(Ids) : g = worker[w].page
      BY <2>1 DEF Job
    <3>1. DrainOK(worker[w], p)
      BY <1>1, <1>6, <2>1 DEF Drains, Announced
    <3>2. g # <<>> /\ worker[w].pages < MaxPages
      BY <2>1 DEF IInv, PagesArePublished, JobOK
    <3>3. Len(g) \in Nat \ {0} /\ Head(g) = g[1] /\ Len(p) \in Nat
      BY <3>2, EmptySeq
    <3>4. Len(g) <= Len(p) /\ \A i \in 1..Len(g) : g[i] = p[i]
      BY <2>1, <3>1 DEF DrainOK
    <3>5. Head(g) = p[1] /\ p # <<>>
      BY <3>3, <3>4
    <3>6. /\ Len(pending'[a]) = Len(p) - 1
          /\ \A i \in 1..(Len(p) - 1) : pending'[a][i] = p[i + 1]
      BY <1>1, <1>2, <1>3, <2>1, <3>5, WithoutFirst
    <3> PICK q \in Seq(Ids) : q = pending'[a]
      BY <1>4
    <3> QED
      BY <2>1, <3>1, <3>2, <3>6, AcknowledgedDrains
  <2>7. ASSUME NEW v \in Workers, Holds(v), worker[v].account = a
        PROVE  Holds(v)' /\ MailOrder(v)' /\ Drains(v)'
    BY <1>6, <2>5, <2>6, <2>7
  <2>8. \A v \in Workers : ~(Holds(v) /\ worker[v].account = a) => worker'[v] = worker[v]
    BY <2>1, <2>4
  <2> QED
    BY <1>1, <1>2, <1>4, <1>5, <2>7, <2>8, AccountMoves
<1> QED
  BY <1>7, <1>8

LEMMA RequestFailsWakeInv ==
  ASSUME IInv, WakeInv, NEW a \in Accounts, NEW durable \in BOOLEAN, RequestFails(a, durable)
  PROVE  WakeInv'
<1>1. /\ mailbox[a] # <<>> /\ UNCHANGED <<waking, scheduled, deferred, running>>
      /\ TypeOK /\ deferred \subseteq Accounts /\ pending[a] \in Seq(Ids) /\ RuntimeFails(a)
  BY DEF RequestFails, IInv, TypeOK
<1>2. /\ pending'[a] = Without(a, Head(mailbox[a]).event) \/ pending'[a] = pending[a]
      /\ \A c \in Accounts \ {a} : pending'[c] = pending[c]
  <2>1. CASE durable
    BY <1>1, <2>1 DEF RequestFails, TypeOK
  <2>2. CASE ~durable
    BY <2>2 DEF RequestFails
  <2> QED
    BY <2>1, <2>2
<1>3. OutboxOK(pending'[a]) /\ pending'[a] \in Seq(Ids) /\ Len(pending'[a]) <= Len(pending[a])
  <2>1. OutboxOK(pending[a]) /\ Len(pending[a]) \in Nat
    BY <1>1 DEF WakeInv
  <2>2. CASE pending'[a] = pending[a]
    BY <1>1, <2>1, <2>2
  <2>3. CASE pending'[a] = Without(a, Head(mailbox[a]).event)
    BY <1>1, <2>1, <2>3, WithoutIsOK
  <2> QED
    BY <1>2, <2>2, <2>3
<1>4. pending'[a] # <<>> => pending[a] # <<>>
  <2>1. pending[a] = <<>> => Len(pending[a]) = 0
    OBVIOUS
  <2>2. Len(pending'[a]) \in Nat
    BY <1>3
  <2> QED
    BY <1>3, <2>1, <2>2, EmptySeq
<1>5. /\ \A c \in Accounts \ {a} : mailbox'[c] = mailbox[c]
      /\ \A v \in Workers : ~(Holds(v) /\ worker[v].account = a) => worker'[v] = worker[v]
      /\ \A v \in Workers : Holds(v) /\ worker[v].account = a =>
           /\ Holds(v)' /\ MailOrder(v)' /\ worker'[v].account = a
           /\ \/ worker'[v].step = "failed"
              \/ worker'[v] = worker[v] /\ worker[v].step \notin {"reading", "acknowledging"}
  BY <1>1, FailureMoves
<1>6. ASSUME NEW v \in Workers, Holds(v), worker[v].account = a
      PROVE  Drains(v)'
  <2>1. CASE worker'[v].step = "failed"
    BY <2>1 DEF Drains, DrainOK
  <2>2. CASE worker'[v] = worker[v] /\ worker[v].step \notin {"reading", "acknowledging"}
    <3> PICK j \in Job : j = worker[v]
      BY <1>1, <1>6, BusyHasJob DEF Holds
    <3>1. MailOrder(v) /\ Drains(v)
      BY <1>6 DEF WakeInv
    <3>2. j.step \in {"read", "reading", "done", "failed"}
      BY <1>1, <1>6, <2>2, <3>1, MailExcludes
    <3> PICK q \in Seq(Ids) : q = pending'[a]
      BY <1>3
    <3>3. DrainOK(j, pending[a]) => DrainOK(j, q)
      BY <1>1, <1>3, <3>2, DrainSmaller
    <3> QED
      BY <1>1, <1>6, <2>2, <3>1, <3>3 DEF Drains, Announced
  <2> QED
    BY <1>5, <1>6, <2>1, <2>2
<1> QED
  BY <1>1, <1>2, <1>3, <1>4, <1>5, <1>6, AccountMoves

LEMMA StepWakeInv == IInv /\ WakeInv /\ [Next]_vars => WakeInv'
<1> SUFFICES ASSUME IInv, WakeInv, [Next]_vars PROVE WakeInv'
  OBVIOUS
<1>0. TypeOK /\ deferred \subseteq Accounts
  BY DEF IInv, TypeOK
<1>1. ASSUME NEW a \in Accounts, NEW id \in Ids, CommandPublishes(a, id) PROVE WakeInv'
  BY <1>1, CommandPublishesWakeInv
<1>2. ASSUME NEW a \in Accounts, NEW id \in Ids, CommandPublishesUnreported(a, id) PROVE WakeInv'
  BY <1>2, CommandPublishesUnreportedWakeInv
<1>3. ASSUME NEW a \in Accounts, CommandWakes(a) PROVE WakeInv'
  BY <1>3, CommandWakesWakeInv
<1>4. ASSUME NEW a \in Accounts, ExecuteRead(a) PROVE WakeInv'
  BY <1>4, ExecuteReadWakeInv
<1>5. ASSUME NEW a \in Accounts, ExecuteAcknowledge(a) PROVE WakeInv'
  BY <1>5, ExecuteAcknowledgeWakeInv
<1>6. ASSUME NEW a \in Accounts, NEW durable \in BOOLEAN, RequestFails(a, durable) PROVE WakeInv'
  BY <1>6, RequestFailsWakeInv
<1>7. ASSUME NEW w \in Workers, TakeAccount(w) PROVE WakeInv'
  BY <1>7, TakeAccountWakeInv
<1>8. ASSUME NEW w \in Workers, SubmitRead(w) PROVE WakeInv'
  BY <1>8, SubmitReadWakeInv
<1>9. ASSUME NEW w \in Workers, SubmitAcknowledge(w) PROVE WakeInv'
  BY <1>9, SubmitAcknowledgeWakeInv
<1>10. ASSUME NEW w \in Workers, Consume(w) PROVE WakeInv'
  BY <1>10, ConsumeWakeInv
<1>11. ASSUME NEW w \in Workers, NEW durable \in BOOLEAN, ConsumeFails(w, durable) PROVE WakeInv'
  BY <1>11, ConsumeFailsWakeInv
<1>12. ASSUME NEW w \in Workers, GiveUp(w) PROVE WakeInv'
  BY <1>12, GiveUpWakeInv
<1>13. ASSUME NEW w \in Workers, Finish(w) PROVE WakeInv'
  BY <1>13, FinishWakeInv
<1>14. ASSUME NEW w \in Workers, Rewake(w) PROVE WakeInv'
  BY <1>14, RewakeWakeInv
<1>15. CASE ScanStarts \/ ScanFails
  BY <1>0, <1>15, QuietWakeInv DEF ScanStarts, ScanFails, files, WakeInv
<1>16. CASE ScanStep
  BY <1>16, ScanStepWakeInv
<1>17. CASE Close
  BY <1>0, <1>17, QuietWakeInv DEF Close, files
<1>18. CASE Crash \/ Restart
  BY <1>18, StartWakeInv DEF Crash, Restart
<1>19. CASE UNCHANGED vars
  BY <1>0, <1>19, QuietWakeInv DEF vars, files, dispatch, WakeInv
<1> QED
  BY <1>1, <1>2, <1>3, <1>4, <1>5, <1>6, <1>7, <1>8, <1>9, <1>10, <1>11, <1>12, <1>13, <1>14,
     <1>15, <1>16, <1>17, <1>18, <1>19 DEF Next

\* An event of the outbox is always looked for: a delivery that ends without
\* error has emptied the outbox, unless it was told to run again, so that the
\* scan has only to find what failed, was dropped or was left by a restart.
THEOREM WakeIsNotLost == Spec => []WakeNotLost
<1>1. Init => IInv /\ WakeInv
  BY InitIInv, InitWakeInv
<1>2. IInv /\ WakeInv /\ [Next]_vars => (IInv /\ WakeInv)'
  BY StepIInv, StepWakeInv
<1>3. WakeInv => WakeNotLost
  BY DEF WakeInv
<1> QED
  BY <1>1, <1>2, <1>3, PTL DEF Spec

-----------------------------------------------------------------------------
(* The log of an account.  What took effect is the beginning of what was     *)
(* published and what is pending is its end; a page, an acknowledgement and  *)
(* the outbox itself are at known places of it, so that the event a worker   *)
(* applies is the next one or one the shared file has.                       *)

\* How many events of an account were acknowledged.
Acknowledged(a) == Len(published[a]) - Len(pending[a])

\* Events are distinct; what took effect is the beginning of what was
\* published, what is pending is its end, and the two parts cover it.
LogOK(a) ==
  /\ \A i, k \in DOMAIN published[a] : published[a][i] = published[a][k] => i = k
  /\ Len(applied[a]) <= Len(published[a])
  /\ \A i \in 1..Len(applied[a]) : applied[a][i] = published[a][i]
  /\ inbox[a] = Range(applied[a])
  /\ Len(pending[a]) <= Len(published[a])
  /\ \A i \in 1..Len(pending[a]) : pending[a][i] = published[a][Acknowledged(a) + i]
  /\ Acknowledged(a) <= Len(applied[a])

\* An acknowledgement names the first pending event, or one that is pending no
\* longer.
AcknowledgementsInOrder(a) ==
  \A i \in DOMAIN mailbox[a] : mailbox[a][i].kind = "acknowledge" =>
    \E k \in 1..Len(published[a]) :
      k <= Acknowledged(a) + 1 /\ published[a][k] = mailbox[a][i].event

\* A page follows events that were acknowledged.
PageInOrder(j) ==
  \E o \in 0..Acknowledged(j.account) :
    /\ o + Len(j.page) <= Len(published[j.account])
    /\ \A i \in 1..Len(j.page) : j.page[i] = published[j.account][o + i]

LogInv ==
  /\ \A a \in Accounts : LogOK(a) /\ AcknowledgementsInOrder(a)
  /\ \A w \in Workers : worker[w].step # "idle" => PageInOrder(worker[w])

\* The log of an account only grows.
LogGrows(a) ==
  /\ Len(published[a]) <= Len(published'[a])
  /\ \A i \in 1..Len(published[a]) : published'[a][i] = published[a][i]
  /\ Acknowledged(a) <= Acknowledged(a)'

LogKept(a) == LogGrows(a) /\ LogOK(a)' /\ AcknowledgementsInOrder(a)'

LEMMA LogNumbers ==
  ASSUME TypeOK, NEW a \in Accounts
  PROVE  /\ Len(published[a]) \in Nat /\ Len(pending[a]) \in Nat /\ Len(applied[a]) \in Nat
         /\ Acknowledged(a) \in Int
<1>1. published[a] \in Seq(Ids) /\ pending[a] \in Seq(Ids) /\ applied[a] \in Seq(Ids)
  BY DEF TypeOK
<1>2. Len(published[a]) \in Nat /\ Len(pending[a]) \in Nat /\ Len(applied[a]) \in Nat
  BY <1>1
<1> QED
  BY <1>2 DEF Acknowledged

LEMMA NextLogNumbers ==
  ASSUME TypeOK', NEW a \in Accounts
  PROVE  /\ Len(published'[a]) \in Nat /\ Len(pending'[a]) \in Nat /\ Len(applied'[a]) \in Nat
         /\ Acknowledged(a)' \in Int
<1>1. published'[a] \in Seq(Ids) /\ pending'[a] \in Seq(Ids) /\ applied'[a] \in Seq(Ids)
  BY DEF TypeOK
<1>2. Len(published'[a]) \in Nat /\ Len(pending'[a]) \in Nat /\ Len(applied'[a]) \in Nat
  BY <1>1
<1> QED
  BY <1>2 DEF Acknowledged

LEMMA SameLog ==
  ASSUME TypeOK, LogInv, NEW a \in Accounts,
         published'[a] = published[a], pending'[a] = pending[a], applied'[a] = applied[a],
         inbox'[a] = inbox[a], mailbox'[a] = mailbox[a]
  PROVE  LogKept(a)
<1>1. Len(published[a]) \in Nat /\ Len(pending[a]) \in Nat
  BY DEF TypeOK
<1>2. Acknowledged(a)' = Acknowledged(a) /\ Acknowledged(a) \in Int
  BY <1>1 DEF Acknowledged
<1>3. LogGrows(a)
  BY <1>1, <1>2 DEF LogGrows
<1>4. LogOK(a)'
  BY <1>2 DEF LogInv, LogOK
<1>5. AcknowledgementsInOrder(a)'
  BY <1>2 DEF LogInv, AcknowledgementsInOrder
<1> QED
  BY <1>3, <1>4, <1>5 DEF LogKept

\* Where a page is in the log, it stays.
LEMMA PageStays ==
  ASSUME TypeOK, TypeOK', NEW j \in Job, PageInOrder(j), LogGrows(j.account)
  PROVE  PageInOrder(j)'
<1> PICK a \in Accounts : a = j.account
  BY DEF Job
<1> PICK g \in Seq(Ids) : g = j.page
  BY DEF Job
<1>1. PICK o \in 0..Acknowledged(a) :
        o + Len(g) <= Len(published[a]) /\ \A i \in 1..Len(g) : g[i] = published[a][o + i]
  BY DEF PageInOrder
<1>2. Len(published[a]) \in Nat /\ Len(published'[a]) \in Nat /\ Len(g) \in Nat
  <2>1. Len(g) \in Nat
    OBVIOUS
  <2> QED
    BY <2>1, LogNumbers, NextLogNumbers, Zenon
<1>3. Acknowledged(a) \in Int /\ Acknowledged(a)' \in Int
  BY LogNumbers, NextLogNumbers, Zenon
<1>4. /\ Len(published[a]) <= Len(published'[a]) /\ Acknowledged(a) <= Acknowledged(a)'
      /\ \A i \in 1..Len(published[a]) : published'[a][i] = published[a][i]
  BY DEF LogGrows
<1>5. o \in 0..Acknowledged(a)' /\ o + Len(g) <= Len(published'[a])
  BY <1>1, <1>2, <1>3, <1>4
<1>6. \A i \in 1..Len(g) : o + i \in 1..Len(published[a])
  BY <1>1, <1>2, <1>3
<1>7. \A i \in 1..Len(g) : g[i] = published'[a][o + i]
  BY <1>1, <1>4, <1>6
<1> QED
  BY <1>5, <1>7 DEF PageInOrder

\* Jobs keep their page, end, begin with an empty page, or are known to have
\* theirs in the log.
LEMMA LogMoves ==
  ASSUME TypeOK, TypeOK', LogInv, \A a \in Accounts : LogKept(a),
         \A w \in Workers :
           \/ worker'[w].step = "idle"
           \/ PageInOrder(worker[w])'
           \/ worker'[w].page = <<>>
           \/ /\ worker[w].step # "idle"
              /\ worker'[w].page = worker[w].page /\ worker'[w].account = worker[w].account
  PROVE  LogInv'
<1>1. ASSUME NEW w \in Workers, worker'[w].step # "idle"
      PROVE  PageInOrder(worker[w])'
  <2>0. worker'[w] \in Job
    BY <1>1 DEF TypeOK, Idle
  <2> PICK j \in Job : j = worker'[w]
    BY <2>0
  <2> PICK a \in Accounts : a = j.account
    BY DEF Job
  <2>1. CASE PageInOrder(worker[w])'
    BY <2>1
  <2>2. CASE worker'[w].page = <<>>
    <3>1. Len(published'[a]) \in Nat /\ Len(pending'[a]) \in Nat /\ Acknowledged(a)' \in Int
      BY NextLogNumbers, Zenon
    <3>2. Len(pending'[a]) <= Len(published'[a])
      BY DEF LogKept, LogOK
    <3>3. 0 \in 0..Acknowledged(a)' /\ Len(<<>>) = 0 /\ 0 + 0 <= Len(published'[a])
      BY <3>1, <3>2 DEF Acknowledged
    <3>4. \A i \in 1..Len(<<>>) : FALSE
      BY <3>3
    <3> QED
      BY <2>2, <3>3, <3>4 DEF PageInOrder
  <2>3. CASE /\ worker[w].step # "idle"
             /\ worker'[w].page = worker[w].page /\ worker'[w].account = worker[w].account
    <3>1. worker[w] \in Job /\ PageInOrder(worker[w])
      BY <2>3, BusyHasJob DEF LogInv
    <3>2. PageInOrder(j)
      BY <2>3, <3>1 DEF PageInOrder
    <3>3. LogGrows(j.account)
      BY DEF LogKept
    <3>4. PageInOrder(j)'
      BY <3>2, <3>3, PageStays
    <3> QED
      BY <3>4
  <2> QED
    BY <1>1, <2>1, <2>2, <2>3
<1> QED
  BY <1>1 DEF LogInv, LogKept

\* A mailbox that loses requests, or their senders, or is read.
LEMMA MailStays ==
  ASSUME TypeOK, TypeOK', NEW a \in Accounts, AcknowledgementsInOrder(a), LogGrows(a),
         \A i \in DOMAIN mailbox'[a] :
           \/ mailbox'[a][i].kind # "acknowledge"
           \/ \E m \in DOMAIN mailbox[a] : mailbox'[a][i].kind = mailbox[a][m].kind
                                        /\ mailbox'[a][i].event = mailbox[a][m].event
  PROVE  AcknowledgementsInOrder(a)'
<1>1. Len(published[a]) \in Nat /\ Len(published'[a]) \in Nat
  BY LogNumbers, NextLogNumbers, Zenon
<1>2. Acknowledged(a) \in Int /\ Acknowledged(a)' \in Int
  BY LogNumbers, NextLogNumbers, Zenon
<1> SUFFICES ASSUME NEW i \in DOMAIN mailbox'[a], mailbox'[a][i].kind = "acknowledge"
             PROVE  \E k \in 1..Len(published'[a]) :
                      k <= Acknowledged(a)' + 1 /\ published'[a][k] = mailbox'[a][i].event
  BY DEF AcknowledgementsInOrder
<1>3. PICK m \in DOMAIN mailbox[a] :
        mailbox'[a][i].kind = mailbox[a][m].kind /\ mailbox'[a][i].event = mailbox[a][m].event
  OBVIOUS
<1>4. PICK k \in 1..Len(published[a]) :
        k <= Acknowledged(a) + 1 /\ published[a][k] = mailbox[a][m].event
  BY <1>3 DEF AcknowledgementsInOrder
<1>5. /\ k \in 1..Len(published'[a]) /\ k <= Acknowledged(a)' + 1
      /\ published'[a][k] = published[a][k]
  BY <1>1, <1>2, <1>4 DEF LogGrows
<1> QED
  BY <1>3, <1>4, <1>5

\* What is behind the head of a sequence.
LEMMA TailElements ==
  ASSUME NEW S, NEW s \in Seq(S), s # <<>>, NEW i \in DOMAIN Tail(s)
  PROVE  i + 1 \in DOMAIN s /\ Tail(s)[i] = s[i + 1]
<1>1. PICK t : t = Tail(s)
  OBVIOUS
<1>2. Len(s) \in Nat \ {0} /\ DOMAIN s = 1..Len(s)
  BY EmptySeq
<1>3. t \in Seq(S) /\ Len(t) = Len(s) - 1 /\ \A k \in 1..Len(t) : t[k] = s[k + 1]
  BY <1>1, HeadTailProperties, Zenon
<1>4. DOMAIN t = 1..(Len(s) - 1)
  BY <1>3
<1> QED
  BY <1>1, <1>2, <1>3, <1>4

\* Publishing extends the log and the outbox by the same new event.
LEMMA PublishLog ==
  ASSUME TypeOK, TypeOK', LogInv, NEW a \in Accounts, NEW id \in Ids, Publish(a, id)
  PROVE  /\ LogGrows(a) /\ LogOK(a)'
         /\ \A c \in Accounts \ {a} : published'[c] = published[c] /\ pending'[c] = pending[c]
         /\ UNCHANGED published \/ published' = [published EXCEPT ![a] = Append(@, id)]
<1>1. LogOK(a) /\ UNCHANGED <<inbox, applied>>
  BY DEF LogInv, Publish
<1>2. CASE UNCHANGED <<published, pending>>
  <2>1. Acknowledged(a)' = Acknowledged(a) /\ Acknowledged(a) \in Int /\ Len(published[a]) \in Nat
    BY <1>2, LogNumbers DEF Acknowledged
  <2> QED
    BY <1>1, <1>2, <2>1 DEF LogOK, LogGrows
<1>3. CASE /\ ~WasPublished(a, id)
           /\ published' = [published EXCEPT ![a] = Append(@, id)]
           /\ pending' = [pending EXCEPT ![a] = Append(@, id)]
  <2>1. PICK s \in Seq(Ids), p \in Seq(Ids) : s = published[a] /\ p = pending[a]
    BY DEF TypeOK
  <2>2. /\ published'[a] = Append(s, id) /\ pending'[a] = Append(p, id)
        /\ \A c \in Accounts \ {a} : published'[c] = published[c] /\ pending'[c] = pending[c]
    BY <1>3, <2>1 DEF TypeOK
  <2>3. PICK n \in Nat, m \in Nat, l \in Nat : n = Len(s) /\ m = Len(p) /\ l = Len(applied[a])
    BY LogNumbers
  <2>4. /\ Len(Append(s, id)) = n + 1 /\ DOMAIN Append(s, id) = 1..(n + 1) /\ DOMAIN s = 1..n
        /\ Append(s, id)[n + 1] = id /\ \A i \in 1..n : Append(s, id)[i] = s[i]
    BY <2>3, AppendProperties
  <2>5. /\ Len(Append(p, id)) = m + 1
        /\ Append(p, id)[m + 1] = id /\ \A i \in 1..m : Append(p, id)[i] = p[i]
    BY <2>3, AppendProperties
  <2>6. /\ \A i, k \in 1..n : s[i] = s[k] => i = k
        /\ l <= n /\ \A i \in 1..l : applied[a][i] = s[i]
        /\ inbox[a] = Range(applied[a])
        /\ m <= n /\ \A i \in 1..m : p[i] = s[(n - m) + i]
        /\ n - m <= l /\ Acknowledged(a) = n - m
    BY <1>1, <2>1, <2>3, <2>4 DEF LogOK, Acknowledged
  <2>7. Acknowledged(a)' = (n + 1) - (m + 1) /\ (n + 1) - (m + 1) = n - m
    BY <2>2, <2>4, <2>5 DEF Acknowledged
  <2>8. \A i \in 1..n : s[i] # id
    BY <1>3, <2>1, <2>4 DEF WasPublished, Range
  <2>9. \A i, k \in 1..(n + 1) : Append(s, id)[i] = Append(s, id)[k] => i = k
    <3>1. \A i \in 1..(n + 1) : i \in 1..n \/ i = n + 1
      OBVIOUS
    <3> QED
      BY <2>4, <2>6, <2>8, <3>1
  <2>10. ASSUME NEW i \in 1..(m + 1)
         PROVE  Append(p, id)[i] = Append(s, id)[(n - m) + i]
    <3>1. CASE i \in 1..m
      <4>1. m <= n
        BY <2>6, Zenon
      <4>2. (n - m) + i \in 1..n
        BY <3>1, <4>1
      <4> QED
        BY <2>4, <2>5, <2>6, <3>1, <4>2, Zenon
    <3>2. CASE i = m + 1
      <4>1. (n - m) + (m + 1) = n + 1
        OBVIOUS
      <4> QED
        BY <2>4, <2>5, <3>2, <4>1, Zenon
    <3>3. i \in 1..m \/ i = m + 1
      OBVIOUS
    <3> QED
      BY <3>1, <3>2, <3>3
  <2>11. \A i \in 1..l : applied[a][i] = Append(s, id)[i]
    <3>1. \A i \in 1..l : i \in 1..n
      BY <2>6
    <3> QED
      BY <2>4, <2>6, <3>1
  <2>12. l <= n + 1 /\ m + 1 <= n + 1 /\ n <= n + 1
    BY <2>6
  <2>13. LogOK(a)'
    <3>1. \A i, k \in DOMAIN published'[a] : published'[a][i] = published'[a][k] => i = k
      BY <2>2, <2>4, <2>9
    <3>2. /\ Len(applied'[a]) = l /\ Len(published'[a]) = n + 1 /\ Len(pending'[a]) = m + 1
          /\ applied'[a] = applied[a] /\ inbox'[a] = inbox[a] /\ Acknowledged(a)' = n - m
      BY <1>1, <2>2, <2>3, <2>4, <2>5, <2>7
    <3>3. \A i \in 1..(m + 1) : pending'[a][i] = published'[a][(n - m) + i]
      BY <2>2, <2>10
    <3>4. \A i \in 1..l : applied'[a][i] = published'[a][i]
      BY <2>2, <2>11, <3>2
    <3> QED
      BY <2>6, <2>12, <3>1, <3>2, <3>3, <3>4 DEF LogOK
  <2>14. LogGrows(a)
    BY <2>1, <2>2, <2>3, <2>4, <2>6, <2>7, <2>12 DEF LogGrows
  <2> QED
    BY <1>3, <2>2, <2>13, <2>14
<1> QED
  BY <1>2, <1>3 DEF Publish

\* An acknowledgement takes away the first pending event, or none.
LEMMA AcknowledgeLog ==
  ASSUME TypeOK, TypeOK', LogInv, NEW a \in Accounts, OutboxOK(pending[a]),
         NEW k \in 1..Len(published[a]), k <= Acknowledged(a) + 1, published[a][k] \in inbox[a],
         pending'[a] = Without(a, published[a][k]),
         published'[a] = published[a], applied'[a] = applied[a], inbox'[a] = inbox[a]
  PROVE  LogGrows(a) /\ LogOK(a)' /\ k <= Acknowledged(a)'
<1>1. PICK s \in Seq(Ids), p \in Seq(Ids), q \in Seq(Ids) :
        s = published[a] /\ p = pending[a] /\ q = pending'[a]
  BY DEF TypeOK
<1>2. PICK n \in Nat, m \in Nat, l \in Nat : n = Len(s) /\ m = Len(p) /\ l = Len(applied[a])
  BY <1>1, LogNumbers
<1>3. /\ \A i, j \in 1..n : s[i] = s[j] => i = j
      /\ l <= n /\ \A i \in 1..l : applied[a][i] = s[i]
      /\ inbox[a] = Range(applied[a])
      /\ m <= n /\ \A i \in 1..m : p[i] = s[(n - m) + i]
      /\ n - m <= l /\ Acknowledged(a) = n - m
  <2>1. LogOK(a)
    BY DEF LogInv
  <2>2. DOMAIN s = 1..n
    BY <1>2
  <2> QED
    BY <1>1, <1>2, <2>1, <2>2 DEF LogOK, Acknowledged
<1>4. k \in 1..n /\ k <= (n - m) + 1 /\ s[k] \in inbox[a] /\ q = Without(a, s[k])
  BY <1>1, <1>2, <1>3
<1>5. k <= l
  <2>1. PICK i \in DOMAIN applied[a] : applied[a][i] = s[k]
    BY <1>3, <1>4 DEF Range
  <2>2. DOMAIN applied[a] = 1..l
    BY <1>2 DEF TypeOK
  <2>3. i \in 1..l /\ i \in 1..n
    BY <1>3, <2>2
  <2> QED
    BY <1>3, <1>4, <2>1, <2>3
<1>6. CASE k <= n - m
  <2>1. ASSUME NEW i \in 1..m PROVE p[i] # s[k]
    <3>1. (n - m) + i \in 1..n /\ (n - m) + i # k
      BY <1>3, <1>4, <1>6
    <3> QED
      BY <1>3, <1>4, <3>1
  <2>2. s[k] \notin Range(p)
    <3>1. DOMAIN p = 1..m
      BY <1>2
    <3> QED
      BY <2>1, <3>1 DEF Range
  <2>3. q = p
    BY <1>1, <1>4, <2>2 DEF Without
  <2>4. Acknowledged(a)' = Acknowledged(a)
    BY <1>1, <2>3 DEF Acknowledged
  <2>5. LogOK(a)'
    <3>1. LogOK(a)
      BY DEF LogInv
    <3>2. pending'[a] = pending[a]
      BY <1>1, <2>3
    <3> QED
      BY <2>4, <3>1, <3>2 DEF LogOK
  <2> QED
    BY <1>1, <1>2, <1>3, <1>6, <2>4, <2>5 DEF LogGrows
<1>7. CASE k = (n - m) + 1
  <2>1. m \in Nat \ {0} /\ 1 \in 1..m
    BY <1>4, <1>7
  <2>2. p[1] = s[k] /\ p # <<>>
    BY <1>2, <1>3, <1>7, <2>1
  <2>3. Len(q) = m - 1 /\ \A i \in 1..(m - 1) : q[i] = p[i + 1]
    BY <1>1, <1>2, <1>4, <2>2, WithoutFirst
  <2>4. Acknowledged(a)' = n - (m - 1) /\ n - (m - 1) = k
    <3>1. Acknowledged(a)' = n - (m - 1)
      BY <1>1, <1>2, <2>3, Zenon DEF Acknowledged
    <3>2. n - (m - 1) = (n - m) + 1
      OBVIOUS
    <3> QED
      BY <1>7, <3>1, <3>2, Zenon
  <2>5. \A i \in 1..(m - 1) : q[i] = s[k + i]
    <3>1. \A i \in 1..(m - 1) : i + 1 \in 1..m /\ (n - m) + (i + 1) = ((n - m) + 1) + i
      OBVIOUS
    <3> QED
      BY <1>3, <1>7, <2>3, <3>1, Zenon
  <2>6. m - 1 <= n /\ n - m <= k
    BY <1>3, <1>7
  <2>7. LogOK(a)'
    <3>1. \A i, j \in DOMAIN published'[a] : published'[a][i] = published'[a][j] => i = j
      BY DEF LogInv, LogOK
    <3>2. /\ Len(published'[a]) = n /\ Len(applied'[a]) = l /\ Len(pending'[a]) = m - 1
          /\ published'[a] = s /\ pending'[a] = q /\ Acknowledged(a)' = k
      BY <1>1, <1>2, <2>3, <2>4
    <3> QED
      BY <1>3, <1>5, <2>5, <2>6, <3>1, <3>2 DEF LogOK
  <2> QED
    BY <1>1, <1>2, <1>3, <1>4, <2>4, <2>6, <2>7 DEF LogGrows
<1>8. k <= n - m \/ k = (n - m) + 1
  <2>1. k \in 1..n /\ k <= (n - m) + 1
    BY <1>4, Zenon
  <2> QED
    BY <2>1
<1> QED
  BY <1>6, <1>7, <1>8

\* What is applied is the next event of the log.
LEMMA ApplyLog ==
  ASSUME TypeOK, TypeOK', LogInv, NEW a \in Accounts, NEW w \in Workers, worker[w] \in Job,
         worker[w].account = a, worker[w].step # "idle", worker[w].page # <<>>,
         ApplyOnce(a, Head(worker[w].page))
  PROVE  /\ LogGrows(a) /\ LogOK(a)'
         /\ \A c \in Accounts \ {a} : applied'[c] = applied[c] /\ inbox'[c] = inbox[c]
         /\ UNCHANGED <<published, pending>>
         /\ \/ UNCHANGED applied
            \/ /\ Len(applied[a]) < Len(published[a])
               /\ applied' = [applied EXCEPT ![a] = Append(@, published[a][Len(@) + 1])]
<1>0. LogOK(a) /\ PageInOrder(worker[w])
  BY DEF LogInv
<1>1. CASE UNCHANGED files
  <2>1. Acknowledged(a)' = Acknowledged(a) /\ Acknowledged(a) \in Int /\ Len(published[a]) \in Nat
    BY <1>1, LogNumbers DEF Acknowledged, files
  <2> QED
    BY <1>0, <1>1, <2>1 DEF LogOK, LogGrows, files
<1>2. CASE NotInInbox(a, Head(worker[w].page))
  <2>1. PICK s \in Seq(Ids), g \in Seq(Ids), t \in Seq(Ids) :
          s = published[a] /\ g = worker[w].page /\ t = applied[a]
    BY DEF TypeOK, Job
  <2>2. PICK n \in Nat, m \in Nat, l \in Nat : n = Len(s) /\ m = Len(pending[a]) /\ l = Len(t)
    BY <2>1, LogNumbers
  <2>3. PICK o \in 0..(n - m) : o + Len(g) <= n /\ \A i \in 1..Len(g) : g[i] = s[o + i]
    BY <1>0, <2>1, <2>2 DEF PageInOrder, Acknowledged
  <2>4. /\ l <= n /\ \A i \in 1..l : t[i] = s[i]
        /\ inbox[a] = Range(t) /\ n - m <= l /\ Acknowledged(a) = n - m
    BY <1>0, <2>1, <2>2 DEF LogOK, Acknowledged
  <2>5. Len(g) \in Nat \ {0} /\ 1 \in 1..Len(g) /\ Head(g) = g[1]
    BY <2>1, EmptySeq
  <2>6. Head(g) = s[o + 1] /\ o + 1 <= n
    BY <2>2, <2>3, <2>5
  <2>7. Head(g) \notin Range(t)
    BY <1>2, <2>1, <2>4 DEF NotInInbox
  <2>8. DOMAIN t = 1..l
    BY <2>2
  <2>9. o = l
    <3>1. o + 1 \notin 1..l
      BY <2>4, <2>6, <2>7, <2>8 DEF Range
    <3> QED
      BY <2>2, <2>3, <2>4, <3>1
  <2>10. Head(g) = s[l + 1] /\ l + 1 <= n /\ Head(g) \in Ids
    BY <2>1, <2>5, <2>6, <2>9
  <2>11. PICK e \in Ids : e = Head(g)
    BY <2>10
  <2>12. /\ inbox' = [inbox EXCEPT ![a] = @ \cup {e}]
         /\ applied' = [applied EXCEPT ![a] = Append(@, e)]
         /\ UNCHANGED <<published, pending>>
    BY <1>2, <2>1, <2>11 DEF ApplyOnce
  <2>13. /\ inbox'[a] = inbox[a] \cup {e} /\ applied'[a] = Append(t, e)
         /\ \A c \in Accounts \ {a} : applied'[c] = applied[c] /\ inbox'[c] = inbox[c]
    BY <2>1, <2>12 DEF TypeOK
  <2>14. /\ Len(Append(t, e)) = l + 1 /\ Range(Append(t, e)) = Range(t) \cup {e}
         /\ Append(t, e)[l + 1] = e /\ \A i \in 1..l : Append(t, e)[i] = t[i]
    BY <2>2, AppendProperties, AppendedRange
  <2>15. \A i \in 1..(l + 1) : Append(t, e)[i] = s[i]
    <3>1. \A i \in 1..(l + 1) : i \in 1..l \/ i = l + 1
      OBVIOUS
    <3> QED
      BY <2>4, <2>10, <2>11, <2>14, <3>1
  <2>16. Acknowledged(a)' = n - m /\ n - m <= l + 1
    <3>1. Acknowledged(a)' = Acknowledged(a)
      BY <2>12 DEF Acknowledged
    <3>2. Acknowledged(a) = n - m /\ n - m <= l
      BY <2>4, Zenon
    <3>3. n - m <= l => n - m <= l + 1
      OBVIOUS
    <3> QED
      BY <3>1, <3>2, <3>3, Zenon
  <2>17. LogOK(a)'
    <3>1. published'[a] = s /\ pending'[a] = pending[a] /\ Len(applied'[a]) = l + 1
      BY <2>1, <2>12, <2>13, <2>14
    <3>2. inbox'[a] = Range(applied'[a])
      BY <2>4, <2>13, <2>14
    <3>3. /\ \A i, k \in DOMAIN s : s[i] = s[k] => i = k
          /\ Len(pending[a]) <= Len(s)
          /\ \A i \in 1..Len(pending[a]) : pending[a][i] = s[(n - m) + i]
      BY <1>0, <2>1, <2>2 DEF LogOK, Acknowledged
    <3>4. \A i \in 1..(l + 1) : applied'[a][i] = s[i]
      BY <2>13, <2>15
    <3>5. /\ \A i, k \in DOMAIN published'[a] : published'[a][i] = published'[a][k] => i = k
          /\ Len(pending'[a]) <= Len(published'[a])
      BY <3>1, <3>3, Zenon
    <3>6. \A i \in 1..Len(pending'[a]) : pending'[a][i] = published'[a][Acknowledged(a)' + i]
      BY <2>16, <3>1, <3>3, Zenon
    <3>7. /\ Len(applied'[a]) <= Len(published'[a]) /\ Acknowledged(a)' <= Len(applied'[a])
          /\ \A i \in 1..Len(applied'[a]) : applied'[a][i] = published'[a][i]
      BY <2>2, <2>10, <2>16, <3>1, <3>4, Zenon
    <3> QED
      BY <3>2, <3>5, <3>6, <3>7, Zenon DEF LogOK
  <2>18. LogGrows(a)
    BY <2>2, <2>4, <2>12, <2>16 DEF LogGrows
  <2>19. /\ Len(applied[a]) < Len(published[a])
         /\ applied' = [applied EXCEPT ![a] = Append(@, published[a][Len(@) + 1])]
    <3>1. e = published[a][Len(applied[a]) + 1]
      BY <2>1, <2>2, <2>10, <2>11
    <3>2. Len(applied[a]) < Len(published[a])
      BY <2>1, <2>2, <2>10
    <3> QED
      BY <2>12, <3>1, <3>2
  <2> QED
    BY <2>12, <2>13, <2>17, <2>18, <2>19
<1> QED
  BY <1>1, <1>2 DEF ApplyOnce

-----------------------------------------------------------------------------
(* The log and the steps *)

LEMMA InitLogInv == Init => LogInv
<1> SUFFICES ASSUME Init PROVE LogInv
  OBVIOUS
<1>1. \A a \in Accounts : /\ published[a] = <<>> /\ pending[a] = <<>> /\ applied[a] = <<>>
                          /\ inbox[a] = {} /\ mailbox[a] = <<>>
  BY DEF Init
<1>2. ASSUME NEW a \in Accounts PROVE LogOK(a) /\ AcknowledgementsInOrder(a)
  <2>1. /\ Len(published[a]) = 0 /\ Len(pending[a]) = 0 /\ Len(applied[a]) = 0
        /\ DOMAIN published[a] = {} /\ DOMAIN mailbox[a] = {} /\ Range(applied[a]) = {}
    BY <1>1, EmptyRange
  <2>2. Acknowledged(a) = 0
    BY <2>1 DEF Acknowledged
  <2>3. \A i \in 1..0 : FALSE
    OBVIOUS
  <2>4. LogOK(a)
    BY <1>1, <2>1, <2>2, <2>3 DEF LogOK
  <2>5. AcknowledgementsInOrder(a)
    BY <2>1 DEF AcknowledgementsInOrder
  <2> QED
    BY <2>4, <2>5
<1>3. \A w \in Workers : worker[w].step = "idle"
  BY DEF Init, Idle
<1> QED
  BY <1>2, <1>3 DEF LogInv

\* The step leaves the page of the worker, empties it, or is known to take it
\* from the log.
PageKept(w) ==
  \/ worker'[w].step = "idle"
  \/ PageInOrder(worker[w])'
  \/ worker'[w].page = <<>>
  \/ /\ worker[w].step # "idle"
     /\ worker'[w].page = worker[w].page /\ worker'[w].account = worker[w].account

\* A step that leaves the files alone.
LEMMA QuietLog ==
  ASSUME TypeOK, TypeOK', LogInv, UNCHANGED files,
         \A a \in Accounts : AcknowledgementsInOrder(a)',
         \A w \in Workers : PageKept(w)
  PROVE  LogInv'
<1>1. ASSUME NEW a \in Accounts PROVE LogKept(a)
  <2>1. Acknowledged(a)' = Acknowledged(a) /\ Acknowledged(a) \in Int /\ Len(published[a]) \in Nat
    BY LogNumbers DEF Acknowledged, files
  <2>2. LogGrows(a)
    BY <2>1 DEF LogGrows, files
  <2>3. LogOK(a)'
    BY <2>1 DEF LogInv, LogOK, files
  <2> QED
    BY <2>2, <2>3 DEF LogKept
<1> QED
  BY <1>1, LogMoves DEF PageKept

\* A step that leaves the files alone and adds no acknowledgement.
LEMMA QuietMail ==
  ASSUME TypeOK, TypeOK', LogInv, UNCHANGED files,
         \A a \in Accounts : \A i \in DOMAIN mailbox'[a] :
           \/ mailbox'[a][i].kind # "acknowledge"
           \/ \E m \in DOMAIN mailbox[a] : mailbox'[a][i].kind = mailbox[a][m].kind
                                        /\ mailbox'[a][i].event = mailbox[a][m].event,
         \A w \in Workers : PageKept(w)
  PROVE  LogInv'
<1>1. ASSUME NEW a \in Accounts PROVE AcknowledgementsInOrder(a)'
  <2>1. Acknowledged(a)' = Acknowledged(a) /\ Acknowledged(a) \in Int /\ Len(published[a]) \in Nat
    BY LogNumbers DEF Acknowledged, files
  <2>2. LogGrows(a)
    BY <2>1 DEF LogGrows, files
  <2>3. AcknowledgementsInOrder(a)
    BY DEF LogInv
  <2> QED
    BY <2>2, <2>3, MailStays
<1> QED
  BY <1>1, QuietLog

\* One worker gets another job; its page is kept.
LEMMA OnePageKept ==
  ASSUME TypeOK, NEW w \in Workers, NEW j, worker' = [worker EXCEPT ![w] = j],
         \/ j.step = "idle" \/ j.page = <<>>
         \/ worker[w].step # "idle" /\ j.page = worker[w].page /\ j.account = worker[w].account
  PROVE  \A v \in Workers : PageKept(v)
<1>1. worker'[w] = j /\ \A v \in Workers \ {w} : worker'[v] = worker[v]
  BY DEF TypeOK
<1>2. PageKept(w)
  BY <1>1 DEF PageKept
<1>3. \A v \in Workers \ {w} : PageKept(v)
  BY <1>1 DEF PageKept
<1> QED
  BY <1>2, <1>3

LEMMA NewStepKeepsPage ==
  ASSUME TypeOK, NEW w \in Workers, NEW s \in Steps, worker[w].step # "idle",
         worker' = [worker EXCEPT ![w].step = s]
  PROVE  \A v \in Workers : PageKept(v)
<1>1. worker[w] \in Job
  BY BusyHasJob
<1>2. PICK j : j = [worker[w] EXCEPT !.step = s]
  OBVIOUS
<1>3. j.page = worker[w].page /\ j.account = worker[w].account
  BY <1>1, <1>2, NextStep
<1>4. worker' = [worker EXCEPT ![w] = j]
  BY <1>2 DEF TypeOK
<1> QED
  BY <1>3, <1>4, OnePageKept

LEMMA FailureKeepsPages ==
  ASSUME TypeOK, MailIsAwaited, NEW a \in Accounts, RuntimeFails(a)
  PROVE  /\ mailbox'[a] = <<>> /\ \A c \in Accounts \ {a} : mailbox'[c] = mailbox[c]
         /\ \A w \in Workers : PageKept(w)
<1>1. mailbox'[a] = <<>> /\ \A c \in Accounts \ {a} : mailbox'[c] = mailbox[c]
  BY DEF RuntimeFails, TypeOK
<1>2. ASSUME NEW w \in Workers PROVE PageKept(w)
  <2>1. CASE \E i \in DOMAIN mailbox[a] : mailbox[a][i].by = w
    <3>1. worker[w].step \in {"reading", "acknowledging"}
      BY <2>1 DEF MailIsAwaited, Waiting
    <3>2. worker[w] \in Job
      BY <3>1, BusyHasJob
    <3>3. worker'[w] = [worker[w] EXCEPT !.step = "failed"]
      BY <2>1 DEF RuntimeFails, Range
    <3>4. worker'[w].page = worker[w].page /\ worker'[w].account = worker[w].account
      BY <3>2, <3>3 DEF Job
    <3> QED
      BY <3>1, <3>4 DEF PageKept
  <2>2. CASE ~\E i \in DOMAIN mailbox[a] : mailbox[a][i].by = w
    <3>1. worker'[w] = worker[w]
      BY <2>2 DEF RuntimeFails, Range
    <3> QED
      BY <3>1 DEF PageKept
  <2> QED
    BY <2>1, <2>2
<1> QED
  BY <1>1, <1>2

LEMMA CommandPublishesLog ==
  ASSUME IInv, IInv', LogInv, NEW a \in Accounts, NEW id \in Ids, Publish(a, id),
         \A w \in Workers : PageKept(w),
         \A c \in Accounts \ {a} : mailbox'[c] = mailbox[c],
         mailbox'[a] = mailbox[a] \/ mailbox'[a] = <<>>
  PROVE  LogInv'
<1>1. TypeOK /\ TypeOK'
  BY DEF IInv
<1>2. /\ LogGrows(a) /\ LogOK(a)' /\ UNCHANGED <<inbox, applied>>
      /\ \A c \in Accounts \ {a} : published'[c] = published[c] /\ pending'[c] = pending[c]
  BY <1>1, PublishLog DEF Publish
<1>3. AcknowledgementsInOrder(a)'
  <2>1. AcknowledgementsInOrder(a)
    BY DEF LogInv
  <2>2. \A i \in DOMAIN mailbox'[a] : i \in DOMAIN mailbox[a] /\ mailbox'[a][i] = mailbox[a][i]
    OBVIOUS
  <2> QED
    BY <1>1, <1>2, <2>1, <2>2, MailStays
<1>4. \A c \in Accounts : LogKept(c)
  <2>1. LogKept(a)
    BY <1>2, <1>3 DEF LogKept
  <2>2. ASSUME NEW c \in Accounts \ {a} PROVE LogKept(c)
    BY <1>1, <1>2, SameLog
  <2> QED
    BY <2>1, <2>2
<1> QED
  BY <1>1, <1>4, LogMoves DEF PageKept

LEMMA ExecuteReadLog ==
  ASSUME IInv, IInv', LogInv, NEW a \in Accounts, ExecuteRead(a)
  PROVE  LogInv'
<1>1. PICK r : r = Head(mailbox[a])
  OBVIOUS
<1>2. /\ r.kind = "read" /\ r \in Request /\ mailbox'[a] = Tail(mailbox[a]) /\ mailbox[a] # <<>>
      /\ \A c \in Accounts \ {a} : mailbox'[c] = mailbox[c]
      /\ TypeOK /\ TypeOK' /\ UNCHANGED files
  BY <1>1, HeadTailProperties DEF ExecuteRead, IInv, TypeOK
<1>3. ASSUME NEW c \in Accounts, NEW i \in DOMAIN mailbox'[c]
      PROVE  \E m \in DOMAIN mailbox[c] : mailbox'[c][i] = mailbox[c][m]
  <2>1. CASE c = a
    BY <1>2, <1>3, <2>1, TailElements DEF TypeOK
  <2>2. CASE c # a
    BY <1>2, <1>3, <2>2
  <2> QED
    BY <2>1, <2>2
<1>4. CASE r.by = Abandoned
  <2>1. UNCHANGED worker
    BY <1>1, <1>4 DEF ExecuteRead, Waits
  <2> QED
    BY <1>2, <1>3, <2>1, QuietMail DEF PageKept
<1>5. CASE r.by # Abandoned
  <2>1. PICK w \in Workers : w = r.by
    BY <1>2, <1>5 DEF Request
  <2>2. worker[w].step = "reading" /\ worker[w].account = a /\ worker[w] \in Job
    <3>1. mailbox[a][1] = r /\ 1 \in DOMAIN mailbox[a]
      BY <1>1, <1>2, EmptySeq DEF TypeOK
    <3>2. worker[w].step = "reading" /\ worker[w].account = a
      BY <1>2, <2>1, <3>1 DEF IInv, MailIsAwaited, Waiting
    <3> QED
      BY <1>2, <3>2, BusyHasJob
  <2>3. PICK s : s = IF pending[a] = <<>> THEN "done" ELSE "consume"
    OBVIOUS
  <2>4. PICK j : j = [worker[w] EXCEPT !.page = Page(a), !.step = s]
    OBVIOUS
  <2>5. worker' = [worker EXCEPT ![w] = j]
    BY <1>1, <1>5, <2>1, <2>3, <2>4 DEF ExecuteRead, Waits
  <2>6. j.page = Page(a) /\ j.account = a
    BY <2>2, <2>4 DEF Job
  <2>7. worker'[w] = j /\ \A v \in Workers \ {w} : worker'[v] = worker[v]
    BY <1>2, <2>5 DEF TypeOK
  <2>8. PageInOrder(worker[w])'
    <3>1. PICK p \in Seq(Ids) : p = pending[a]
      BY <1>2 DEF TypeOK
    <3>2. PICK n \in Nat : n = IF Len(p) < PageSize THEN Len(p) ELSE PageSize
      BY <3>1, DeliveryAssumption
    <3>3. n <= Len(p)
      BY <3>1, <3>2, DeliveryAssumption
    <3>4. Page(a) = SubSeq(p, 1, n)
      BY <3>1, <3>2 DEF Page
    <3>5. Len(Page(a)) = n /\ \A i \in 1..n : Page(a)[i] = p[i]
      <4>1. \A i \in 1..n : 1 + i - 1 = i
        BY <3>2
      <4>2. n - 1 + 1 = n /\ (1 <= n \/ n = 0)
        BY <3>2
      <4> QED
        BY <3>1, <3>2, <3>3, <3>4, <4>1, <4>2, SubSeqProperties
    <3>6. LogOK(a) /\ Len(published[a]) \in Nat /\ Len(p) \in Nat
      BY <1>2, <3>1, LogNumbers DEF LogInv
    <3>7. PICK o \in Nat : o = Acknowledged(a) /\ o + Len(p) = Len(published[a])
      <4>1. Len(p) <= Len(published[a]) /\ Acknowledged(a) = Len(published[a]) - Len(p)
        BY <3>1, <3>6, Zenon DEF LogOK, Acknowledged
      <4>2. /\ Len(published[a]) - Len(p) \in Nat
            /\ (Len(published[a]) - Len(p)) + Len(p) = Len(published[a])
        BY <3>6, <4>1
      <4> QED
        BY <4>1, <4>2
    <3>8. \A i \in 1..n : i \in 1..Len(p)
      BY <3>2, <3>3, <3>6
    <3>9. \A i \in 1..n : Page(a)[i] = published[a][o + i]
      BY <3>1, <3>5, <3>6, <3>7, <3>8, Zenon DEF LogOK
    <3>10. o + n <= Len(published[a]) /\ o \in 0..o
      BY <3>2, <3>3, <3>6, <3>7
    <3>11. Acknowledged(a)' = Acknowledged(a) /\ published' = published
      BY <1>2 DEF Acknowledged, files
    <3>12. worker'[w].account = a /\ worker'[w].page = Page(a)
      BY <2>6, <2>7
    <3>13. o \in 0..Acknowledged(a)' /\ o + Len(Page(a)) <= Len(published'[a])
      BY <3>5, <3>7, <3>10, <3>11
    <3>14. \A i \in 1..Len(Page(a)) : Page(a)[i] = published'[a][o + i]
      BY <3>5, <3>9, <3>11
    <3> QED
      BY <3>12, <3>13, <3>14, Zenon DEF PageInOrder
  <2>9. \A v \in Workers : PageKept(v)
    BY <2>7, <2>8 DEF PageKept
  <2> QED
    BY <1>2, <1>3, <2>9, QuietMail
<1> QED
  BY <1>4, <1>5

LEMMA ExecuteAcknowledgeLog ==
  ASSUME IInv, IInv', WakeInv, LogInv, NEW a \in Accounts, ExecuteAcknowledge(a)
  PROVE  LogInv'
<1>1. PICK r : r = Head(mailbox[a])
  OBVIOUS
<1>2. /\ r.kind = "acknowledge" /\ r \in Request /\ r = mailbox[a][1] /\ 1 \in DOMAIN mailbox[a]
      /\ mailbox'[a] = Tail(mailbox[a]) /\ mailbox[a] # <<>>
      /\ \A c \in Accounts \ {a} : mailbox'[c] = mailbox[c]
      /\ TypeOK /\ TypeOK' /\ UNCHANGED <<published, applied, inbox>>
  <2>1. mailbox[a] \in Seq(Request) /\ mailbox[a] # <<>>
    BY DEF ExecuteAcknowledge, IInv, TypeOK
  <2>2. r \in Request /\ r = mailbox[a][1] /\ 1 \in DOMAIN mailbox[a]
    BY <1>1, <2>1, EmptySeq, HeadTailProperties
  <2> QED
    BY <1>1, <2>1, <2>2 DEF ExecuteAcknowledge, IInv, TypeOK
<1>3. PICK k \in 1..Len(published[a]) : k <= Acknowledged(a) + 1 /\ published[a][k] = r.event
  BY <1>2 DEF LogInv, AcknowledgementsInOrder
<1>4. published[a][k] \in inbox[a] /\ OutboxOK(pending[a])
  BY <1>2, <1>3 DEF IInv, MailIsAwaited, WakeInv
<1>5. /\ pending'[a] = Without(a, published[a][k])
      /\ \A c \in Accounts \ {a} : pending'[c] = pending[c]
  BY <1>1, <1>2, <1>3 DEF ExecuteAcknowledge, TypeOK
<1>6. LogGrows(a) /\ LogOK(a)' /\ k <= Acknowledged(a)'
  BY <1>2, <1>3, <1>4, <1>5, AcknowledgeLog
<1>7. ASSUME NEW c \in Accounts, NEW i \in DOMAIN mailbox'[c]
      PROVE  \E m \in DOMAIN mailbox[c] : mailbox'[c][i] = mailbox[c][m]
  <2>1. CASE c = a
    BY <1>2, <1>7, <2>1, TailElements DEF TypeOK
  <2>2. CASE c # a
    BY <1>2, <1>7, <2>2
  <2> QED
    BY <2>1, <2>2
<1>8. AcknowledgementsInOrder(a)'
  <2>1. AcknowledgementsInOrder(a)
    BY DEF LogInv
  <2> QED
    BY <1>2, <1>6, <1>7, <2>1, MailStays
<1>9. \A c \in Accounts : LogKept(c)
  <2>1. LogKept(a)
    BY <1>6, <1>8 DEF LogKept
  <2>2. ASSUME NEW c \in Accounts \ {a} PROVE LogKept(c)
    BY <1>2, <1>5, SameLog
  <2> QED
    BY <2>1, <2>2
<1>10. CASE r.by = Abandoned
  <2>1. UNCHANGED worker
    BY <1>1, <1>10 DEF ExecuteAcknowledge, Waits
  <2> QED
    BY <1>2, <1>9, <2>1, LogMoves
<1>11. CASE r.by # Abandoned
  <2>1. PICK w \in Workers : w = r.by
    BY <1>2, <1>11 DEF Request
  <2>2. worker[w].step = "acknowledging" /\ worker[w].account = a /\ worker[w] \in Job
    <3>1. worker[w].step = "acknowledging" /\ worker[w].account = a
      BY <1>2, <2>1 DEF IInv, MailIsAwaited, Waiting
    <3> QED
      BY <1>2, <3>1, BusyHasJob
  <2>3. PICK j : j = AfterAcknowledge(w)
    OBVIOUS
  <2>4. worker' = [worker EXCEPT ![w] = j]
    BY <1>1, <1>11, <2>1, <2>3 DEF ExecuteAcknowledge, Waits
  <2>5. j.page = Tail(worker[w].page) /\ j.account = a
    BY <2>2, <2>3 DEF AfterAcknowledge, Job
  <2>6. worker'[w] = j /\ \A v \in Workers \ {w} : worker'[v] = worker[v]
    BY <1>2, <2>4 DEF TypeOK
  <2>7. PageInOrder(worker[w])'
    <3>1. PICK g \in Seq(Ids) : g = worker[w].page
      BY <2>2 DEF Job
    <3>2. g # <<>>
      BY <2>2, <3>1 DEF IInv, PagesArePublished, JobOK
    <3>3. Head(g) = published[a][k]
      BY <1>2, <1>3, <2>2, <3>1 DEF WakeInv, MailOrder, Holds
    <3>4. PICK n \in Nat, m \in Nat, l \in Nat :
            n = Len(published[a]) /\ m = Acknowledged(a) /\ l = Len(g)
      <4>1. Len(published[a]) \in Nat /\ Len(pending[a]) \in Nat /\ Len(pending[a]) <= Len(published[a])
        BY <1>2, LogNumbers DEF LogInv, LogOK
      <4>2. Len(published[a]) - Len(pending[a]) \in Nat /\ Len(g) \in Nat
        BY <4>1
      <4> QED
        BY <4>1, <4>2 DEF Acknowledged
    <3>5. PICK z \in Int : z = Acknowledged(a)'
      BY <1>2, NextLogNumbers
    <3>6. PICK o \in 0..m : o + l <= n /\ \A i \in 1..l : g[i] = published[a][o + i]
      BY <2>2, <3>1, <3>4, Zenon DEF LogInv, PageInOrder
    <3>7. l # 0 /\ Head(g) = g[1]
      BY <3>2, <3>4, EmptySeq
    <3>8. 1 \in 1..l /\ o + 1 \in 1..n
      BY <3>6, <3>7
    <3>9. published[a][o + 1] = published[a][k]
      BY <3>3, <3>6, <3>7, <3>8
    <3>10. o + 1 = k
      <4>1. DOMAIN published[a] = 1..n
        BY <1>2, <3>4 DEF TypeOK
      <4>2. \A i, p \in 1..n : published[a][i] = published[a][p] => i = p
        BY <4>1 DEF LogInv, LogOK
      <4> QED
        BY <1>3, <3>4, <3>8, <3>9, <4>2
    <3>11. PICK h \in Seq(Ids) : h = Tail(g)
      BY <3>2, HeadTailProperties
    <3>12. Len(h) = l - 1 /\ \A i \in 1..(l - 1) : h[i] = g[i + 1]
      <4>1. Len(h) = l - 1 /\ \A i \in 1..Len(h) : h[i] = g[i + 1]
        BY <3>2, <3>4, <3>11, HeadTailProperties, Zenon
      <4> QED
        BY <4>1
    <3>13. \A i \in 1..(l - 1) : h[i] = published[a][k + i]
      <4>1. \A i \in 1..(l - 1) : i + 1 \in 1..l /\ o + (i + 1) = (o + 1) + i
        OBVIOUS
      <4> QED
        BY <3>6, <3>10, <3>12, <4>1, Zenon
    <3>14. k \in 0..z /\ k + (l - 1) <= n
      <4>1. o + 1 <= z
        BY <1>6, <3>5, <3>10, Zenon
      <4>2. (o + 1) \in 0..z /\ (o + 1) + (l - 1) <= n
        BY <3>6, <4>1
      <4> QED
        BY <3>10, <4>2, Zenon
    <3>15. worker'[w].page = h /\ worker'[w].account = a
      BY <2>5, <2>6, <3>1, <3>11
    <3>16. k \in 0..Acknowledged(a)' /\ k + Len(h) <= Len(published'[a])
      BY <1>2, <3>4, <3>5, <3>12, <3>14
    <3>17. \A i \in 1..Len(h) : h[i] = published'[a][k + i]
      BY <1>2, <3>12, <3>13
    <3> QED
      BY <3>15, <3>16, <3>17, Zenon DEF PageInOrder
  <2>8. \A v \in Workers : PageKept(v)
    BY <2>6, <2>7 DEF PageKept
  <2> QED
    BY <1>2, <1>9, <2>8, LogMoves DEF PageKept
<1> QED
  BY <1>10, <1>11

LEMMA RequestFailsLog ==
  ASSUME IInv, IInv', WakeInv, LogInv, NEW a \in Accounts, NEW durable \in BOOLEAN,
         RequestFails(a, durable)
  PROVE  LogInv'
<1>1. PICK r : r = Head(mailbox[a])
  OBVIOUS
<1>2. /\ r \in Request /\ r = mailbox[a][1] /\ 1 \in DOMAIN mailbox[a]
      /\ TypeOK /\ TypeOK' /\ MailIsAwaited /\ UNCHANGED <<published, applied, inbox>> /\ RuntimeFails(a)
  <2>1. mailbox[a] \in Seq(Request) /\ mailbox[a] # <<>>
    BY DEF RequestFails, IInv, TypeOK
  <2>2. r \in Request /\ r = mailbox[a][1] /\ 1 \in DOMAIN mailbox[a]
    BY <1>1, <2>1, EmptySeq, HeadTailProperties
  <2> QED
    BY <2>2 DEF RequestFails, IInv
<1>3. /\ mailbox'[a] = <<>> /\ \A c \in Accounts \ {a} : mailbox'[c] = mailbox[c]
      /\ \A w \in Workers : PageKept(w)
  BY <1>2, FailureKeepsPages
<1>4. /\ pending'[a] = IF durable THEN Without(a, r.event) ELSE pending[a]
      /\ \A c \in Accounts \ {a} : pending'[c] = pending[c]
  BY <1>1, <1>2 DEF RequestFails, TypeOK
<1>5. LogGrows(a) /\ LogOK(a)'
  <2>1. CASE durable /\ r.kind = "acknowledge"
    <3>1. PICK k \in 1..Len(published[a]) : k <= Acknowledged(a) + 1 /\ published[a][k] = r.event
      BY <1>2, <2>1 DEF LogInv, AcknowledgementsInOrder
    <3>2. published[a][k] \in inbox[a] /\ OutboxOK(pending[a])
      BY <1>2, <2>1, <3>1 DEF MailIsAwaited, WakeInv
    <3> QED
      BY <1>2, <1>4, <2>1, <3>1, <3>2, AcknowledgeLog
  <2>2. CASE ~(durable /\ r.kind = "acknowledge")
    <3>1. pending'[a] = pending[a]
      <4>1. CASE ~durable
        BY <1>4, <4>1
      <4>2. CASE durable /\ r.kind # "acknowledge"
        <5>1. r.kind = "read" /\ r.event = Abandoned
          BY <1>2, <4>2 DEF Request, MailIsAwaited
        <5>2. Abandoned \notin Range(pending[a])
          BY <1>2, DeliveryAssumption DEF Abandoned, TypeOK, Range
        <5>3. Without(a, r.event) = pending[a]
          BY <5>1, <5>2 DEF Without
        <5> QED
          BY <1>4, <4>2, <5>3
      <4> QED
        BY <2>2, <4>1, <4>2
    <3>2. Acknowledged(a)' = Acknowledged(a) /\ Acknowledged(a) \in Int /\ Len(published[a]) \in Nat
      BY <1>2, <3>1, LogNumbers DEF Acknowledged
    <3>3. LogGrows(a)
      BY <1>2, <3>2 DEF LogGrows
    <3>4. LogOK(a)'
      BY <1>2, <3>1, <3>2 DEF LogInv, LogOK
    <3> QED
      BY <3>3, <3>4
  <2> QED
    BY <2>1, <2>2
<1>6. AcknowledgementsInOrder(a)'
  BY <1>3 DEF AcknowledgementsInOrder
<1>7. \A c \in Accounts : LogKept(c)
  <2>1. LogKept(a)
    BY <1>5, <1>6 DEF LogKept
  <2>2. ASSUME NEW c \in Accounts \ {a} PROVE LogKept(c)
    BY <1>2, <1>3, <1>4, SameLog
  <2> QED
    BY <2>1, <2>2
<1> QED
  BY <1>2, <1>3, <1>7, LogMoves DEF PageKept

\* The event that is applied is the first of the page.
LEMMA ConsumeLog ==
  ASSUME IInv, IInv', LogInv, NEW w \in Workers, NEW s \in Steps,
         worker[w].step = "consume", ApplyOnce(worker[w].account, Head(worker[w].page)),
         worker' = [worker EXCEPT ![w].step = s], UNCHANGED mailbox
  PROVE  LogInv'
<1>1. TypeOK /\ TypeOK' /\ worker[w] \in Job /\ worker[w].page # <<>>
  BY BusyHasJob DEF IInv, PagesArePublished, JobOK
<1>2. PICK a \in Accounts : a = worker[w].account
  BY <1>1 DEF Job
<1>3. /\ LogGrows(a) /\ LogOK(a)'
      /\ \A c \in Accounts \ {a} : applied'[c] = applied[c] /\ inbox'[c] = inbox[c]
      /\ UNCHANGED <<published, pending>>
  BY <1>1, <1>2, ApplyLog
<1>4. \A c \in Accounts : LogKept(c)
  <2>1. AcknowledgementsInOrder(a)'
    <3>1. AcknowledgementsInOrder(a)
      BY DEF LogInv
    <3> QED
      BY <1>1, <1>3, <3>1, MailStays
  <2>2. LogKept(a)
    BY <1>3, <2>1 DEF LogKept
  <2>3. ASSUME NEW c \in Accounts \ {a} PROVE LogKept(c)
    BY <1>1, <1>3, SameLog
  <2> QED
    BY <2>2, <2>3
<1>5. \A v \in Workers : PageKept(v)
  BY <1>1, NewStepKeepsPage
<1> QED
  BY <1>1, <1>4, <1>5, LogMoves DEF PageKept

LEMMA ConsumeFailsLog ==
  ASSUME IInv, IInv', LogInv, NEW w \in Workers, NEW durable \in BOOLEAN, ConsumeFails(w, durable)
  PROVE  LogInv'
<1>1. /\ worker[w].step = "consume" /\ worker' = [worker EXCEPT ![w].step = "failed"]
      /\ "failed" \in Steps /\ UNCHANGED mailbox /\ TypeOK /\ TypeOK'
  BY DEF ConsumeFails, StopsAtError, Steps, IInv
<1>2. CASE durable
  BY <1>1, <1>2, ConsumeLog DEF ConsumeFails
<1>3. CASE ~durable
  <2>1. UNCHANGED files
    BY <1>3 DEF ConsumeFails
  <2>2. \A v \in Workers : PageKept(v)
    BY <1>1, NewStepKeepsPage
  <2> QED
    BY <1>1, <2>1, <2>2, QuietMail
<1> QED
  BY <1>2, <1>3

\* The event a worker acknowledges is the first of its page.
LEMMA SubmitAcknowledgeLog ==
  ASSUME IInv, IInv', LogInv, NEW w \in Workers, SubmitAcknowledge(w)
  PROVE  LogInv'
<1>1. /\ TypeOK /\ TypeOK' /\ worker[w] \in Job /\ worker[w].page # <<>> /\ UNCHANGED files
      /\ worker' = [worker EXCEPT ![w].step = "acknowledging"] /\ "acknowledging" \in Steps
      /\ worker[w].step = "acknowledge"
  BY BusyHasJob DEF SubmitAcknowledge, Submit, IInv, PagesArePublished, JobOK, Steps
<1>2. PICK a \in Accounts, g \in Seq(Ids) : a = worker[w].account /\ g = worker[w].page
  BY <1>1 DEF Job
<1>3. PICK r : r = [kind |-> "acknowledge", event |-> Head(g), by |-> w]
  OBVIOUS
<1>4. mailbox' = [mailbox EXCEPT ![a] = Append(@, r)]
  BY <1>2, <1>3 DEF SubmitAcknowledge, Submit
<1>5. /\ mailbox'[a] = Append(mailbox[a], r) /\ mailbox[a] \in Seq(Request)
      /\ \A c \in Accounts \ {a} : mailbox'[c] = mailbox[c]
  BY <1>1, <1>4 DEF TypeOK
<1>6. PICK s \in Seq(Request) : s = mailbox[a]
  BY <1>5
<1>7. /\ Len(published[a]) \in Nat /\ Acknowledged(a) \in Int
      /\ \A c \in Accounts : Acknowledged(c)' = Acknowledged(c) /\ published'[c] = published[c]
  BY <1>1, LogNumbers DEF Acknowledged, files
<1>8. \E k \in 1..Len(published[a]) : k <= Acknowledged(a) + 1 /\ published[a][k] = r.event
  <2>1. PICK l \in Nat : l = Len(g)
    BY <1>2
  <2>2. PICK o \in 0..Acknowledged(a) :
          o + l <= Len(published[a]) /\ \A i \in 1..l : g[i] = published[a][o + i]
    BY <1>1, <1>2, <2>1 DEF LogInv, PageInOrder
  <2>3. l # 0 /\ Head(g) = g[1]
    BY <1>1, <1>2, <2>1, EmptySeq
  <2>4. 1 \in 1..l /\ o + 1 \in 1..Len(published[a]) /\ o + 1 <= Acknowledged(a) + 1
    BY <1>7, <2>1, <2>2, <2>3
  <2>5. r.event = published[a][o + 1]
    BY <1>3, <2>2, <2>3, <2>4
  <2> QED
    BY <2>4, <2>5
<1>9. AcknowledgementsInOrder(a)'
  <2>1. AcknowledgementsInOrder(a)
    BY DEF LogInv
  <2>2. ASSUME NEW i \in DOMAIN mailbox'[a], mailbox'[a][i].kind = "acknowledge"
        PROVE  \E k \in 1..Len(published[a]) :
                 k <= Acknowledged(a) + 1 /\ published[a][k] = mailbox'[a][i].event
    <3>1. (i \in DOMAIN s /\ mailbox'[a][i] = s[i]) \/ mailbox'[a][i] = r
      BY <1>5, <1>6
    <3>2. CASE i \in DOMAIN s /\ mailbox'[a][i] = s[i]
      BY <1>6, <2>1, <2>2, <3>2 DEF AcknowledgementsInOrder
    <3>3. CASE mailbox'[a][i] = r
      BY <1>8, <3>3
    <3> QED
      BY <3>1, <3>2, <3>3
  <2> QED
    BY <1>7, <2>2 DEF AcknowledgementsInOrder
<1>10. \A c \in Accounts : AcknowledgementsInOrder(c)'
  <2>1. ASSUME NEW c \in Accounts \ {a} PROVE AcknowledgementsInOrder(c)'
    <3>1. AcknowledgementsInOrder(c)
      BY DEF LogInv
    <3>2. /\ mailbox'[c] = mailbox[c] /\ published'[c] = published[c]
          /\ Acknowledged(c)' = Acknowledged(c)
      BY <1>5, <1>7
    <3> QED
      BY <3>1, <3>2 DEF AcknowledgementsInOrder
  <2> QED
    BY <1>9, <2>1
<1>11. \A v \in Workers : PageKept(v)
  BY <1>1, NewStepKeepsPage
<1> QED
  BY <1>1, <1>10, <1>11, QuietLog

\* The steps that leave the files alone and ask for no acknowledgement.
LEMMA SameMailboxLog ==
  ASSUME IInv, IInv', LogInv, UNCHANGED files, UNCHANGED mailbox,
         \A w \in Workers : PageKept(w)
  PROVE  LogInv'
BY QuietMail DEF IInv

LEMMA SameWorkersLog ==
  ASSUME IInv, IInv', LogInv, UNCHANGED files, UNCHANGED <<mailbox, worker>>
  PROVE  LogInv'
<1>1. \A w \in Workers : PageKept(w)
  BY DEF PageKept
<1> QED
  BY <1>1, SameMailboxLog

LEMMA TakeAccountLog ==
  ASSUME IInv, IInv', LogInv, NEW w \in Workers, TakeAccount(w)
  PROVE  LogInv'
<1>1. PICK j : j = Working(Head(queue), "read", <<>>, 0)
  OBVIOUS
<1>2. worker' = [worker EXCEPT ![w] = j] /\ j.page = <<>> /\ UNCHANGED files /\ UNCHANGED mailbox
  BY <1>1 DEF TakeAccount, Working
<1>3. \A v \in Workers : PageKept(v)
  BY <1>2, OnePageKept DEF IInv
<1> QED
  BY <1>2, <1>3, SameMailboxLog

LEMMA SubmitReadLog ==
  ASSUME IInv, IInv', LogInv, NEW w \in Workers, SubmitRead(w)
  PROVE  LogInv'
<1>1. /\ TypeOK /\ TypeOK' /\ worker[w].step = "read" /\ UNCHANGED files
      /\ worker' = [worker EXCEPT ![w].step = "reading"] /\ "reading" \in Steps
  BY DEF SubmitRead, Submit, IInv, Steps
<1>2. PICK r : r = [kind |-> "read", event |-> Abandoned, by |-> w]
  OBVIOUS
<1>3. mailbox' = [mailbox EXCEPT ![worker[w].account] = Append(@, r)] /\ r.kind # "acknowledge"
  BY <1>2 DEF SubmitRead, Submit
<1>4. ASSUME NEW a \in Accounts, NEW i \in DOMAIN mailbox'[a]
      PROVE  \/ mailbox'[a][i].kind # "acknowledge"
             \/ \E m \in DOMAIN mailbox[a] : mailbox'[a][i].kind = mailbox[a][m].kind
                                          /\ mailbox'[a][i].event = mailbox[a][m].event
  <2>1. mailbox'[a] = mailbox[a] \/ mailbox'[a] = Append(mailbox[a], r)
    BY <1>1, <1>3 DEF TypeOK
  <2>2. PICK s \in Seq(Request) : s = mailbox[a]
    BY <1>1 DEF TypeOK
  <2>3. (i \in DOMAIN s /\ mailbox'[a][i] = s[i]) \/ mailbox'[a][i] = r
    BY <1>4, <2>1, <2>2
  <2> QED
    BY <1>3, <2>2, <2>3
<1>5. \A v \in Workers : PageKept(v)
  BY <1>1, NewStepKeepsPage
<1> QED
  BY <1>1, <1>4, <1>5, QuietMail

LEMMA GiveUpLog ==
  ASSUME IInv, IInv', LogInv, NEW w \in Workers, GiveUp(w)
  PROVE  LogInv'
<1>1. /\ TypeOK /\ TypeOK' /\ worker[w].step # "idle" /\ UNCHANGED files
      /\ worker' = [worker EXCEPT ![w].step = "failed"] /\ "failed" \in Steps
  BY DEF GiveUp, IInv, Steps
<1>2. ASSUME NEW a \in Accounts, NEW i \in DOMAIN mailbox'[a]
      PROVE  \E m \in DOMAIN mailbox[a] : mailbox'[a][i].kind = mailbox[a][m].kind
                                       /\ mailbox'[a][i].event = mailbox[a][m].event
  <2>1. CASE mailbox'[a] = mailbox[a]
    BY <1>2, <2>1
  <2>2. CASE mailbox'[a] = [k \in DOMAIN mailbox[a] |->
               IF mailbox[a][k].by = w THEN [mailbox[a][k] EXCEPT !.by = Abandoned] ELSE mailbox[a][k]]
    <3>1. i \in DOMAIN mailbox[a] /\ mailbox[a][i] \in Request
      BY <1>1, <1>2, <2>2 DEF TypeOK
    <3>2. PICK r \in Request : r = mailbox[a][i]
      BY <3>1
    <3>3. mailbox'[a][i] = r \/ mailbox'[a][i] = [r EXCEPT !.by = Abandoned]
      BY <2>2, <3>1, <3>2
    <3>4. mailbox'[a][i].kind = r.kind /\ mailbox'[a][i].event = r.event
      BY <3>2, <3>3 DEF Request
    <3> QED
      BY <3>1, <3>2, <3>4
  <2>3. mailbox' = [mailbox EXCEPT ![worker[w].account] =
           [k \in DOMAIN @ |-> IF @[k].by = w THEN [@[k] EXCEPT !.by = Abandoned] ELSE @[k]]]
    BY DEF GiveUp
  <2> QED
    BY <1>1, <2>1, <2>2, <2>3 DEF TypeOK
<1>3. \A v \in Workers : PageKept(v)
  BY <1>1, NewStepKeepsPage
<1> QED
  BY <1>1, <1>2, <1>3, QuietMail

LEMMA FinishLog ==
  ASSUME IInv, IInv', LogInv, NEW w \in Workers, Finish(w)
  PROVE  LogInv'
<1>1. worker[w].step # "idle" /\ worker[w] \in Job /\ UNCHANGED files /\ UNCHANGED mailbox /\ TypeOK
  BY BusyHasJob DEF Finish, IInv
<1>2. PICK j : worker' = [worker EXCEPT ![w] = j] /\ j \in {Idle, [worker[w] EXCEPT !.step = "rewake"]}
  BY DEF Finish
<1>3. j.step = "idle" \/ (j.page = worker[w].page /\ j.account = worker[w].account)
  <2>1. [worker[w] EXCEPT !.step = "rewake"].page = worker[w].page
        /\ [worker[w] EXCEPT !.step = "rewake"].account = worker[w].account
    BY <1>1 DEF Job
  <2>2. Idle.step = "idle"
    BY DEF Idle
  <2> QED
    BY <1>2, <2>1, <2>2
<1>4. \A v \in Workers : PageKept(v)
  BY <1>1, <1>2, <1>3, OnePageKept
<1> QED
  BY <1>1, <1>4, SameMailboxLog

LEMMA RewakeLog ==
  ASSUME IInv, IInv', LogInv, NEW w \in Workers, Rewake(w)
  PROVE  LogInv'
<1>1. worker' = [worker EXCEPT ![w] = Idle] /\ Idle.step = "idle" /\ UNCHANGED files /\ UNCHANGED mailbox
  BY DEF Rewake, Idle
<1>2. \A v \in Workers : PageKept(v)
  BY <1>1, OnePageKept DEF IInv
<1> QED
  BY <1>1, <1>2, SameMailboxLog

LEMMA StartLog ==
  ASSUME IInv, IInv', LogInv, Start
  PROVE  LogInv'
<1>1. \A a \in Accounts : DOMAIN mailbox'[a] = {}
  BY DEF Start
<1>2. \A w \in Workers : PageKept(w)
  BY DEF Start, Idle, PageKept
<1> QED
  BY <1>1, <1>2, QuietMail DEF Start, IInv

LEMMA CommandsLog ==
  ASSUME IInv, IInv', LogInv, NEW a \in Accounts, NEW id \in Ids,
         CommandPublishes(a, id) \/ CommandPublishesUnreported(a, id)
  PROVE  LogInv'
<1>1. CASE CommandPublishes(a, id)
  <2>1. Publish(a, id) /\ UNCHANGED <<mailbox, worker>>
    BY <1>1 DEF CommandPublishes, dispatch
  <2>2. \A w \in Workers : PageKept(w)
    BY <2>1 DEF PageKept
  <2> QED
    BY <2>1, <2>2, CommandPublishesLog
<1>2. CASE CommandPublishesUnreported(a, id)
  <2>1. Publish(a, id) /\ RuntimeFails(a)
    BY <1>2 DEF CommandPublishesUnreported
  <2>2. /\ mailbox'[a] = <<>> /\ \A c \in Accounts \ {a} : mailbox'[c] = mailbox[c]
        /\ \A w \in Workers : PageKept(w)
    BY <2>1, FailureKeepsPages DEF IInv
  <2> QED
    BY <2>1, <2>2, CommandPublishesLog
<1> QED
  BY <1>1, <1>2

LEMMA StepLogInv ==
  ASSUME IInv, IInv', WakeInv, LogInv, [Next]_vars
  PROVE  LogInv'
<1>1. ASSUME NEW a \in Accounts, NEW id \in Ids,
             CommandPublishes(a, id) \/ CommandPublishesUnreported(a, id)
      PROVE  LogInv'
  BY <1>1, CommandsLog
<1>2. ASSUME NEW a \in Accounts, CommandWakes(a) PROVE LogInv'
  BY <1>2, SameWorkersLog DEF CommandWakes
<1>3. ASSUME NEW a \in Accounts, ExecuteRead(a) PROVE LogInv'
  BY <1>3, ExecuteReadLog
<1>4. ASSUME NEW a \in Accounts, ExecuteAcknowledge(a) PROVE LogInv'
  BY <1>4, ExecuteAcknowledgeLog
<1>5. ASSUME NEW a \in Accounts, NEW durable \in BOOLEAN, RequestFails(a, durable) PROVE LogInv'
  BY <1>5, RequestFailsLog
<1>6. ASSUME NEW w \in Workers, TakeAccount(w) PROVE LogInv'
  BY <1>6, TakeAccountLog
<1>7. ASSUME NEW w \in Workers, SubmitRead(w) PROVE LogInv'
  BY <1>7, SubmitReadLog
<1>8. ASSUME NEW w \in Workers, SubmitAcknowledge(w) PROVE LogInv'
  BY <1>8, SubmitAcknowledgeLog
<1>9. ASSUME NEW w \in Workers, Consume(w) PROVE LogInv'
  BY <1>9, ConsumeLog DEF Consume, Steps
<1>10. ASSUME NEW w \in Workers, NEW durable \in BOOLEAN, ConsumeFails(w, durable) PROVE LogInv'
  BY <1>10, ConsumeFailsLog
<1>11. ASSUME NEW w \in Workers, GiveUp(w) PROVE LogInv'
  BY <1>11, GiveUpLog
<1>12. ASSUME NEW w \in Workers, Finish(w) PROVE LogInv'
  BY <1>12, FinishLog
<1>13. ASSUME NEW w \in Workers, Rewake(w) PROVE LogInv'
  BY <1>13, RewakeLog
<1>14. CASE ScanStarts \/ ScanStep \/ ScanFails \/ Close
  BY <1>14, SameWorkersLog DEF ScanStarts, ScanStep, ScanFails, Close
<1>15. CASE Crash \/ Restart
  BY <1>15, StartLog DEF Crash, Restart
<1>16. CASE UNCHANGED vars
  BY <1>16, SameWorkersLog DEF vars, dispatch
<1> QED
  BY <1>1, <1>2, <1>3, <1>4, <1>5, <1>6, <1>7, <1>8, <1>9, <1>10, <1>11, <1>12, <1>13, <1>14,
     <1>15, <1>16 DEF Next

-----------------------------------------------------------------------------
(* The refinement *)

LEMMA InitPromise == Init => Promise!Init
BY DEF Init, Promise!Init

\* A command sends; applying an event makes the next one of the log effective.
LEMMA PublishSends ==
  ASSUME IInv, IInv', LogInv, NEW a \in Accounts, NEW id \in Ids, Publish(a, id)
  PROVE  [Promise!Next]_(Promise!vars)
<1>1. UNCHANGED applied /\ (UNCHANGED published \/ published' = [published EXCEPT ![a] = Append(@, id)])
  BY PublishLog DEF Publish, IInv
<1> QED
  BY <1>1 DEF Promise!Next, Promise!Send, Promise!vars

LEMMA ApplyTakesEffect ==
  ASSUME IInv, IInv', LogInv, NEW w \in Workers, worker[w].step = "consume",
         ApplyOnce(worker[w].account, Head(worker[w].page))
  PROVE  [Promise!Next]_(Promise!vars)
<1>1. TypeOK /\ TypeOK' /\ worker[w] \in Job /\ worker[w].page # <<>>
  BY BusyHasJob DEF IInv, PagesArePublished, JobOK
<1>2. PICK a \in Accounts : a = worker[w].account
  BY <1>1 DEF Job
<1>3. /\ UNCHANGED published
      /\ \/ UNCHANGED applied
         \/ /\ Len(applied[a]) < Len(published[a])
            /\ applied' = [applied EXCEPT ![a] = Append(@, published[a][Len(@) + 1])]
  BY <1>1, <1>2, ApplyLog
<1> QED
  BY <1>3 DEF Promise!Next, Promise!TakeEffect, Promise!vars

LEMMA PromiseStep ==
  ASSUME IInv, IInv', LogInv, [Next]_vars
  PROVE  [Promise!Next]_(Promise!vars)
<1>1. ASSUME NEW a \in Accounts, NEW id \in Ids,
             CommandPublishes(a, id) \/ CommandPublishesUnreported(a, id)
      PROVE  [Promise!Next]_(Promise!vars)
  BY <1>1, PublishSends DEF CommandPublishes, CommandPublishesUnreported
<1>2. ASSUME NEW w \in Workers, NEW durable \in BOOLEAN, Consume(w) \/ ConsumeFails(w, durable)
      PROVE  [Promise!Next]_(Promise!vars)
  <2>1. CASE ApplyOnce(worker[w].account, Head(worker[w].page))
    BY <1>2, <2>1, ApplyTakesEffect DEF Consume, ConsumeFails
  <2>2. CASE UNCHANGED files
    BY <2>2 DEF files, Promise!vars
  <2> QED
    BY <1>2, <2>1, <2>2 DEF Consume, ConsumeFails
<1>3. ASSUME NEW a \in Accounts, NEW durable \in BOOLEAN,
             CommandWakes(a) \/ ExecuteRead(a) \/ ExecuteAcknowledge(a) \/ RequestFails(a, durable)
      PROVE  UNCHANGED <<published, applied>>
  BY <1>3 DEF CommandWakes, ExecuteRead, ExecuteAcknowledge, RequestFails, files
<1>4. ASSUME NEW w \in Workers,
             TakeAccount(w) \/ SubmitRead(w) \/ SubmitAcknowledge(w) \/ GiveUp(w) \/ Finish(w) \/ Rewake(w)
      PROVE  UNCHANGED <<published, applied>>
  BY <1>4 DEF TakeAccount, SubmitRead, SubmitAcknowledge, Submit, GiveUp, Finish, Rewake, files
<1>5. CASE ScanStarts \/ ScanStep \/ ScanFails \/ Close
  BY <1>5 DEF ScanStarts, ScanStep, ScanFails, Close, files, Promise!vars
<1>6. CASE Crash \/ Restart
  BY <1>6 DEF Crash, Restart, Start, files, Promise!vars
<1>7. CASE UNCHANGED vars
  BY <1>7 DEF vars, files, Promise!vars
<1>8. UNCHANGED <<published, applied>> => UNCHANGED Promise!vars
  BY DEF Promise!vars
<1> QED
  BY <1>1, <1>2, <1>3, <1>4, <1>5, <1>6, <1>7, <1>8 DEF Next

\* Whatever fails, is delivered twice or is acknowledged late: the events of an
\* account take effect on the shared file once, in the order of their commits.
THEOREM EventsTakeEffectOnceInOrder == Spec => ImplementsEventLog
<1>1. Init => IInv /\ WakeInv /\ LogInv /\ Promise!Init
  BY InitIInv, InitWakeInv, InitLogInv, InitPromise
<1>2. IInv /\ WakeInv /\ LogInv /\ [Next]_vars => (IInv /\ WakeInv /\ LogInv)'
  BY StepIInv, StepWakeInv, StepLogInv
<1>3. IInv /\ LogInv /\ IInv' /\ [Next]_vars => [Promise!Next]_(Promise!vars)
  BY PromiseStep
<1> QED
  BY <1>1, <1>2, <1>3, PTL DEF Spec, ImplementsEventLog, Promise!Spec

=============================================================================
