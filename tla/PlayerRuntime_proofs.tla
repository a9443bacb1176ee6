----------------------- MODULE PlayerRuntime_proofs -----------------------
(***************************************************************************)
(* Proofs about PlayerRuntime, for every value of its constants.            *)
(***************************************************************************)
EXTENDS PlayerRuntime, FiniteSetTheorems, FunctionTheorems, SequenceTheorems, TLAPS

\* The types of the values that the module names.
LEMMA Constants ==
  /\ NoWork \in Work
  /\ NoAnswer \in [command : Command \cup {NoCommand}, future : Nat]
  /\ \A c \in Command : CommandBytes[c.digest] \in Nat \ {0}
  /\ NoCommand \notin Command
BY RuntimeAssumption
   DEF NoWork, Work, RecoveryWork, NoAnswer, NoCommand, Command, NoExpectation, Generations

\* An update of one field of one future, inside or outside the sequence,
\* leaves a sequence of futures of the same length.
LEMMA UpdateRan ==
  ASSUME NEW s \in Seq(Future), NEW f \in Nat, NEW g \in Generations
  PROVE  /\ [s EXCEPT ![f].ran = g] \in Seq(Future)
         /\ Len([s EXCEPT ![f].ran = g]) = Len(s)
<1>1. CASE f \in 1..Len(s)
  <2>1. s[f] \in Future
    BY <1>1
  <2>2. [s[f] EXCEPT !.ran = g] \in Future
    BY <2>1 DEF Future
  <2> QED
    BY <1>1, <2>2, ExceptSeq
<1>2. CASE f \notin 1..Len(s)
  <2>1. DOMAIN s = 1..Len(s) /\ s = [i \in DOMAIN s |-> s[i]]
    OBVIOUS
  <2>2. [s EXCEPT ![f].ran = g] = [i \in DOMAIN s |-> s[i]]
    BY <1>2, <2>1
  <2> QED
    BY <2>1, <2>2
<1> QED
  BY <1>1, <1>2

LEMMA UpdateResult ==
  ASSUME NEW s \in Seq(Future), NEW f \in Nat, NEW r \in Results \cup {"pending"}
  PROVE  /\ [s EXCEPT ![f].result = r] \in Seq(Future)
         /\ Len([s EXCEPT ![f].result = r]) = Len(s)
<1>1. CASE f \in 1..Len(s)
  <2>1. s[f] \in Future
    BY <1>1
  <2>2. [s[f] EXCEPT !.result = r] \in Future
    BY <2>1 DEF Future
  <2> QED
    BY <1>1, <2>2, ExceptSeq
<1>2. CASE f \notin 1..Len(s)
  <2>1. DOMAIN s = 1..Len(s) /\ s = [i \in DOMAIN s |-> s[i]]
    OBVIOUS
  <2>2. [s EXCEPT ![f].result = r] = [i \in DOMAIN s |-> s[i]]
    BY <1>2, <2>1
  <2> QED
    BY <2>1, <2>2
<1> QED
  BY <1>1, <1>2

\* A recovery work item is a work item, whatever its future.
LEMMA RecoveryIsWork ==
  ASSUME NEW f \in Nat
  PROVE  [NoWork EXCEPT !.future = f] \in RecoveryWork
BY DEF NoWork, RecoveryWork

\* What the owner may rely on in a work item.
LEMMA WorkFields ==
  ASSUME NEW w \in Work
  PROVE  /\ w.future \in Nat
         /\ w.bytes \in Nat
         /\ ~w.recovery => w \in CommandWork /\ w.id \in Identities
         /\ w.recovery => w \in RecoveryWork
         /\ w.recovery \in BOOLEAN
BY RuntimeAssumption DEF Work, CommandWork, RecoveryWork

\* TypeOK holds initially.
LEMMA InitTypeOK == Init => TypeOK
<1> SUFFICES ASSUME Init PROVE TypeOK
  OBVIOUS
<1>1. /\ queue \in Seq(Work) /\ completed \in Seq(Identities)
      /\ futures \in Seq(Future)
  BY DEF Init
<1>2. DOMAIN receipts = {}
  <2>1. receipts = [id \in {} |-> NoAnswer]
    BY DEF Init
  <2> QED
    BY <2>1, Zenon
<1>3. generation \in Generations
  BY RuntimeAssumption DEF Init, Generations
<1>4. /\ pc \in {"idle", "executing", "recovering", "settling"}
      /\ verdict \in Results \cup {"pending"}
  BY DEF Init
<1>5. pending \in Int /\ bytes \in Int
  BY DEF Init
<1>7. closing \in BOOLEAN /\ failed \in BOOLEAN /\ closed \in BOOLEAN
  BY Zenon DEF Init
<1>6. /\ admitting \in Command \cup {NoCommand}
      /\ current \in Work
      /\ answer \in [command : Command \cup {NoCommand}, future : Nat]
  BY Constants DEF Init
<1> QED
  BY <1>1, <1>2, <1>3, <1>4, <1>5, <1>6, <1>7 DEF TypeOK

\* TypeOK is preserved by the steps of callers.
LEMMA CallersTypeOK ==
  ASSUME TypeOK,
         \/ \E c \in Command : SubmitJoins(c) \/ SubmitAdmits(c)
         \/ SubmitEnqueues \/ Recover \/ Close
  PROVE  TypeOK'
<1>1. ASSUME NEW c \in Command, SubmitJoins(c) PROVE TypeOK'
  BY <1>1, Constants DEF TypeOK, SubmitJoins, KnownRequest, Receipt, mailboxVars, ownerVars
<1>2. ASSUME NEW c \in Command, SubmitAdmits(c) PROVE TypeOK'
  BY <1>2, Constants DEF TypeOK, SubmitAdmits, mailboxVars, ownerVars
<1>3. ASSUME SubmitEnqueues PROVE TypeOK'
  <2> DEFINE c == admitting
             f == Len(futures) + 1
             w == [id |-> c.id, digest |-> c.digest, expected |-> c.expected,
                   bytes |-> CommandBytes[c.digest], recovery |-> FALSE,
                   generation |-> generation, future |-> f]
             future == [id |-> c.id, digest |-> c.digest, result |-> "pending", ran |-> 0]
  <2>1. c \in Command
    BY <1>3 DEF TypeOK, SubmitEnqueues
  <2>2. f \in Nat
    BY DEF TypeOK
  <2>3. w \in CommandWork
    BY <2>1, <2>2, Constants DEF TypeOK, CommandWork, Command
  <2>4. future \in Future
    BY <2>1 DEF Future, Command
  <2>5. queue' \in Seq(Work)
    BY <1>3, <2>3 DEF TypeOK, SubmitEnqueues, Enqueued, Work
  <2>6. futures' \in Seq(Future)
    BY <1>3, <2>4 DEF TypeOK, SubmitEnqueues
  <2>7. /\ DOMAIN receipts' \subseteq Identities
        /\ \A id \in DOMAIN receipts' : receipts'[id] \in Receipt
    BY <1>3, <2>1, <2>2 DEF TypeOK, SubmitEnqueues, Receipt, Command
  <2>8. bytes' \in Int /\ pending' \in Int
    BY <1>3, <2>1, Constants DEF TypeOK, SubmitEnqueues
  <2>9. answer' \in [command : Command \cup {NoCommand}, future : Nat]
    BY <1>3, <2>1, <2>2 DEF SubmitEnqueues
  <2>10. admitting' \in Command \cup {NoCommand}
    BY <1>3 DEF SubmitEnqueues
  <2> QED
    BY <1>3, <2>5, <2>6, <2>7, <2>8, <2>9, <2>10 DEF TypeOK, SubmitEnqueues, ownerVars
<1>4. ASSUME Recover PROVE TypeOK'
  <2>1. [NoWork EXCEPT !.future = Len(futures) + 1] \in Work
    <3>1. Len(futures) + 1 \in Nat
      BY DEF TypeOK
    <3>2. [NoWork EXCEPT !.future = Len(futures) + 1] \in RecoveryWork
      BY <3>1, RecoveryIsWork
    <3> QED
      BY <3>2 DEF Work
  <2>2. [id |-> NoIdentity, digest |-> NoDigest, result |-> "pending", ran |-> 0] \in Future
    BY DEF Future
  <2>3. queue' \in Seq(Work) /\ futures' \in Seq(Future)
    <3>1. /\ queue' = Append(queue, [NoWork EXCEPT !.future = Len(futures) + 1])
          /\ futures' = Append(futures, [id |-> NoIdentity, digest |-> NoDigest,
                                        result |-> "pending", ran |-> 0])
      BY <1>4 DEF Recover, Enqueued
    <3>2. queue \in Seq(Work) /\ futures \in Seq(Future)
      BY DEF TypeOK
    <3> QED
      BY <2>1, <2>2, <3>1, <3>2, AppendProperties
  <2>4. pending' \in Int /\ bytes' \in Int
    BY <1>4, RuntimeAssumption DEF TypeOK, Recover
  <2>5. answer' \in [command : Command \cup {NoCommand}, future : Nat]
    BY <1>4, Constants DEF Recover
  <2>6. UNCHANGED <<receipts, completed, closing, failed, generation, admitting, ownerVars, closed>>
    BY <1>4 DEF Recover
  <2> QED
    BY <2>3, <2>4, <2>5, <2>6 DEF TypeOK, ownerVars
<1>5. ASSUME Close PROVE TypeOK'
  BY <1>5, Constants DEF TypeOK, Close, mailboxVars, ownerVars
<1> QED
  BY <1>1, <1>2, <1>3, <1>4, <1>5

\* TypeOK is preserved by the steps of the owner goroutine.
LEMMA OwnerTypeOK ==
  ASSUME TypeOK, Owner
  PROVE  TypeOK'
<1>1. ASSUME TakeRecovery PROVE TypeOK'
  <2>1. Head(queue) \in Work /\ Tail(queue) \in Seq(Work)
    BY <1>1 DEF TypeOK, TakeRecovery, HasWork
  <2> QED
    BY <1>1, <2>1, Constants DEF TypeOK, TakeRecovery, Results
<1>2. ASSUME TakeCommand PROVE TypeOK'
  <2>1. Head(queue) \in Work /\ Tail(queue) \in Seq(Work)
    BY <1>2 DEF TypeOK, TakeCommand, HasWork
  <2>2. futures' \in Seq(Future)
    <3>1. Head(queue).future \in Nat
      BY <2>1, WorkFields
    <3>2. futures' \in Seq(Future)
      <4>1. futures \in Seq(Future) /\ generation \in Generations
        BY DEF TypeOK
      <4>2. [futures EXCEPT ![Head(queue).future].ran = generation] \in Seq(Future)
        BY <3>1, <4>1, UpdateRan
      <4>3. futures' = futures \/ futures' = [futures EXCEPT ![Head(queue).future].ran = generation]
        BY <1>2 DEF TakeCommand
      <4> QED
        BY <4>1, <4>2, <4>3
    <3> QED
      BY <3>2
  <2> QED
    BY <1>2, <2>1, <2>2, Constants DEF TypeOK, TakeCommand, Results
<1>3. ASSUME NEW result \in Results, ExecuteReturns(result) PROVE TypeOK'
  BY <1>3, Constants DEF TypeOK, ExecuteReturns, mailboxVars
<1>4. ASSUME NEW g \in Generations, ExecuteRecovered(g) PROVE TypeOK'
  BY <1>4, Constants DEF TypeOK, ExecuteRecovered, mailboxVars, Results
<1>5. ASSUME ExecuteBroke PROVE TypeOK'
  BY <1>5, Constants DEF TypeOK, ExecuteBroke, mailboxVars, Results
<1>6. ASSUME NEW success \in BOOLEAN, NEW g \in Generations, RecoverReturns(success, g)
      PROVE TypeOK'
  BY <1>6, Constants DEF TypeOK, RecoverReturns, mailboxVars, Results
<1>7. ASSUME NEW dropped \in 0..Len(completed) + 1, Settle(dropped) PROVE TypeOK'
  <2>1. verdict \in Results \cup {"pending"}
    BY DEF TypeOK
  <2>2. futures' \in Seq(Future)
    BY <1>7, <2>1, UpdateResult, WorkFields DEF TypeOK, Settle
  <2>3. pending' \in Int /\ bytes' \in Int
    BY <1>7, WorkFields DEF TypeOK, Settle
  <2>4. /\ completed' \in Seq(Identities)
        /\ DOMAIN receipts' \subseteq Identities
        /\ \A id \in DOMAIN receipts' : receipts'[id] \in Receipt
    <3>1. CASE CommandSucceeded
      <4>1. Append(completed, current.id) \in Seq(Identities)
        BY <3>1, WorkFields DEF TypeOK, CommandSucceeded
      <4>2. Retain(dropped)
        BY <1>7, <3>1 DEF Settle
      <4> QED
        BY <4>1, <4>2, SubSeqProperties DEF TypeOK, Retain, WithoutReceipts
    <3>2. CASE ~CommandSucceeded
      BY <1>7, <3>2 DEF TypeOK, Settle, WithoutReceipts
    <3> QED
      BY <3>1, <3>2
  <2> QED
    BY <1>7, <2>2, <2>3, <2>4, Constants DEF TypeOK, Settle
<1>8. ASSUME Finish PROVE TypeOK'
  BY <1>8, Constants DEF TypeOK, Finish, mailboxVars, ownerVars
<1> QED
  BY <1>1, <1>2, <1>3, <1>4, <1>5, <1>6, <1>7, <1>8 DEF Owner

\* TypeOK is preserved by every step.
LEMMA NextTypeOK == TypeOK /\ [Next]_vars => TypeOK'
<1> SUFFICES ASSUME TypeOK, [Next]_vars PROVE TypeOK'
  OBVIOUS
<1>1. CASE Owner
  BY <1>1, OwnerTypeOK
<1>2. CASE UNCHANGED vars
  BY <1>2 DEF TypeOK, vars
<1> QED
  BY <1>1, <1>2, CallersTypeOK DEF Next

\* Every variable of the runtime keeps its type, under every interleaving of
\* callers with the owner goroutine.
THEOREM TypeCorrect == Spec => []TypeOK
BY InitTypeOK, NextTypeOK, PTL DEF Spec

-----------------------------------------------------------------------------
(* Futures: what is known of them, oldest first *)

\* The futures whose work has left the channel.
Taken == Len(futures) - Len(queue)

\* The channel is first in, first out, and one future is made for each item: the
\* work at a place of the queue has the future at that place behind the taken ones.
FuturesInOrder ==
  /\ Len(queue) <= Len(futures)
  /\ \A i \in 1..Len(queue) : queue[i].future = Taken + i
  /\ pc # "idle" => Taken >= 1 /\ current.future = Taken

\* Work that waits has not run, and work that is not settled has no result.
FuturesKnown ==
  /\ \A i \in 1..Len(queue) :
       /\ futures[Taken + i].id = queue[i].id
       /\ futures[Taken + i].result = "pending"
       /\ futures[Taken + i].ran = 0
  /\ pc # "idle" => futures[Taken].id = current.id /\ futures[Taken].result = "pending"

Failures == {"broken", "recovered"}

\* The generation of a failure is over, or the executor still needs recovery.
GenerationsKnown ==
  /\ \A f \in 1..Len(futures) :
       /\ futures[f].ran <= generation
       /\ futures[f].result \in Failures => futures[f].ran < generation \/ failed
  /\ pc # "idle" /\ verdict \in Failures => futures[Taken].ran < generation \/ failed

\* A receipt leads to the future of its own request, and to no failure.
ReceiptsKnown ==
  \A id \in DOMAIN receipts :
    /\ receipts[id].future \in 1..Len(futures)
    /\ futures[receipts[id].future].id = id
    /\ futures[receipts[id].future].digest = receipts[id].digest
    /\ futures[receipts[id].future].result \in {"pending", "ok"}

FuturesOK ==
  /\ FuturesInOrder /\ FuturesKnown /\ GenerationsKnown /\ ReceiptsKnown
  /\ FailureEndsGeneration /\ AnswerIsOwnRequest

\* The places of the channel behind its head, counted among the futures.
LEMMA PlaceBehind ==
  ASSUME NEW t \in Nat, NEW n \in Nat, NEW m \in Nat, NEW i \in Nat \ {0},
         t + n = m, i + 1 <= n
  PROVE  (t + 1) + i = t + (i + 1) /\ t + (i + 1) # t + 1 /\ t + (i + 1) \in 1..m
OBVIOUS

LEMMA FutureTypes ==
  ASSUME TypeOK
  PROVE  /\ futures \in Seq(Future) /\ Len(futures) \in Nat
         /\ queue \in Seq(Work) /\ Len(queue) \in Nat
         /\ generation \in Nat /\ generation > 0
         /\ \A f \in 1..Len(futures) : /\ futures[f] \in Future
                                       /\ futures[f].ran \in Nat
<1>1. /\ futures \in Seq(Future) /\ Len(futures) \in Nat
      /\ queue \in Seq(Work) /\ Len(queue) \in Nat
      /\ generation \in Generations
  BY DEF TypeOK
<1>2. Generations \subseteq Nat \ {0}
  BY RuntimeAssumption DEF Generations
<1>3. ASSUME NEW x \in Future PROVE x.ran \in Nat
  <2>1. x.ran \in {0} \cup (1..MaxGeneration)
    BY DEF Future, Generations
  <2> QED
    BY <2>1, RuntimeAssumption
<1>4. \A f \in 1..Len(futures) : futures[f] \in Future
  BY <1>1
<1> QED
  BY <1>1, <1>2, <1>3, <1>4

\* What an update of one future changes.
LEMMA RanUpdated ==
  ASSUME NEW s \in Seq(Future), NEW f \in 1..Len(s), NEW g \in Nat,
         NEW t, t = [s EXCEPT ![f].ran = g]
  PROVE  /\ Len(t) = Len(s)
         /\ \A i \in 1..Len(s) : /\ t[i].id = s[i].id
                                 /\ t[i].digest = s[i].digest
                                 /\ t[i].result = s[i].result
                                 /\ t[i].ran = IF i = f THEN g ELSE s[i].ran
<1>1. s[f] \in Future
  OBVIOUS
<1>2. /\ [s[f] EXCEPT !.ran = g].id = s[f].id
      /\ [s[f] EXCEPT !.ran = g].digest = s[f].digest
      /\ [s[f] EXCEPT !.ran = g].result = s[f].result
      /\ [s[f] EXCEPT !.ran = g].ran = g
  BY <1>1 DEF Future
<1>3. \A i \in 1..Len(s) : t[i] = IF i = f THEN [s[f] EXCEPT !.ran = g] ELSE s[i]
  OBVIOUS
<1>4. Len(t) = Len(s)
  OBVIOUS
<1> QED
  BY <1>2, <1>3, <1>4

LEMMA ResultUpdated ==
  ASSUME NEW s \in Seq(Future), NEW f \in 1..Len(s), NEW r,
         NEW t, t = [s EXCEPT ![f].result = r]
  PROVE  /\ Len(t) = Len(s)
         /\ \A i \in 1..Len(s) : /\ t[i].id = s[i].id
                                 /\ t[i].digest = s[i].digest
                                 /\ t[i].result = IF i = f THEN r ELSE s[i].result
                                 /\ t[i].ran = s[i].ran
<1>1. s[f] \in Future
  OBVIOUS
<1>2. /\ [s[f] EXCEPT !.result = r].id = s[f].id
      /\ [s[f] EXCEPT !.result = r].digest = s[f].digest
      /\ [s[f] EXCEPT !.result = r].result = r
      /\ [s[f] EXCEPT !.result = r].ran = s[f].ran
  BY <1>1 DEF Future
<1>3. \A i \in 1..Len(s) : t[i] = IF i = f THEN [s[f] EXCEPT !.result = r] ELSE s[i]
  OBVIOUS
<1>4. Len(t) = Len(s)
  OBVIOUS
<1> QED
  BY <1>2, <1>3, <1>4

\* One more item in the channel, with a future of its own.
LEMMA Enqueued1 ==
  ASSUME TypeOK, FuturesOK, NEW w \in Work, NEW future \in Future,
         w.future = Len(futures) + 1, future.id = w.id,
         future.result = "pending", future.ran = 0,
         queue' = Append(queue, w), futures' = Append(futures, future),
         UNCHANGED <<generation, failed, pc, current, verdict>>
  PROVE  /\ FuturesInOrder' /\ FuturesKnown' /\ GenerationsKnown'
         /\ FailureEndsGeneration'
         /\ Len(futures') = Len(futures) + 1
         /\ \A f \in 1..Len(futures) : futures'[f] = futures[f]
         /\ futures'[Len(futures) + 1] = future
<1> USE DEF FuturesOK
<1>0. /\ Len(futures) \in Nat /\ Len(queue) \in Nat /\ generation \in Nat /\ generation > 0
      /\ \A f \in 1..Len(futures) : futures[f].ran \in Nat
  BY FutureTypes
<1>1. /\ Len(futures') = Len(futures) + 1
      /\ \A f \in 1..Len(futures) : futures'[f] = futures[f]
      /\ futures'[Len(futures) + 1] = future
  BY FutureTypes, AppendProperties
<1>2. /\ Len(queue') = Len(queue) + 1
      /\ \A i \in 1..Len(queue) : queue'[i] = queue[i]
      /\ queue'[Len(queue) + 1] = w
  BY FutureTypes, AppendProperties
<1>3. Taken' = Taken /\ Taken + Len(queue) + 1 = Len(futures) + 1
      /\ Taken \in 0..Len(futures) /\ Taken + Len(queue) = Len(futures)
  BY <1>0, <1>1, <1>2 DEF Taken, FuturesInOrder
<1>4. FuturesInOrder'
  <2>1. ASSUME NEW i \in 1..Len(queue') PROVE queue'[i].future = Taken + i
    <3>1. CASE i \in 1..Len(queue)
      BY <1>2, <3>1 DEF FuturesInOrder
    <3>2. CASE i = Len(queue) + 1
      BY <1>0, <1>2, <1>3, <3>2
    <3> QED
      BY <1>0, <1>2, <3>1, <3>2
  <2>2. Len(queue') <= Len(futures')
    BY <1>0, <1>1, <1>2, <1>3
  <2> QED
    BY <1>3, <2>1, <2>2 DEF FuturesInOrder
<1>5. FuturesKnown'
  <2>1. ASSUME NEW i \in 1..Len(queue')
        PROVE  /\ futures'[Taken + i].id = queue'[i].id
               /\ futures'[Taken + i].result = "pending"
               /\ futures'[Taken + i].ran = 0
    <3>1. CASE i \in 1..Len(queue)
      <4>1. Taken + i \in 1..Len(futures)
        BY <1>0, <1>3, <3>1
      <4>2. futures'[Taken + i] = futures[Taken + i] /\ queue'[i] = queue[i]
        BY <1>1, <1>2, <3>1, <4>1
      <4> QED
        BY <3>1, <4>2 DEF FuturesKnown
    <3>2. CASE i = Len(queue) + 1
      BY <1>0, <1>1, <1>2, <1>3, <3>2
    <3>3. i \in 1..Len(queue) \/ i = Len(queue) + 1
      BY <1>0, <1>2
    <3> QED
      BY <3>1, <3>2, <3>3
  <2>2. pc # "idle" => futures'[Taken] = futures[Taken]
    BY <1>0, <1>1, <1>3 DEF FuturesInOrder
  <2> QED
    BY <1>3, <2>1, <2>2 DEF FuturesKnown
<1>6. GenerationsKnown'
  <2>1. pc # "idle" => futures'[Taken] = futures[Taken]
    BY <1>0, <1>1, <1>3 DEF FuturesInOrder
  <2>2. ASSUME NEW f \in 1..Len(futures')
        PROVE  /\ futures'[f].ran <= generation
               /\ futures'[f].result \in Failures => futures'[f].ran < generation \/ failed
    BY <1>0, <1>1 DEF GenerationsKnown, Failures
  <2> QED
    BY <1>3, <2>1, <2>2 DEF GenerationsKnown
<1>7. FailureEndsGeneration'
  <2>1. ASSUME NEW f \in 1..Len(futures'), NEW g \in 1..Len(futures'), f < g,
               futures'[f].ran # 0, futures'[f].result \in Failures
        PROVE  futures'[g].ran # futures'[f].ran
    <3>1. CASE g \in 1..Len(futures)
      BY <1>0, <1>1, <2>1, <3>1 DEF FailureEndsGeneration, Failures
    <3>2. CASE g = Len(futures) + 1
      BY <1>1, <2>1, <3>2
    <3> QED
      BY <1>0, <1>1, <3>1, <3>2
  <2> QED
    BY <2>1 DEF FailureEndsGeneration, Failures
<1> QED
  BY <1>1, <1>4, <1>5, <1>6, <1>7

\* The futures stay as they are, and no later generation is left for an earlier one.
LEMMA FuturesStay ==
  ASSUME TypeOK, FuturesOK, UNCHANGED <<queue, futures, receipts>>,
         generation' \in Nat, generation' >= generation,
         failed => failed' \/ generation' > generation,
         pc' # "idle" => pc # "idle" /\ UNCHANGED current,
         pc' # "idle" /\ verdict' \in Failures =>
           failed' \/ generation' > generation \/ verdict = verdict'
  PROVE  /\ FuturesInOrder' /\ FuturesKnown' /\ GenerationsKnown' /\ ReceiptsKnown'
         /\ FailureEndsGeneration'
<1> USE DEF FuturesOK
<1>0. /\ Len(futures) \in Nat /\ Len(queue) \in Nat /\ generation \in Nat
      /\ \A f \in 1..Len(futures) : futures[f].ran \in Nat
  BY FutureTypes
<1>1. Taken' = Taken
  BY DEF Taken
<1>2. FuturesInOrder'
  BY <1>1 DEF FuturesInOrder
<1>3. FuturesKnown'
  BY <1>1 DEF FuturesKnown
<1>4. GenerationsKnown'
  <2>1. ASSUME NEW f \in 1..Len(futures)
        PROVE  /\ futures[f].ran <= generation'
               /\ futures[f].result \in Failures => futures[f].ran < generation' \/ failed'
    BY <1>0 DEF GenerationsKnown
  <2>2. ASSUME pc' # "idle", verdict' \in Failures
        PROVE  futures[Taken].ran < generation' \/ failed'
    <3>1. Taken \in 1..Len(futures)
      BY <1>0, <2>2 DEF Taken, FuturesInOrder
    <3>2. futures[Taken].ran <= generation /\ futures[Taken].ran \in Nat
      BY <1>0, <3>1 DEF GenerationsKnown
    <3>3. CASE verdict' = verdict
      BY <1>0, <2>2, <3>2, <3>3 DEF GenerationsKnown
    <3>4. CASE generation' > generation
      BY <1>0, <3>2, <3>4
    <3> QED
      BY <2>2, <3>3, <3>4
  <2> QED
    BY <1>1, <2>1, <2>2 DEF GenerationsKnown
<1>5. ReceiptsKnown' /\ FailureEndsGeneration'
  BY DEF ReceiptsKnown, FailureEndsGeneration
<1> QED
  BY <1>2, <1>3, <1>4, <1>5

\* No caller is answered.
LEMMA NobodyAnswered ==
  ASSUME answer' = NoAnswer
  PROVE  AnswerIsOwnRequest'
BY DEF AnswerIsOwnRequest, NoAnswer

\* A receipt that is there after an answer vouches for it.
LEMMA CallersFutures ==
  ASSUME TypeOK, FuturesOK,
         \/ \E c \in Command : SubmitJoins(c) \/ SubmitAdmits(c)
         \/ SubmitEnqueues \/ Recover \/ Close
  PROVE  FuturesOK'
<1> USE DEF FuturesOK, mailboxVars, ownerVars
<1>0. /\ Len(futures) \in Nat /\ Len(queue) \in Nat /\ generation \in Nat
  BY FutureTypes
<1>1. ASSUME NEW c \in Command, SubmitJoins(c) PROVE FuturesOK'
  <2>1. UNCHANGED <<queue, futures, receipts, generation, failed, pc, current, verdict>>
    BY <1>1, Zenon DEF SubmitJoins
  <2>2. /\ FuturesInOrder' /\ FuturesKnown' /\ GenerationsKnown' /\ ReceiptsKnown'
        /\ FailureEndsGeneration'
    BY <1>0, <2>1, FuturesStay
  <2>3. AnswerIsOwnRequest'
    <3>1. answer' = [command |-> c, future |-> receipts[c.id].future]
          /\ c.id \in DOMAIN receipts /\ receipts[c.id].digest = c.digest
      BY <1>1 DEF SubmitJoins, KnownRequest
    <3> QED
      BY <2>1, <3>1 DEF AnswerIsOwnRequest, ReceiptsKnown
  <2> QED
    BY <2>2, <2>3
<1>2. ASSUME NEW c \in Command, SubmitAdmits(c) PROVE FuturesOK'
  <2>1. UNCHANGED <<queue, futures, receipts, generation, failed, pc, current, verdict>>
    BY <1>2, Zenon DEF SubmitAdmits
  <2>2. answer' = NoAnswer
    BY <1>2 DEF SubmitAdmits
  <2> QED
    BY <1>0, <2>1, <2>2, FuturesStay, NobodyAnswered
<1>3. CASE SubmitEnqueues
  <2> DEFINE c == admitting
             f == Len(futures) + 1
             w == [id |-> c.id, digest |-> c.digest, expected |-> c.expected,
                   bytes |-> CommandBytes[c.digest], recovery |-> FALSE,
                   generation |-> generation, future |-> f]
             future == [id |-> c.id, digest |-> c.digest, result |-> "pending", ran |-> 0]
  <2>1. c \in Command
    BY <1>3 DEF TypeOK, SubmitEnqueues
  <2>2. f \in Nat
    BY <1>0
  <2>3. w \in Work /\ w.future = f /\ w.id = c.id
    BY <2>1, <2>2, Constants DEF TypeOK, CommandWork, Command, Work
  <2>4. /\ future \in Future /\ future.id = c.id /\ future.digest = c.digest
        /\ future.result = "pending" /\ future.ran = 0
    BY <2>1 DEF Future, Command
  <2>5. /\ queue' = Append(queue, w) /\ futures' = Append(futures, future)
        /\ receipts' = [id \in DOMAIN receipts \cup {c.id} |->
             IF id = c.id THEN [digest |-> c.digest, future |-> f] ELSE receipts[id]]
        /\ answer' = [command |-> c, future |-> f]
    BY <1>3 DEF SubmitEnqueues, Enqueued
  <2>6. UNCHANGED <<generation, failed, pc, current, verdict>>
    BY <1>3, Zenon DEF SubmitEnqueues
  <2> HIDE DEF w, future, f, c
  <2>7. /\ FuturesInOrder' /\ FuturesKnown' /\ GenerationsKnown'
        /\ FailureEndsGeneration'
        /\ Len(futures') = Len(futures) + 1
        /\ \A i \in 1..Len(futures) : futures'[i] = futures[i]
        /\ futures'[Len(futures) + 1] = future
    BY <2>3, <2>4, <2>5, <2>6, Enqueued1 DEF f
  <2>8. ReceiptsKnown'
    <3>1. ASSUME NEW id \in DOMAIN receipts'
          PROVE  /\ receipts'[id].future \in 1..Len(futures')
                 /\ futures'[receipts'[id].future].id = id
                 /\ futures'[receipts'[id].future].digest = receipts'[id].digest
                 /\ futures'[receipts'[id].future].result \in {"pending", "ok"}
      <4>1. CASE id = c.id
        BY <1>0, <2>4, <2>5, <2>7, <4>1 DEF f
      <4>2. CASE id # c.id
        <5>1. id \in DOMAIN receipts /\ receipts'[id] = receipts[id]
          BY <2>5, <4>2
        <5> QED
          BY <1>0, <2>7, <5>1 DEF ReceiptsKnown
      <4> QED
        BY <4>1, <4>2
    <3> QED
      BY <3>1 DEF ReceiptsKnown
  <2>9. AnswerIsOwnRequest'
    BY <2>4, <2>5, <2>7 DEF AnswerIsOwnRequest, f
  <2> QED
    BY <2>7, <2>8, <2>9
<1>4. CASE Recover
  <2> DEFINE w == [NoWork EXCEPT !.future = Len(futures) + 1]
             future == [id |-> NoIdentity, digest |-> NoDigest, result |-> "pending", ran |-> 0]
  <2>1. w \in Work /\ w.future = Len(futures) + 1 /\ w.id = NoIdentity
    <3>1. w \in RecoveryWork
      BY <1>0, RecoveryIsWork
    <3>2. w \in Work
      BY <3>1 DEF Work
    <3>3. w.future = Len(futures) + 1 /\ w.id = NoIdentity
      BY DEF NoWork
    <3> QED
      BY <3>2, <3>3
  <2>2. /\ future \in Future /\ future.id = NoIdentity
        /\ future.result = "pending" /\ future.ran = 0
    BY DEF Future
  <2>3. queue' = Append(queue, w) /\ futures' = Append(futures, future)
    BY <1>4 DEF Recover, Enqueued
  <2>4. UNCHANGED <<receipts, generation, failed, pc, current, verdict>> /\ answer' = NoAnswer
    BY <1>4, Zenon DEF Recover
  <2> HIDE DEF w, future
  <2>5. /\ FuturesInOrder' /\ FuturesKnown' /\ GenerationsKnown'
        /\ FailureEndsGeneration'
        /\ Len(futures') = Len(futures) + 1
        /\ \A i \in 1..Len(futures) : futures'[i] = futures[i]
    BY <2>1, <2>2, <2>3, <2>4, Enqueued1
  <2>6. ReceiptsKnown'
    BY <1>0, <2>4, <2>5 DEF ReceiptsKnown
  <2> QED
    BY <2>4, <2>5, <2>6, NobodyAnswered
<1>5. CASE Close
  <2>1. UNCHANGED <<queue, futures, receipts, generation, failed, pc, current, verdict>>
    BY <1>5, Zenon DEF Close
  <2>2. answer' = NoAnswer
    BY <1>5 DEF Close
  <2> QED
    BY <1>0, <2>1, <2>2, FuturesStay, NobodyAnswered
<1> QED
  BY <1>1, <1>2, <1>3, <1>4, <1>5

\* The owner takes the oldest work, and runs it or not.
LEMMA TakenOff ==
  ASSUME TypeOK, FuturesOK, pc = "idle", queue # <<>>,
         current' = Head(queue), queue' = Tail(queue), pc' # "idle", verdict' \notin Failures,
         UNCHANGED <<generation, failed, receipts>>,
         \/ UNCHANGED futures
         \/ ~failed /\ futures' = [futures EXCEPT ![Head(queue).future].ran = generation]
  PROVE  /\ FuturesInOrder' /\ FuturesKnown' /\ GenerationsKnown' /\ ReceiptsKnown'
         /\ FailureEndsGeneration'
<1> USE DEF FuturesOK
<1>0. /\ futures \in Seq(Future) /\ Len(futures) \in Nat
      /\ Len(queue) \in Nat /\ generation \in Nat /\ generation > 0
      /\ \A f \in 1..Len(futures) : futures[f].ran \in Nat
  BY FutureTypes
<1>1. /\ Len(queue) > 0 /\ Head(queue) = queue[1] /\ Len(Tail(queue)) = Len(queue) - 1
      /\ \A i \in 1..Len(Tail(queue)) : Tail(queue)[i] = queue[i + 1]
  BY FutureTypes
<1>2. /\ Head(queue).future = Taken + 1 /\ Taken + 1 \in 1..Len(futures) /\ Taken \in Nat
      /\ Taken + Len(queue) = Len(futures)
  <2>1. queue[1].future = Taken + 1 /\ Len(queue) <= Len(futures)
    BY <1>0, <1>1 DEF FuturesInOrder
  <2> QED
    BY <1>0, <1>1, <2>1 DEF Taken
<1>3. /\ futures[Taken + 1].id = Head(queue).id
      /\ futures[Taken + 1].result = "pending"
      /\ futures[Taken + 1].ran = 0
  BY <1>1, <1>0 DEF FuturesKnown
<1>4. /\ Len(futures') = Len(futures)
      /\ \A f \in 1..Len(futures) : /\ futures'[f].id = futures[f].id
                                    /\ futures'[f].digest = futures[f].digest
                                    /\ futures'[f].result = futures[f].result
                                    /\ f # Taken + 1 => futures'[f].ran = futures[f].ran
      /\ futures'[Taken + 1].ran = 0 \/ (~failed /\ futures'[Taken + 1].ran = generation)
  <2>1. CASE UNCHANGED futures
    BY <1>3, <2>1
  <2>2. CASE ~failed /\ futures' = [futures EXCEPT ![Head(queue).future].ran = generation]
    <3>1. futures' = [futures EXCEPT ![Taken + 1].ran = generation]
      BY <1>2, <2>2
    <3> QED
      BY <1>0, <1>2, <2>2, <3>1, RanUpdated
  <2> QED
    BY <2>1, <2>2
<1>5. Taken' = Taken + 1
  BY <1>0, <1>1, <1>4 DEF Taken
<1>6. FuturesInOrder'
  <2>1. ASSUME NEW i \in 1..Len(queue') PROVE queue'[i].future = Taken' + i
    <3>1. i + 1 \in 1..Len(queue) /\ queue'[i] = queue[i + 1]
      BY <1>0, <1>1
    <3>2. queue[i + 1].future = Taken + (i + 1)
      BY <3>1 DEF FuturesInOrder
    <3> QED
      BY <1>2, <1>5, <3>1, <3>2
  <2> QED
    BY <1>0, <1>1, <1>2, <1>4, <1>5, <2>1 DEF FuturesInOrder
<1>7. FuturesKnown'
  <2>1. ASSUME NEW i \in 1..Len(queue')
        PROVE  /\ futures'[Taken' + i].id = queue'[i].id
               /\ futures'[Taken' + i].result = "pending"
               /\ futures'[Taken' + i].ran = 0
    <3>1. i + 1 \in 1..Len(queue) /\ queue'[i] = queue[i + 1]
      BY <1>0, <1>1
    <3>2. /\ Taken' + i = Taken + (i + 1) /\ Taken + (i + 1) # Taken + 1
          /\ Taken + (i + 1) \in 1..Len(futures)
      <4>1. i \in Nat \ {0}
        BY <1>0, <1>1
      <4>2. i + 1 <= Len(queue)
        BY <3>1
      <4>3. /\ (Taken + 1) + i = Taken + (i + 1) /\ Taken + (i + 1) # Taken + 1
            /\ Taken + (i + 1) \in 1..Len(futures)
        BY <1>0, <1>2, <4>1, <4>2, PlaceBehind
      <4> QED
        BY <1>5, <4>3
    <3>3. /\ futures[Taken + (i + 1)].id = queue[i + 1].id
          /\ futures[Taken + (i + 1)].result = "pending"
          /\ futures[Taken + (i + 1)].ran = 0
      BY <3>1 DEF FuturesKnown
    <3> QED
      BY <1>4, <3>1, <3>2, <3>3
  <2>2. futures'[Taken'].id = current'.id /\ futures'[Taken'].result = "pending"
    BY <1>2, <1>3, <1>4, <1>5
  <2> QED
    BY <2>1, <2>2 DEF FuturesKnown
<1>8. GenerationsKnown'
  <2>1. ASSUME NEW f \in 1..Len(futures')
        PROVE  /\ futures'[f].ran <= generation
               /\ futures'[f].result \in Failures => futures'[f].ran < generation \/ failed
    <3>1. CASE f = Taken + 1
      BY <1>0, <1>2, <1>3, <1>4, <3>1 DEF Failures
    <3>2. CASE f # Taken + 1
      BY <1>4, <2>1, <3>2 DEF GenerationsKnown
    <3> QED
      BY <3>1, <3>2
  <2> QED
    BY <2>1 DEF GenerationsKnown
<1>9. ReceiptsKnown'
  BY <1>4 DEF ReceiptsKnown
<1>10. FailureEndsGeneration'
  <2>1. ASSUME NEW f \in 1..Len(futures'), NEW g \in 1..Len(futures'), f < g,
               futures'[f].ran # 0, futures'[f].result \in Failures
        PROVE  futures'[g].ran # futures'[f].ran
    <3>1. f # Taken + 1 /\ f \in 1..Len(futures) /\ g \in 1..Len(futures)
      BY <1>2, <1>3, <1>4, <2>1 DEF Failures
    <3>2. futures'[f].ran = futures[f].ran /\ futures[f].result \in Failures
      BY <1>4, <2>1, <3>1
    <3>3. CASE g # Taken + 1
      BY <1>4, <2>1, <3>1, <3>2, <3>3 DEF FailureEndsGeneration, Failures
    <3>4. CASE g = Taken + 1
      <4>1. futures[f].ran < generation \/ failed
        BY <3>1, <3>2 DEF GenerationsKnown
      <4> QED
        BY <1>0, <1>4, <2>1, <3>1, <3>2, <3>4, <4>1
    <3> QED
      BY <3>3, <3>4
  <2> QED
    BY <2>1 DEF FailureEndsGeneration, Failures
<1> QED
  BY <1>6, <1>7, <1>8, <1>9, <1>10

\* What becomes of the receipts when work is settled.
LEMMA ReceiptsLeft ==
  ASSUME TypeOK, NEW dropped \in 0..Len(completed) + 1, Settle(dropped)
  PROVE  /\ DOMAIN receipts' \subseteq DOMAIN receipts
         /\ \A id \in DOMAIN receipts' : receipts'[id] = receipts[id]
         /\ current.id \in DOMAIN receipts' => verdict = "ok" \/ current.recovery
<1>1. CASE CommandSucceeded
  BY <1>1 DEF Settle, Retain, WithoutReceipts, CommandSucceeded
<1>2. CASE current.recovery /\ ~CommandSucceeded
  BY <1>2 DEF Settle, CommandSucceeded
<1>3. CASE ~current.recovery /\ ~CommandSucceeded
  BY <1>3 DEF Settle, WithoutReceipts
<1> QED
  BY <1>1, <1>2, <1>3

\* The outcome is reported.
LEMMA SettledFutures ==
  ASSUME TypeOK, FuturesOK, NEW dropped \in 0..Len(completed) + 1, Settle(dropped)
  PROVE  FuturesOK'
<1> USE DEF FuturesOK
<1>0. /\ futures \in Seq(Future) /\ Len(futures) \in Nat
      /\ Len(queue) \in Nat /\ generation \in Nat
      /\ \A f \in 1..Len(futures) : futures[f].ran \in Nat
  BY FutureTypes
<1>1. /\ pc # "idle" /\ pc' = "idle" /\ answer' = NoAnswer
      /\ UNCHANGED <<queue, generation>>
      /\ futures' = [futures EXCEPT ![current.future].result = verdict]
  BY DEF Settle
<1>2. failed' <=> failed
  BY Zenon DEF Settle
<1>3. /\ Taken \in 1..Len(futures) /\ current.future = Taken
      /\ Taken + Len(queue) = Len(futures)
  BY <1>0, <1>1 DEF FuturesInOrder, Taken
<1>4. /\ Len(futures') = Len(futures)
      /\ \A f \in 1..Len(futures) :
           /\ futures'[f].id = futures[f].id
           /\ futures'[f].digest = futures[f].digest
           /\ futures'[f].result = IF f = Taken THEN verdict ELSE futures[f].result
           /\ futures'[f].ran = futures[f].ran
  BY <1>0, <1>1, <1>3, ResultUpdated
<1>5. Taken' = Taken
  BY <1>1, <1>4 DEF Taken
<1>6. FuturesInOrder'
  BY <1>1, <1>4, <1>5 DEF FuturesInOrder
<1>7. FuturesKnown'
  <2>1. ASSUME NEW i \in 1..Len(queue) PROVE Taken + i \in 1..Len(futures) /\ Taken + i # Taken
    BY <1>0, <1>3
  <2> QED
    BY <1>1, <1>4, <1>5, <2>1 DEF FuturesKnown
<1>8. GenerationsKnown'
  <2>1. ASSUME NEW f \in 1..Len(futures)
        PROVE  /\ futures'[f].ran <= generation
               /\ futures'[f].result \in Failures => futures'[f].ran < generation \/ failed
    <3>1. CASE f = Taken
      BY <1>1, <1>4, <3>1 DEF GenerationsKnown
    <3>2. CASE f # Taken
      BY <1>4, <3>2 DEF GenerationsKnown
    <3> QED
      BY <3>1, <3>2
  <2> QED
    BY <1>1, <1>2, <1>4, <2>1 DEF GenerationsKnown
<1>9. FailureEndsGeneration'
  <2>1. ASSUME NEW f \in 1..Len(futures), NEW g \in 1..Len(futures), f < g,
               futures[f].ran # 0, futures'[f].result \in Failures
        PROVE  futures[g].ran # futures[f].ran
    <3>1. CASE f = Taken
      <4>1. g - Taken \in 1..Len(queue) /\ Taken + (g - Taken) = g
        BY <1>0, <1>3, <2>1, <3>1
      <4>2. futures[g].ran = 0
        BY <4>1 DEF FuturesKnown
      <4> QED
        BY <2>1, <4>2
    <3>2. CASE f # Taken
      BY <1>4, <2>1, <3>2 DEF FailureEndsGeneration, Failures
    <3> QED
      BY <3>1, <3>2
  <2> QED
    BY <1>4, <2>1 DEF FailureEndsGeneration, Failures
<1>10. ReceiptsKnown'
  <2>1. ASSUME NEW id \in DOMAIN receipts'
        PROVE  /\ receipts'[id].future \in 1..Len(futures')
               /\ futures'[receipts'[id].future].id = id
               /\ futures'[receipts'[id].future].digest = receipts'[id].digest
               /\ futures'[receipts'[id].future].result \in {"pending", "ok"}
    <3>1. id \in DOMAIN receipts /\ receipts'[id] = receipts[id] /\ id \in Identities
      BY ReceiptsLeft DEF TypeOK
    <3>2. /\ receipts[id].future \in 1..Len(futures)
          /\ futures[receipts[id].future].id = id
          /\ futures[receipts[id].future].digest = receipts[id].digest
          /\ futures[receipts[id].future].result \in {"pending", "ok"}
      BY <3>1 DEF ReceiptsKnown
    <3>3. CASE receipts[id].future # Taken
      BY <1>4, <3>1, <3>2, <3>3
    <3>4. CASE receipts[id].future = Taken
      <4>1. id = current.id
        BY <1>1, <3>2, <3>4 DEF FuturesKnown
      <4>2. ~current.recovery
        BY <3>1, <4>1, RuntimeAssumption, WorkFields DEF TypeOK, RecoveryWork
      <4>3. verdict = "ok"
        BY <2>1, <4>1, <4>2, ReceiptsLeft
      <4> QED
        BY <1>4, <3>1, <3>2, <3>4, <4>3
    <3> QED
      BY <3>3, <3>4
  <2> QED
    BY <2>1 DEF ReceiptsKnown
<1> QED
  BY <1>1, <1>6, <1>7, <1>8, <1>9, <1>10, NobodyAnswered

LEMMA OwnerFutures ==
  ASSUME TypeOK, FuturesOK, Owner
  PROVE  FuturesOK'
<1> USE DEF FuturesOK, mailboxVars, ownerVars
<1>0. generation \in Nat
  BY FutureTypes
<1>1. CASE TakeRecovery
  <2>1. /\ pc = "idle" /\ queue # <<>> /\ current' = Head(queue) /\ queue' = Tail(queue)
        /\ pc' # "idle" /\ verdict' \notin Failures /\ answer' = NoAnswer
        /\ UNCHANGED <<futures, receipts, generation>>
    BY <1>1 DEF TakeRecovery, HasWork, Failures
  <2>2. failed' = failed
    BY <1>1, Zenon DEF TakeRecovery
  <2> QED
    BY <2>1, <2>2, TakenOff, NobodyAnswered
<1>2. CASE TakeCommand
  <2>1. /\ pc = "idle" /\ queue # <<>> /\ current' = Head(queue) /\ queue' = Tail(queue)
        /\ pc' # "idle" /\ verdict' \notin Failures /\ answer' = NoAnswer
        /\ UNCHANGED <<receipts, generation>>
    BY <1>2 DEF TakeCommand, HasWork, Failures
  <2>2. failed' = failed
    BY <1>2, Zenon DEF TakeCommand
  <2>3. \/ UNCHANGED futures
        \/ ~failed /\ futures' = [futures EXCEPT ![Head(queue).future].ran = generation]
    BY <1>2 DEF TakeCommand
  <2> QED
    BY <2>1, <2>2, <2>3, TakenOff, NobodyAnswered
<1>3. ASSUME NEW result \in Results, ExecuteReturns(result) PROVE FuturesOK'
  <2>1. /\ UNCHANGED <<queue, futures, receipts, generation, current>> /\ pc # "idle"
        /\ verdict' \notin Failures /\ answer' = NoAnswer
    BY <1>3 DEF ExecuteReturns, Failures
  <2>2. failed' = failed
    BY <1>3, Zenon DEF ExecuteReturns
  <2> QED
    BY <1>0, <2>1, <2>2, FuturesStay, NobodyAnswered
<1>4. ASSUME NEW g \in Generations, ExecuteRecovered(g) PROVE FuturesOK'
  <2>1. /\ UNCHANGED <<queue, futures, receipts, current>> /\ pc # "idle"
        /\ answer' = NoAnswer /\ generation' = g /\ g > generation
    BY <1>4 DEF ExecuteRecovered, FreshGeneration
  <2>2. g \in Nat
    BY DEF Generations
  <2> QED
    BY <1>0, <2>1, <2>2, FuturesStay, NobodyAnswered
<1>5. CASE ExecuteBroke
  <2>1. /\ UNCHANGED <<queue, futures, receipts, generation, current>> /\ pc # "idle"
        /\ answer' = NoAnswer
    BY <1>5 DEF ExecuteBroke
  <2>2. failed'
    BY <1>5, Zenon DEF ExecuteBroke
  <2> QED
    BY <1>0, <2>1, <2>2, FuturesStay, NobodyAnswered
<1>6. ASSUME NEW success \in BOOLEAN, NEW g \in Generations, RecoverReturns(success, g)
      PROVE  FuturesOK'
  <2>1. /\ UNCHANGED <<queue, futures, receipts, current>> /\ pc # "idle"
        /\ answer' = NoAnswer
    BY <1>6 DEF RecoverReturns
  <2>2. g \in Nat
    BY DEF Generations
  <2>3. (generation' = g /\ g > generation) \/ (failed' /\ generation' = generation)
    <3>1. CASE success
      BY <1>6, <3>1 DEF RecoverReturns, FreshGeneration
    <3>2. CASE ~success
      <4>1. failed'
        BY <1>6, <3>2, Zenon DEF RecoverReturns
      <4>2. generation' = generation
        BY <1>6, <3>2 DEF RecoverReturns
      <4> QED
        BY <4>1, <4>2
    <3> QED
      BY <3>1, <3>2
  <2> QED
    BY <1>0, <2>1, <2>2, <2>3, FuturesStay, NobodyAnswered
<1>7. ASSUME NEW dropped \in 0..Len(completed) + 1, Settle(dropped) PROVE FuturesOK'
  BY <1>7, SettledFutures
<1>8. CASE Finish
  <2>1. /\ UNCHANGED <<queue, futures, receipts, generation, current, pc, verdict>>
        /\ answer' = NoAnswer
    BY <1>8 DEF Finish
  <2>2. failed' = failed
    BY <1>8, Zenon DEF Finish
  <2> QED
    BY <1>0, <2>1, <2>2, FuturesStay, NobodyAnswered
<1> QED
  BY <1>1, <1>2, <1>3, <1>4, <1>5, <1>6, <1>7, <1>8 DEF Owner

LEMMA NextFutures == TypeOK /\ FuturesOK /\ [Next]_vars => FuturesOK'
<1> SUFFICES ASSUME TypeOK, FuturesOK, [Next]_vars PROVE FuturesOK'
  OBVIOUS
<1>1. CASE UNCHANGED vars
  <2>1. UNCHANGED <<queue, futures, receipts, generation, failed, pc, current, verdict, answer>>
    BY <1>1, Zenon DEF vars
  <2>2. generation \in Nat
    BY FutureTypes
  <2>3. AnswerIsOwnRequest'
    BY <2>1 DEF FuturesOK, AnswerIsOwnRequest
  <2> QED
    BY <2>1, <2>2, <2>3, FuturesStay DEF FuturesOK
<1> QED
  BY <1>1, CallersFutures, OwnerFutures DEF Next

LEMMA InitFutures == Init => FuturesOK
<1> SUFFICES ASSUME Init PROVE FuturesOK
  OBVIOUS
<1>1. DOMAIN receipts = {}
  BY Zenon DEF Init
<1>2. /\ queue = <<>> /\ futures = <<>> /\ Len(queue) = 0 /\ Len(futures) = 0
      /\ pc = "idle" /\ answer = NoAnswer
  BY DEF Init
<1> QED
  BY <1>1, <1>2 DEF FuturesOK, FuturesInOrder, FuturesKnown, GenerationsKnown, ReceiptsKnown,
     FailureEndsGeneration, AnswerIsOwnRequest, NoAnswer, Taken

\* Whoever gets a future from Submit gets the one of its own request, never that
\* of an attempt that has failed: for any number of requests and callers.
THEOREM AnswersOwnRequest == Spec => []AnswerIsOwnRequest
<1>1. FuturesOK => AnswerIsOwnRequest
  BY DEF FuturesOK
<1> QED
  BY <1>1, InitTypeOK, NextTypeOK, InitFutures, NextFutures, PTL DEF Spec

\* After a failure no later command runs in the same generation, however many
\* recoveries fail, and whoever asks for another one.
THEOREM FailureEndsItsGeneration == Spec => []FailureEndsGeneration
<1>1. FuturesOK => FailureEndsGeneration
  BY DEF FuturesOK
<1> QED
  BY <1>1, InitTypeOK, NextTypeOK, InitFutures, NextFutures, PTL DEF Spec

-----------------------------------------------------------------------------
(* Identities in flight and retained *)

Queued == {queue[i].id : i \in {k \in 1..Len(queue) : ~queue[k].recovery}}

Executed == IF pc # "idle" /\ ~current.recovery THEN {current.id} ELSE {}

Retained == {completed[j] : j \in 1..Len(completed)}

QueueIsSingle ==
  \A i, j \in 1..Len(queue) :
    ~queue[i].recovery /\ ~queue[j].recovery /\ queue[i].id = queue[j].id => i = j

CompletedIsSingle ==
  \A i, j \in 1..Len(completed) : completed[i] = completed[j] => i = j

\* The receipts are of the commands queued, executed and retained, each of them
\* once, and the command of a Submit in progress has none.
IdentitiesKnown ==
  /\ QueueIsSingle /\ CompletedIsSingle
  /\ Queued \cap Executed = {} /\ Queued \cap Retained = {} /\ Executed \cap Retained = {}
  /\ DOMAIN receipts = Queued \cup Executed \cup Retained
  /\ admitting # NoCommand => admitting.id \notin DOMAIN receipts

LEMMA QueueTypes ==
  ASSUME TypeOK
  PROVE  /\ queue \in Seq(Work) /\ Len(queue) \in Nat
         /\ completed \in Seq(Identities) /\ Len(completed) \in Nat
BY DEF TypeOK

\* The identities of the queue, of the command executed and of the retained
\* successes stay where they are.
LEMMA IdentitiesStay ==
  ASSUME IdentitiesKnown, UNCHANGED <<queue, completed, receipts>>,
         Executed' = Executed,
         admitting' # NoCommand => admitting'.id \notin DOMAIN receipts
  PROVE  IdentitiesKnown'
<1>1. Queued' = Queued /\ Retained' = Retained /\ DOMAIN receipts' = DOMAIN receipts
  BY DEF Queued, Retained
<1>2. QueueIsSingle' /\ CompletedIsSingle'
  BY DEF IdentitiesKnown, QueueIsSingle, CompletedIsSingle
<1> QED
  BY <1>1, <1>2 DEF IdentitiesKnown

\* One more item.
LEMMA QueueGrows ==
  ASSUME TypeOK, NEW w \in Work, queue' = Append(queue, w), QueueIsSingle,
         ~w.recovery => w.id \notin Queued
  PROVE  /\ QueueIsSingle'
         /\ Queued' = IF w.recovery THEN Queued ELSE Queued \cup {w.id}
<1>1. /\ Len(queue) \in Nat /\ Len(queue') = Len(queue) + 1
      /\ \A i \in 1..Len(queue) : queue'[i] = queue[i]
      /\ queue'[Len(queue) + 1] = w
  BY QueueTypes, AppendProperties
<1>2. \A i \in 1..Len(queue') : i \in 1..Len(queue) \/ i = Len(queue) + 1
  BY <1>1
<1>3. \A i \in 1..Len(queue) : i \in 1..Len(queue')
  BY <1>1
<1>4. Len(queue) + 1 \in 1..Len(queue')
  BY <1>1
<1>5. \A i \in 1..Len(queue) : ~queue[i].recovery => queue[i].id \in Queued
  BY DEF Queued
<1>6. QueueIsSingle'
  <2>1. ASSUME NEW i \in 1..Len(queue'), NEW j \in 1..Len(queue'),
               ~queue'[i].recovery, ~queue'[j].recovery, queue'[i].id = queue'[j].id
        PROVE  i = j
    <3>1. CASE i \in 1..Len(queue) /\ j \in 1..Len(queue)
      BY <1>1, <2>1, <3>1 DEF QueueIsSingle
    <3>2. CASE i \in 1..Len(queue) /\ j = Len(queue) + 1
      BY <1>1, <1>5, <2>1, <3>2
    <3>3. CASE i = Len(queue) + 1 /\ j \in 1..Len(queue)
      BY <1>1, <1>5, <2>1, <3>3
    <3> QED
      BY <1>2, <3>1, <3>2, <3>3
  <2> QED
    BY <2>1 DEF QueueIsSingle
<1>7. ASSUME NEW x
      PROVE  x \in Queued' <=> x \in Queued \/ (~w.recovery /\ x = w.id)
  <2>1. x \in Queued' <=>
          \E i \in 1..Len(queue') : ~queue'[i].recovery /\ queue'[i].id = x
    BY DEF Queued
  <2>2. x \in Queued <=> \E i \in 1..Len(queue) : ~queue[i].recovery /\ queue[i].id = x
    BY DEF Queued
  <2>3. ASSUME NEW i \in 1..Len(queue'), ~queue'[i].recovery, queue'[i].id = x
        PROVE  x \in Queued \/ (~w.recovery /\ x = w.id)
    <3>1. CASE i \in 1..Len(queue)
      BY <1>1, <2>2, <2>3, <3>1
    <3>2. CASE i = Len(queue) + 1
      BY <1>1, <2>3, <3>2
    <3> QED
      BY <1>2, <3>1, <3>2
  <2>4. ASSUME NEW i \in 1..Len(queue), ~queue[i].recovery, queue[i].id = x
        PROVE  x \in Queued'
    <3>1. i \in 1..Len(queue') /\ queue'[i] = queue[i]
      BY <1>1, <1>3
    <3> QED
      BY <2>1, <2>4, <3>1
  <2>5. ASSUME ~w.recovery, x = w.id PROVE x \in Queued'
    BY <1>1, <1>4, <2>1, <2>5
  <2> QED
    BY <2>1, <2>2, <2>3, <2>4, <2>5
<1> QED
  BY <1>6, <1>7

\* The oldest item is taken.
LEMMA QueueShrinks ==
  ASSUME TypeOK, queue # <<>>, queue' = Tail(queue), QueueIsSingle
  PROVE  /\ QueueIsSingle'
         /\ Queued = Queued' \cup (IF Head(queue).recovery THEN {} ELSE {Head(queue).id})
         /\ ~Head(queue).recovery => Head(queue).id \notin Queued'
<1>1. /\ Len(queue) \in Nat /\ Len(queue) > 0 /\ Head(queue) = queue[1]
      /\ Len(queue') = Len(queue) - 1
      /\ \A i \in 1..Len(queue') : queue'[i] = queue[i + 1]
  BY QueueTypes
<1>2. \A i \in 1..Len(queue') : i + 1 \in 1..Len(queue) /\ i + 1 # 1
  BY <1>1
<1>3. 1 \in 1..Len(queue) /\ \A i \in 1..Len(queue) : i = 1 \/ (i - 1 \in 1..Len(queue') /\ queue'[i - 1] = queue[i])
  BY <1>1
<1>4. QueueIsSingle'
  <2>1. ASSUME NEW i \in 1..Len(queue'), NEW j \in 1..Len(queue'),
               ~queue'[i].recovery, ~queue'[j].recovery, queue'[i].id = queue'[j].id
        PROVE  i = j
    <3>1. i + 1 = j + 1
      BY <1>1, <1>2, <2>1 DEF QueueIsSingle
    <3> QED
      BY <3>1
  <2> QED
    BY <2>1 DEF QueueIsSingle
<1>5. ASSUME NEW x
      PROVE  x \in Queued <=> x \in Queued' \/ (~queue[1].recovery /\ x = queue[1].id)
  <2>1. x \in Queued' <=>
          \E i \in 1..Len(queue') : ~queue'[i].recovery /\ queue'[i].id = x
    BY DEF Queued
  <2>2. x \in Queued <=> \E i \in 1..Len(queue) : ~queue[i].recovery /\ queue[i].id = x
    BY DEF Queued
  <2>3. ASSUME NEW i \in 1..Len(queue'), ~queue'[i].recovery, queue'[i].id = x
        PROVE  x \in Queued
    BY <1>1, <1>2, <2>2, <2>3
  <2>4. ASSUME NEW i \in 1..Len(queue), ~queue[i].recovery, queue[i].id = x
        PROVE  x \in Queued' \/ (~queue[1].recovery /\ x = queue[1].id)
    BY <1>3, <2>1, <2>4
  <2> QED
    BY <1>3, <2>1, <2>2, <2>3, <2>4
<1>6. ASSUME ~queue[1].recovery PROVE queue[1].id \notin Queued'
  <2>1. SUFFICES ASSUME NEW i \in 1..Len(queue'), ~queue'[i].recovery,
                        queue'[i].id = queue[1].id
                 PROVE  FALSE
    BY DEF Queued
  <2> QED
    BY <1>1, <1>2, <1>3, <1>6, <2>1 DEF QueueIsSingle
<1> QED
  BY <1>1, <1>4, <1>5, <1>6

LEMMA CallersIdentities ==
  ASSUME TypeOK, IdentitiesKnown,
         \/ \E c \in Command : SubmitJoins(c) \/ SubmitAdmits(c)
         \/ SubmitEnqueues \/ Recover \/ Close
  PROVE  IdentitiesKnown'
<1> USE DEF mailboxVars, ownerVars
<1>1. ASSUME NEW c \in Command, SubmitJoins(c) PROVE IdentitiesKnown'
  BY <1>1, IdentitiesStay DEF SubmitJoins, Executed, IdentitiesKnown
<1>2. ASSUME NEW c \in Command, SubmitAdmits(c) PROVE IdentitiesKnown'
  BY <1>2, IdentitiesStay DEF SubmitAdmits, Executed
<1>3. CASE SubmitEnqueues
  <2> DEFINE c == admitting
             f == Len(futures) + 1
             w == [id |-> c.id, digest |-> c.digest, expected |-> c.expected,
                   bytes |-> CommandBytes[c.digest], recovery |-> FALSE,
                   generation |-> generation, future |-> f]
  <2>1. c \in Command
    BY <1>3 DEF TypeOK, SubmitEnqueues
  <2>2. w \in Work /\ w.id = c.id
    <3>1. w \in CommandWork
      BY <2>1, Constants DEF TypeOK, CommandWork, Command
    <3> QED
      BY <3>1 DEF Work
  <2>3. ~w.recovery
    BY Zenon
  <2>4. queue' = Append(queue, w) /\ DOMAIN receipts' = DOMAIN receipts \cup {c.id}
    BY <1>3 DEF SubmitEnqueues, Enqueued
  <2>5. c.id \notin DOMAIN receipts
    BY <1>3 DEF SubmitEnqueues, IdentitiesKnown
  <2>6. UNCHANGED <<completed, pc, current>> /\ admitting' = NoCommand
    BY <1>3 DEF SubmitEnqueues
  <2> HIDE DEF w, c
  <2>7. QueueIsSingle' /\ Queued' = Queued \cup {c.id}
    BY <2>2, <2>3, <2>4, <2>5, QueueGrows DEF IdentitiesKnown
  <2>8. Executed' = Executed /\ Retained' = Retained /\ (CompletedIsSingle => CompletedIsSingle')
    BY <2>6 DEF Executed, Retained, CompletedIsSingle
  <2> QED
    BY <2>4, <2>5, <2>6, <2>7, <2>8 DEF IdentitiesKnown
<1>4. CASE Recover
  <2> DEFINE w == [NoWork EXCEPT !.future = Len(futures) + 1]
  <2>1. w \in RecoveryWork
    <3>1. Len(futures) + 1 \in Nat
      BY DEF TypeOK
    <3> QED
      BY <3>1, RecoveryIsWork
  <2>2. w \in Work /\ w.recovery
    <3>1. w.recovery
      BY <2>1, Zenon DEF NoWork
    <3> QED
      BY <2>1, <3>1 DEF Work
  <2>3. queue' = Append(queue, w)
    BY <1>4 DEF Recover, Enqueued
  <2>4. UNCHANGED <<receipts, completed, pc, current, admitting>>
    BY <1>4 DEF Recover
  <2> HIDE DEF w
  <2>5. QueueIsSingle' /\ Queued' = Queued
    BY <2>2, <2>3, QueueGrows DEF IdentitiesKnown
  <2>6. Executed' = Executed /\ Retained' = Retained /\ (CompletedIsSingle => CompletedIsSingle')
    BY <2>4 DEF Executed, Retained, CompletedIsSingle
  <2> QED
    BY <2>4, <2>5, <2>6 DEF IdentitiesKnown
<1>5. CASE Close
  BY <1>5, IdentitiesStay DEF Close, Executed, IdentitiesKnown
<1> QED
  BY <1>1, <1>2, <1>3, <1>4, <1>5

\* The oldest item is taken off: its identity is in execution.
LEMMA TakenIdentities ==
  ASSUME TypeOK, IdentitiesKnown, pc = "idle", queue # <<>>,
         current' = Head(queue), queue' = Tail(queue), pc' # "idle",
         UNCHANGED <<receipts, completed, admitting>>
  PROVE  IdentitiesKnown'
<1>1. /\ QueueIsSingle'
      /\ Queued = Queued' \cup (IF Head(queue).recovery THEN {} ELSE {Head(queue).id})
      /\ ~Head(queue).recovery => Head(queue).id \notin Queued'
  BY QueueShrinks DEF IdentitiesKnown
<1>2. Executed = {} /\ Executed' = IF Head(queue).recovery THEN {} ELSE {Head(queue).id}
  BY DEF Executed
<1>3. Retained' = Retained /\ (CompletedIsSingle => CompletedIsSingle')
  BY DEF Retained, CompletedIsSingle
<1> QED
  BY <1>1, <1>2, <1>3 DEF IdentitiesKnown

\* The tail of a sequence without repetitions.
Single(s) == \A i, j \in 1..Len(s) : s[i] = s[j] => i = j

First(s, n) == {s[i] : i \in 1..n}

LEMMA DroppedPrefix ==
  ASSUME NEW s \in Seq(Identities), NEW n \in 0..Len(s), Single(s)
  PROVE  /\ Single(SubSeq(s, n + 1, Len(s)))
         /\ First(SubSeq(s, n + 1, Len(s)), Len(SubSeq(s, n + 1, Len(s)))) =
              First(s, Len(s)) \ First(s, n)
<1> DEFINE t == SubSeq(s, n + 1, Len(s))
<1>1. Len(s) \in Nat /\ n \in Nat /\ n <= Len(s)
  OBVIOUS
<1>2. Len(t) = Len(s) - n /\ \A i \in 1..Len(t) : t[i] = s[i + n]
  BY <1>1, SubSeqProperties
<1> HIDE DEF t
<1>3. \A i \in 1..Len(t) : i + n \in 1..Len(s) /\ i + n \notin 1..n
  BY <1>1, <1>2
<1>4. \A i \in 1..Len(s) : i \notin 1..n => i - n \in 1..Len(t) /\ t[i - n] = s[i]
  BY <1>1, <1>2
<1>5. ASSUME NEW i \in 1..Len(t), NEW j \in 1..Len(t), t[i] = t[j] PROVE i = j
  <2>1. i + n = j + n
    BY <1>2, <1>3, <1>5 DEF Single
  <2> QED
    BY <1>1, <2>1
<1>6. ASSUME NEW x, x \in {t[i] : i \in 1..Len(t)}
      PROVE  x \in {s[i] : i \in 1..Len(s)} \ {s[i] : i \in 1..n}
  <2>1. PICK i \in 1..Len(t) : x = t[i]
    BY <1>6
  <2>2. x = s[i + n] /\ i + n \in 1..Len(s) /\ i + n \notin 1..n
    BY <1>2, <1>3, <2>1
  <2>3. \A j \in 1..n : j \in 1..Len(s)
    BY <1>1
  <2> QED
    BY <2>2, <2>3 DEF Single
<1>7. ASSUME NEW x, x \in {s[i] : i \in 1..Len(s)} \ {s[i] : i \in 1..n}
      PROVE  x \in {t[i] : i \in 1..Len(t)}
  <2>1. PICK i \in 1..Len(s) : x = s[i]
    BY <1>7
  <2>2. i \notin 1..n
    BY <1>7, <2>1
  <2> QED
    BY <1>4, <2>1, <2>2
<1>8. Single(t) /\ First(t, Len(t)) = First(s, Len(s)) \ First(s, n)
  BY <1>5, <1>6, <1>7 DEF Single, First
<1> QED
  BY <1>8 DEF t

LEMMA SettledIdentities ==
  ASSUME TypeOK, IdentitiesKnown, NEW dropped \in 0..Len(completed) + 1, Settle(dropped)
  PROVE  IdentitiesKnown'
<1>1. /\ UNCHANGED <<queue, admitting>> /\ admitting = NoCommand
      /\ pc # "idle" /\ pc' = "idle"
  BY DEF Settle, MuFree
<1>2. /\ Executed' = {} /\ Queued' = Queued /\ QueueIsSingle'
  BY <1>1 DEF Executed, Queued, QueueIsSingle, IdentitiesKnown
<1>3. CASE CommandSucceeded
  <2> DEFINE done == Append(completed, current.id)
  <2>1. current.id \in Identities /\ ~current.recovery /\ Executed = {current.id}
    BY <1>1, <1>3, WorkFields DEF CommandSucceeded, TypeOK, Executed
  <2>2. /\ Len(completed) \in Nat /\ done \in Seq(Identities) /\ Len(done) = Len(completed) + 1
        /\ \A i \in 1..Len(completed) : done[i] = completed[i]
        /\ done[Len(completed) + 1] = current.id
    BY <2>1, QueueTypes, AppendProperties
  <2>3. /\ dropped \in 0..Len(done)
        /\ completed' = SubSeq(done, dropped + 1, Len(done))
        /\ DOMAIN receipts' = DOMAIN receipts \ {done[i] : i \in 1..dropped}
    BY <1>3 DEF Settle, Retain, WithoutReceipts
  <2> HIDE DEF done
  <2>4. \A i \in 1..Len(done) : i \in 1..Len(completed) \/ i = Len(completed) + 1
    BY <2>2
  <2>5. \A i \in 1..Len(completed) : i \in 1..Len(done) /\ completed[i] # current.id
    <3>1. \A i \in 1..Len(completed) : completed[i] \in Retained
      BY DEF Retained
    <3> QED
      BY <2>1, <2>2, <3>1 DEF IdentitiesKnown
  <2>6. \A i, j \in 1..Len(done) : done[i] = done[j] => i = j
    <3>1. ASSUME NEW i \in 1..Len(done), NEW j \in 1..Len(done), done[i] = done[j] PROVE i = j
      <4>1. CASE i \in 1..Len(completed) /\ j \in 1..Len(completed)
        BY <2>2, <3>1, <4>1 DEF IdentitiesKnown, CompletedIsSingle
      <4>2. CASE ~(i \in 1..Len(completed) /\ j \in 1..Len(completed))
        BY <2>2, <2>4, <2>5, <3>1, <4>2
      <4> QED
        BY <4>1, <4>2
    <3> QED
      BY <3>1
  <2>7. {done[i] : i \in 1..Len(done)} = Retained \cup {current.id}
    <3>1. Len(completed) + 1 \in 1..Len(done)
      BY <2>2
    <3>2. \A i \in 1..Len(done) : done[i] \in Retained \cup {current.id}
      BY <2>2, <2>4 DEF Retained
    <3>3. \A i \in 1..Len(completed) : completed[i] \in {done[k] : k \in 1..Len(done)}
      BY <2>2, <2>5
    <3>4. current.id \in {done[k] : k \in 1..Len(done)}
      BY <2>2, <3>1
    <3> QED
      BY <3>2, <3>3, <3>4 DEF Retained
  <2>8. CompletedIsSingle' /\ Retained' = {done[i] : i \in 1..Len(done)} \ {done[i] : i \in 1..dropped}
    <3>1. Single(done) /\ done \in Seq(Identities) /\ dropped \in 0..Len(done)
      BY <2>2, <2>3, <2>6 DEF Single
    <3>2. Single(completed') /\ First(completed', Len(completed')) = First(done, Len(done)) \ First(done, dropped)
      BY <2>3, <3>1, DroppedPrefix
    <3> QED
      BY <3>2 DEF Single, First, CompletedIsSingle, Retained
  <2>9. {done[i] : i \in 1..dropped} \subseteq Retained \cup {current.id}
    <3>1. \A i \in 1..dropped : i \in 1..Len(done)
      BY <2>2, <2>3
    <3> QED
      BY <2>7, <3>1
  <2> QED
    BY <1>1, <1>2, <2>1, <2>3, <2>7, <2>8, <2>9 DEF IdentitiesKnown
<1>4. CASE current.recovery /\ ~CommandSucceeded
  <2>1. UNCHANGED <<receipts, completed>> /\ Executed = {}
    BY <1>1, <1>4 DEF Settle, Executed
  <2> QED
    BY <1>1, <1>2, <2>1 DEF IdentitiesKnown, CompletedIsSingle, Retained
<1>5. CASE ~current.recovery /\ ~CommandSucceeded
  <2>1. UNCHANGED completed /\ DOMAIN receipts' = DOMAIN receipts \ {current.id}
    BY <1>5 DEF Settle, WithoutReceipts
  <2>2. Executed = {current.id}
    BY <1>1, <1>5 DEF Executed
  <2>3. Retained' = Retained /\ CompletedIsSingle'
    BY <2>1 DEF Retained, CompletedIsSingle, IdentitiesKnown
  <2> QED
    BY <1>1, <1>2, <2>1, <2>2, <2>3 DEF IdentitiesKnown
<1> QED
  BY <1>3, <1>4, <1>5

LEMMA NextIdentities == TypeOK /\ IdentitiesKnown /\ [Next]_vars => IdentitiesKnown'
<1> SUFFICES ASSUME TypeOK, IdentitiesKnown, [Next]_vars PROVE IdentitiesKnown'
  OBVIOUS
<1> USE DEF mailboxVars, ownerVars
<1>0. admitting # NoCommand => admitting.id \notin DOMAIN receipts
  BY DEF IdentitiesKnown
<1>1. CASE TakeRecovery
  BY <1>1, TakenIdentities DEF TakeRecovery, HasWork
<1>2. CASE TakeCommand
  BY <1>2, TakenIdentities DEF TakeCommand, HasWork
<1>3. ASSUME NEW result \in Results, ExecuteReturns(result) PROVE IdentitiesKnown'
  BY <1>0, <1>3, IdentitiesStay DEF ExecuteReturns, Executed
<1>4. ASSUME NEW g \in Generations, ExecuteRecovered(g) PROVE IdentitiesKnown'
  BY <1>0, <1>4, IdentitiesStay DEF ExecuteRecovered, Executed
<1>5. CASE ExecuteBroke
  BY <1>0, <1>5, IdentitiesStay DEF ExecuteBroke, Executed
<1>6. ASSUME NEW success \in BOOLEAN, NEW g \in Generations, RecoverReturns(success, g)
      PROVE  IdentitiesKnown'
  BY <1>0, <1>6, IdentitiesStay DEF RecoverReturns, Executed
<1>7. ASSUME NEW dropped \in 0..Len(completed) + 1, Settle(dropped) PROVE IdentitiesKnown'
  BY <1>7, SettledIdentities
<1>8. CASE Finish
  BY <1>0, <1>8, IdentitiesStay DEF Finish, Executed
<1>9. CASE UNCHANGED vars
  BY <1>0, <1>9, IdentitiesStay DEF vars, Executed
<1> QED
  BY <1>1, <1>2, <1>3, <1>4, <1>5, <1>6, <1>7, <1>8, <1>9, CallersIdentities DEF Next, Owner

LEMMA InitIdentities == Init => IdentitiesKnown
<1> SUFFICES ASSUME Init PROVE IdentitiesKnown
  OBVIOUS
<1>1. DOMAIN receipts = {}
  BY Zenon DEF Init
<1>2. /\ queue = <<>> /\ completed = <<>> /\ pc = "idle" /\ admitting = NoCommand
      /\ Len(queue) = 0 /\ Len(completed) = 0
  BY DEF Init
<1> QED
  BY <1>1, <1>2 DEF IdentitiesKnown, QueueIsSingle, CompletedIsSingle, Queued, Executed, Retained

\* The work that is not settled, at its places.
LEMMA UnsettledPlaces ==
  ASSUME TypeOK
  PROVE  /\ pc = "idle" => Unsettled = queue
         /\ pc # "idle" =>
              /\ Len(Unsettled) = Len(queue) + 1
              /\ Unsettled[1] = current
              /\ \A i \in 1..Len(queue) : Unsettled[i + 1] = queue[i]
<1>1. queue \in Seq(Work) /\ <<current>> \in Seq(Work)
  BY DEF TypeOK
<1>2. pc # "idle" => Unsettled = <<current>> \o queue
  BY DEF Unsettled
<1>3. /\ Len(<<current>> \o queue) = Len(queue) + 1
      /\ (<<current>> \o queue)[1] = current
      /\ \A i \in 1..Len(queue) : (<<current>> \o queue)[i + 1] = queue[i]
  BY <1>1
<1> QED
  BY <1>2, <1>3 DEF Unsettled

LEMMA IdentitiesCoherent == TypeOK /\ IdentitiesKnown => ReceiptsCoherent
<1> SUFFICES ASSUME TypeOK, IdentitiesKnown PROVE ReceiptsCoherent
  OBVIOUS
<1>0. Len(queue) \in Nat
  BY QueueTypes
<1>1. ASSUME NEW i \in CommandsUnsettled, NEW j \in CommandsUnsettled,
             Unsettled[i].id = Unsettled[j].id
      PROVE  i = j
  <2>1. CASE pc = "idle"
    BY <1>1, <2>1, UnsettledPlaces DEF CommandsUnsettled, IdentitiesKnown, QueueIsSingle
  <2>2. CASE pc # "idle"
    <3>1. \A k \in CommandsUnsettled :
            \/ k = 1 /\ Unsettled[k].id \in Executed
            \/ k - 1 \in 1..Len(queue) /\ Unsettled[k] = queue[k - 1]
      BY <1>0, <2>2, UnsettledPlaces DEF CommandsUnsettled, Executed
    <3>2. \A k \in 1..Len(queue) : ~queue[k].recovery => queue[k].id \in Queued
      BY DEF Queued
    <3>3. ~Unsettled[i].recovery /\ ~Unsettled[j].recovery /\ i \in Nat /\ j \in Nat
      BY DEF CommandsUnsettled
    <3>4. CASE i = 1 \/ j = 1
      BY <1>1, <3>1, <3>2, <3>3, <3>4 DEF IdentitiesKnown
    <3>5. CASE i # 1 /\ j # 1
      <4>1. i - 1 = j - 1
        BY <1>1, <3>1, <3>3, <3>5 DEF IdentitiesKnown, QueueIsSingle
      <4> QED
        BY <3>3, <4>1
    <3> QED
      BY <3>4, <3>5
  <2> QED
    BY <2>1, <2>2
<1>2. {Unsettled[i].id : i \in CommandsUnsettled} = Queued \cup Executed
  <2>1. CASE pc = "idle"
    BY <2>1, UnsettledPlaces DEF CommandsUnsettled, Queued, Executed
  <2>2. CASE pc # "idle"
    <3>1. ASSUME NEW i \in CommandsUnsettled PROVE Unsettled[i].id \in Queued \cup Executed
      <4>1. \/ i = 1 /\ ~current.recovery /\ Unsettled[i] = current
            \/ i - 1 \in 1..Len(queue) /\ Unsettled[i] = queue[i - 1] /\ ~queue[i - 1].recovery
        BY <1>0, <2>2, UnsettledPlaces DEF CommandsUnsettled
      <4> QED
        BY <2>2, <4>1 DEF Queued, Executed
    <3>2. ASSUME NEW x \in Queued PROVE x \in {Unsettled[i].id : i \in CommandsUnsettled}
      <4>1. PICK i \in 1..Len(queue) : ~queue[i].recovery /\ x = queue[i].id
        BY DEF Queued
      <4>2. i + 1 \in CommandsUnsettled /\ Unsettled[i + 1].id = x
        BY <1>0, <2>2, <4>1, UnsettledPlaces DEF CommandsUnsettled
      <4> QED
        BY <4>2
    <3>3. ASSUME NEW x \in Executed PROVE x \in {Unsettled[i].id : i \in CommandsUnsettled}
      <4>1. ~current.recovery /\ x = current.id
        BY <3>3 DEF Executed
      <4>2. 1 \in CommandsUnsettled /\ Unsettled[1].id = x
        BY <1>0, <2>2, <4>1, UnsettledPlaces DEF CommandsUnsettled
      <4> QED
        BY <4>2
    <3> QED
      BY <3>1, <3>2, <3>3
  <2> QED
    BY <2>1, <2>2
<1>3. \A i \in CommandsUnsettled, j \in 1..Len(completed) : Unsettled[i].id # completed[j]
  <2>1. \A j \in 1..Len(completed) : completed[j] \in Retained
    BY DEF Retained
  <2>2. \A i \in CommandsUnsettled : Unsettled[i].id \in Queued \cup Executed
    BY <1>2
  <2> QED
    BY <2>1, <2>2 DEF IdentitiesKnown
<1> QED
  BY <1>1, <1>2, <1>3 DEF ReceiptsCoherent, IdentitiesKnown, CompletedIsSingle, Retained

\* The receipts are those of the commands in flight and of the retained
\* successes, each once: for any number of requests, failures and recoveries.
THEOREM ReceiptsAreExact == Spec => []ReceiptsCoherent
BY InitTypeOK, NextTypeOK, InitIdentities, NextIdentities, IdentitiesCoherent, PTL DEF Spec

-----------------------------------------------------------------------------
(* The limits of the mailbox *)

\* What Submit found room for is still free when it sends: only the owner runs
\* meanwhile, and it makes room.
Reserved ==
  /\ pending = Len(queue) + (IF pc = "idle" THEN 0 ELSE 1)
  /\ pending + (IF MuFree THEN 0 ELSE 1) <= MaxCommands
  /\ bytes <= MaxBytes
  /\ admitting # NoCommand => ~closing /\ CommandBytes[admitting.digest] <= MaxBytes - bytes

LEMMA CountTypes ==
  ASSUME TypeOK
  PROVE  /\ queue \in Seq(Work) /\ Len(queue) \in Nat /\ pending \in Int /\ bytes \in Int
         /\ MaxCommands \in Nat /\ MaxBytes \in Nat /\ RecoveryBytes \in Nat
         /\ current.bytes \in Nat
         /\ admitting # NoCommand => admitting \in Command /\ CommandBytes[admitting.digest] \in Nat
<1>1. current.bytes \in Nat
  BY WorkFields DEF TypeOK
<1>2. admitting # NoCommand => admitting \in Command /\ CommandBytes[admitting.digest] \in Nat
  BY Constants DEF TypeOK
<1> QED
  BY <1>1, <1>2, RuntimeAssumption DEF TypeOK

\* The channel and the counters do not change, nor does Submit.
LEMMA ReservedStays ==
  ASSUME Reserved, UNCHANGED <<queue, pending, bytes, closing, admitting>>,
         (pc' = "idle") = (pc = "idle")
  PROVE  Reserved'
BY DEF Reserved, MuFree

LEMMA CallersReserved ==
  ASSUME TypeOK, TypeOK', Reserved,
         \/ \E c \in Command : SubmitJoins(c) \/ SubmitAdmits(c)
         \/ SubmitEnqueues \/ Recover \/ Close
  PROVE  Reserved'
<1> USE DEF mailboxVars, ownerVars
<1>1. ASSUME NEW c \in Command, SubmitJoins(c) PROVE Reserved'
  BY <1>1, ReservedStays DEF SubmitJoins
<1>2. ASSUME NEW c \in Command, SubmitAdmits(c) PROVE Reserved'
  <2>1. /\ UNCHANGED <<queue, pending, bytes, closing, pc>> /\ admitting' = c /\ ~closing
        /\ pending < MaxCommands /\ CommandBytes[c.digest] <= MaxBytes - bytes
    BY <1>2 DEF SubmitAdmits, HasRoom
  <2>2. pending <= MaxCommands /\ pending + 1 <= MaxCommands /\ pending + 0 <= MaxCommands
    BY <2>1, CountTypes
  <2>3. /\ pending' = Len(queue') + (IF pc' = "idle" THEN 0 ELSE 1) /\ bytes' <= MaxBytes
    BY <2>1 DEF Reserved
  <2>4. pending' + (IF admitting' = NoCommand THEN 0 ELSE 1) <= MaxCommands
    BY <2>1, <2>2
  <2>5. ~closing' /\ CommandBytes[admitting'.digest] <= MaxBytes - bytes'
    BY <2>1
  <2> QED
    BY <2>3, <2>4, <2>5, Zenon DEF Reserved, MuFree
<1>3. ASSUME SubmitEnqueues PROVE Reserved'
  <2>1. /\ admitting # NoCommand /\ admitting' = NoCommand /\ pending' = pending + 1
        /\ bytes' = bytes + CommandBytes[admitting.digest] /\ UNCHANGED <<closing, pc>>
    BY <1>3 DEF SubmitEnqueues
  <2>2. Len(queue') = Len(queue) + 1
    BY <1>3 DEF SubmitEnqueues, Enqueued, TypeOK
  <2>3. /\ pending + 1 <= MaxCommands /\ CommandBytes[admitting.digest] <= MaxBytes - bytes
        /\ pending = Len(queue) + (IF pc = "idle" THEN 0 ELSE 1)
    BY <2>1 DEF Reserved, MuFree
  <2> QED
    BY <2>1, <2>2, <2>3, CountTypes DEF Reserved, MuFree
<1>4. ASSUME Recover PROVE Reserved'
  <2>1. /\ UNCHANGED <<closing, pc, admitting>> /\ admitting = NoCommand
        /\ pending' = pending + 1 /\ pending < MaxCommands
        /\ bytes' = bytes + RecoveryBytes /\ RecoveryBytes <= MaxBytes - bytes
    BY <1>4 DEF Recover, HasRoom, MuFree
  <2>2. Len(queue') = Len(queue) + 1
    BY <1>4 DEF Recover, Enqueued, TypeOK
  <2>3. pending = Len(queue) + (IF pc = "idle" THEN 0 ELSE 1)
    BY DEF Reserved
  <2> QED
    BY <2>1, <2>2, <2>3, CountTypes DEF Reserved, MuFree
<1>5. ASSUME Close PROVE Reserved'
  BY <1>5 DEF Close, Reserved, MuFree
<1> QED
  BY <1>1, <1>2, <1>3, <1>4, <1>5

LEMMA OwnerReserved ==
  ASSUME TypeOK, TypeOK', Reserved, Owner
  PROVE  Reserved'
<1> USE DEF mailboxVars, ownerVars
<1>1. CASE TakeRecovery \/ TakeCommand
  <2>1. /\ pc = "idle" /\ pc' # "idle" /\ queue # <<>> /\ queue' = Tail(queue)
        /\ UNCHANGED <<pending, bytes, closing, admitting>>
    BY <1>1 DEF TakeRecovery, TakeCommand, HasWork
  <2>2. Len(queue') = Len(queue) - 1
    BY <2>1 DEF TypeOK
  <2> QED
    BY <2>1, <2>2, CountTypes DEF Reserved, MuFree
<1>2. ASSUME NEW result \in Results, ExecuteReturns(result) PROVE Reserved'
  BY <1>2, ReservedStays DEF ExecuteReturns
<1>3. ASSUME NEW g \in Generations, ExecuteRecovered(g) PROVE Reserved'
  BY <1>3, ReservedStays DEF ExecuteRecovered
<1>4. CASE ExecuteBroke
  BY <1>4, ReservedStays DEF ExecuteBroke
<1>5. ASSUME NEW success \in BOOLEAN, NEW g \in Generations, RecoverReturns(success, g)
      PROVE  Reserved'
  BY <1>5, ReservedStays DEF RecoverReturns
<1>6. ASSUME NEW dropped \in 0..Len(completed) + 1, Settle(dropped) PROVE Reserved'
  <2>1. /\ pc = "settling" /\ pc' = "idle" /\ pending' = pending - 1 /\ bytes' = bytes - current.bytes
        /\ UNCHANGED <<queue, closing, admitting>> /\ admitting = NoCommand
    BY <1>6 DEF Settle, MuFree
  <2> QED
    BY <2>1, CountTypes DEF Reserved, MuFree
<1>7. CASE Finish
  BY <1>7, ReservedStays DEF Finish
<1> QED
  BY <1>1, <1>2, <1>3, <1>4, <1>5, <1>6, <1>7 DEF Owner

LEMMA InitReserved == Init => Reserved
<1> SUFFICES ASSUME Init PROVE Reserved
  OBVIOUS
<1>1. /\ Len(queue) = 0 /\ pc = "idle" /\ pending = 0 /\ bytes = 0 /\ admitting = NoCommand
  BY DEF Init
<1> QED
  BY <1>1, RuntimeAssumption DEF Reserved, MuFree

LEMMA NextReserved == TypeOK /\ TypeOK' /\ Reserved /\ [Next]_vars => Reserved'
<1> SUFFICES ASSUME TypeOK, TypeOK', Reserved, [Next]_vars PROVE Reserved'
  OBVIOUS
<1>1. CASE UNCHANGED vars
  BY <1>1, ReservedStays DEF vars
<1> QED
  BY <1>1, CallersReserved, OwnerReserved DEF Next

\* The slots of the mailbox are counted exactly and neither limit is exceeded,
\* whatever the sizes of the commands: Submit never waits for room with mu held,
\* and never sends to a closed channel.
THEOREM LimitsAlwaysKept == Spec => []LimitsKept
<1>1. TypeOK /\ Reserved => LimitsKept
  <2> SUFFICES ASSUME TypeOK, Reserved PROVE LimitsKept
    OBVIOUS
  <2>1. Len(Unsettled) = Len(queue) + (IF pc = "idle" THEN 0 ELSE 1)
    <3>1. CASE pc = "idle"
      BY <3>1, CountTypes DEF Unsettled
    <3>2. CASE pc # "idle"
      BY <3>2, UnsettledPlaces
    <3> QED
      BY <3>1, <3>2
  <2>2. pending = Len(Unsettled) /\ bytes <= MaxBytes
        /\ pending + (IF MuFree THEN 0 ELSE 1) <= MaxCommands
    BY <2>1, Zenon DEF Reserved
  <2>3. ASSUME admitting # NoCommand PROVE Len(queue) < MaxCommands /\ ~closing
    <3>1. pending + 1 <= MaxCommands /\ ~closing
      BY <2>3 DEF Reserved, MuFree
    <3>2. pending = Len(queue) \/ pending = Len(queue) + 1
      BY CountTypes DEF Reserved
    <3> QED
      BY <3>1, <3>2, CountTypes
  <2> QED
    BY <2>2, <2>3, Zenon DEF LimitsKept
<1> QED
  BY <1>1, InitTypeOK, NextTypeOK, InitReserved, NextReserved, PTL DEF Spec

-----------------------------------------------------------------------------
(* The bytes of the mailbox *)

\* The works hold n bytes.
Holds(works, n) == IsFiniteSet(BytesOf(works)) /\ Cardinality(BytesOf(works)) = n

\* The bytes of the works that are accepted and not settled are counted.
BytesCounted == Holds(Unsettled, bytes)

\* Which bytes the works hold.
LEMMA BytesMembers ==
  ASSUME NEW works \in Seq(Work)
  PROVE  \A x : x \in BytesOf(works) <=>
           \E i \in 1..Len(works) : \E k \in 1..works[i].bytes : x = <<i, k>>
<1>1. DOMAIN works = 1..Len(works)
  OBVIOUS
<1>2. \A x, i : x \in {i} \X (1..works[i].bytes) <=> \E k \in 1..works[i].bytes : x = <<i, k>>
  OBVIOUS
<1>3. \A x : x \in BytesOf(works) <=> \E i \in DOMAIN works : x \in {i} \X (1..works[i].bytes)
  BY DEF BytesOf
<1>4. \A x : x \in BytesOf(works) <=> \E i \in 1..Len(works) : x \in {i} \X (1..works[i].bytes)
  BY <1>1, <1>3
<1> QED
  BY <1>2, <1>4, Zenon

\* One work holds its bytes, wherever it stands.
LEMMA OneWorkHolds ==
  ASSUME NEW i, NEW n \in Nat
  PROVE  IsFiniteSet({i} \X (1..n)) /\ Cardinality({i} \X (1..n)) = n
<1>1. IsFiniteSet({i}) /\ Cardinality({i}) = 1
  BY FS_Singleton
<1>2. IsFiniteSet(1..n) /\ Cardinality(1..n) = n
  BY FS_Interval
<1>3. /\ IsFiniteSet({i} \X (1..n))
      /\ Cardinality({i} \X (1..n)) = Cardinality({i}) * Cardinality(1..n)
  BY <1>1, <1>2, FS_Product
<1> QED
  BY <1>1, <1>2, <1>3

\* One work more adds its bytes.
LEMMA AppendHolds ==
  ASSUME NEW works \in Seq(Work), NEW work \in Work, work.bytes \in Nat, NEW n \in Int,
         Holds(works, n)
  PROVE  Holds(Append(works, work), n + work.bytes)
<1> DEFINE all == Append(works, work)
           last == Len(works) + 1
           new == {last} \X (1..work.bytes)
<1>1. /\ all \in Seq(Work) /\ Len(all) = last /\ Len(works) \in Nat /\ all[last] = work
      /\ \A i \in 1..Len(works) : all[i] = works[i] /\ i # last
  OBVIOUS
<1>2. 1..Len(all) = (1..Len(works)) \cup {last}
  BY <1>1
<1> HIDE DEF all, last
<1>3. \A x : x \in new <=> \E k \in 1..work.bytes : x = <<last, k>>
  OBVIOUS
<1>4. \A x : x \in BytesOf(all) <=> x \in BytesOf(works) \/ x \in new
  <2>1. \A x : x \in BytesOf(all) <=>
          \E i \in (1..Len(works)) \cup {last} : \E k \in 1..all[i].bytes : x = <<i, k>>
    <3>1. \A x : x \in BytesOf(all) <=>
            \E i \in 1..Len(all) : \E k \in 1..all[i].bytes : x = <<i, k>>
      BY <1>1, BytesMembers
    <3> QED
      BY <1>2, <3>1, Zenon
  <2>2. \A x : x \in BytesOf(works) <=>
          \E i \in 1..Len(works) : \E k \in 1..all[i].bytes : x = <<i, k>>
    BY <1>1, BytesMembers
  <2>3. all[last].bytes = work.bytes
    BY <1>1
  <2> HIDE DEF new
  <2>4. ASSUME NEW x \in BytesOf(all) PROVE x \in BytesOf(works) \/ x \in new
    <3>1. PICK i \in (1..Len(works)) \cup {last} : \E k \in 1..all[i].bytes : x = <<i, k>>
      BY <2>1, Zenon
    <3>2. CASE i \in 1..Len(works)
      BY <2>2, <3>1, <3>2, Zenon
    <3>3. CASE i = last
      <4>1. PICK k \in 1..work.bytes : x = <<last, k>>
        BY <2>3, <3>1, <3>3, Zenon
      <4> QED
        BY <1>3, <4>1, Zenon
    <3> QED
      BY <3>1, <3>2, <3>3, Zenon
  <2>5. ASSUME NEW x \in BytesOf(works) PROVE x \in BytesOf(all)
    <3>1. PICK i \in 1..Len(works) : \E k \in 1..all[i].bytes : x = <<i, k>>
      BY <2>2, Zenon
    <3>2. i \in (1..Len(works)) \cup {last}
      OBVIOUS
    <3> QED
      BY <2>1, <3>1, <3>2, Zenon
  <2>6. ASSUME NEW x \in new PROVE x \in BytesOf(all)
    <3>1. PICK k \in 1..all[last].bytes : x = <<last, k>>
      BY <1>3, <2>3, <2>6, Zenon
    <3>2. last \in (1..Len(works)) \cup {last}
      OBVIOUS
    <3> QED
      BY <2>1, <3>1, <3>2, Zenon
  <2> QED
    BY <2>4, <2>5, <2>6, Zenon
<1>5. BytesOf(all) = BytesOf(works) \cup new
  BY <1>4
<1>6. BytesOf(works) \cap new = {}
  <2>1. ASSUME NEW x \in BytesOf(works), x \in new PROVE FALSE
    <3>1. PICK i \in 1..Len(works) : \E k \in 1..works[i].bytes : x = <<i, k>>
      BY BytesMembers
    <3>2. PICK k \in 1..work.bytes : x = <<last, k>>
      BY <1>3, <2>1
    <3>3. i = last
      BY <3>1, <3>2
    <3> QED
      BY <1>1, <3>3
  <2> QED
    BY <2>1
<1>7. IsFiniteSet(new) /\ Cardinality(new) = work.bytes
  BY OneWorkHolds
<1>8. IsFiniteSet({}) /\ Cardinality({}) = 0
  BY FS_EmptySet
<1>9. IsFiniteSet(BytesOf(works)) /\ Cardinality(BytesOf(works)) = n
  BY DEF Holds
<1>10. /\ IsFiniteSet(BytesOf(works) \cup new)
       /\ Cardinality(BytesOf(works) \cup new) =
            Cardinality(BytesOf(works)) + Cardinality(new) - Cardinality(BytesOf(works) \cap new)
  BY <1>7, <1>9, FS_Union, Zenon
<1>11. Cardinality(BytesOf(all)) = n + work.bytes - 0
  BY <1>5, <1>6, <1>7, <1>8, <1>9, <1>10, Zenon
<1> HIDE DEF new
<1>12. Cardinality(BytesOf(all)) = n + work.bytes
  BY <1>11
<1> QED
  BY <1>5, <1>10, <1>12 DEF Holds, all

\* The first work gone, its bytes are gone.
LEMMA TailHolds ==
  ASSUME NEW works \in Seq(Work), works # <<>>, Head(works).bytes \in Nat, NEW n \in Int,
         Holds(works, n)
  PROVE  Holds(Tail(works), n - Head(works).bytes)
<1> DEFINE rest == Tail(works)
           gone == {1} \X (1..Head(works).bytes)
           left == BytesOf(works) \ gone
           f == [x \in BytesOf(rest) |-> <<x[1] + 1, x[2]>>]
<1>1. /\ rest \in Seq(Work) /\ Len(rest) \in Nat /\ Len(works) = Len(rest) + 1
      /\ works[1] = Head(works)
      /\ \A i \in 1..Len(rest) : rest[i] = works[i + 1]
  OBVIOUS
<1> HIDE DEF rest
<1>2. \A x : x \in BytesOf(rest) <=> \E i \in 1..Len(rest) : \E k \in 1..rest[i].bytes : x = <<i, k>>
  BY <1>1, BytesMembers
<1>3. \A x : x \in BytesOf(works) <=> \E i \in 1..Len(works) : \E k \in 1..works[i].bytes : x = <<i, k>>
  BY BytesMembers
<1>4. \A x : x \in gone <=> \E k \in 1..Head(works).bytes : x = <<1, k>>
  OBVIOUS
<1>5. \A x \in BytesOf(rest) : /\ x = <<x[1], x[2]>> /\ x[1] \in 1..Len(rest)
                               /\ x[2] \in 1..works[x[1] + 1].bytes
  BY <1>1, <1>2
<1>6. \A x \in BytesOf(rest) : <<x[1] + 1, x[2]>> \in left
  <2> SUFFICES ASSUME NEW x \in BytesOf(rest) PROVE <<x[1] + 1, x[2]>> \in left
    OBVIOUS
  <2>1. x[1] + 1 \in 1..Len(works) /\ x[1] + 1 # 1 /\ x[2] \in 1..works[x[1] + 1].bytes
    BY <1>1, <1>5
  <2>2. <<x[1] + 1, x[2]>> \in BytesOf(works)
    BY <1>3, <2>1
  <2>3. <<x[1] + 1, x[2]>> \notin gone
    BY <2>1
  <2> QED
    BY <2>2, <2>3
<1>7. \A y \in left : \E x \in BytesOf(rest) : y = <<x[1] + 1, x[2]>>
  <2> SUFFICES ASSUME NEW y \in left PROVE \E x \in BytesOf(rest) : y = <<x[1] + 1, x[2]>>
    OBVIOUS
  <2>1. PICK i \in 1..Len(works) : \E k \in 1..works[i].bytes : y = <<i, k>>
    BY <1>3
  <2>2. PICK k \in 1..works[i].bytes : y = <<i, k>>
    BY <2>1
  <2>3. i # 1
    BY <1>1, <1>4, <2>2
  <2>4. i - 1 \in 1..Len(rest) /\ (i - 1) + 1 = i
    BY <1>1, <2>3
  <2>5. k \in 1..rest[i - 1].bytes
    BY <1>1, <2>2, <2>4
  <2>6. <<i - 1, k>> \in BytesOf(rest)
    BY <1>2, <2>4, <2>5
  <2>7. y = <<(<<i - 1, k>>)[1] + 1, (<<i - 1, k>>)[2]>>
    BY <2>2, <2>4
  <2> QED
    BY <2>6, <2>7
<1>8. \A x, y \in BytesOf(rest) : <<x[1] + 1, x[2]>> = <<y[1] + 1, y[2]>> => x = y
  <2> SUFFICES ASSUME NEW x \in BytesOf(rest), NEW y \in BytesOf(rest),
                      <<x[1] + 1, x[2]>> = <<y[1] + 1, y[2]>>
               PROVE  x = y
    OBVIOUS
  <2>1. x[1] + 1 = y[1] + 1 /\ x[2] = y[2]
    OBVIOUS
  <2>2. x[1] \in Nat /\ y[1] \in Nat
    BY <1>1, <1>5
  <2>3. x[1] = y[1]
    BY <2>1, <2>2
  <2> QED
    BY <1>5, <2>1, <2>3
<1>9. f \in Bijection(BytesOf(rest), left)
  <2> HIDE DEF left
  <2>1. f \in [BytesOf(rest) -> left]
    BY <1>6
  <2>2. f \in Injection(BytesOf(rest), left)
    BY <1>8, <2>1 DEF Injection, IsInjective
  <2>3. f \in Surjection(BytesOf(rest), left)
    BY <1>7, <2>1 DEF Surjection
  <2> QED
    BY <2>2, <2>3 DEF Bijection
<1>10. gone \subseteq BytesOf(works)
  <2>1. 1 \in 1..Len(works) /\ works[1].bytes = Head(works).bytes
    BY <1>1
  <2> QED
    BY <1>3, <1>4, <2>1
<1>11. IsFiniteSet(gone) /\ Cardinality(gone) = Head(works).bytes
  BY OneWorkHolds
<1>12. IsFiniteSet(BytesOf(works)) /\ Cardinality(BytesOf(works)) = n
  BY DEF Holds
<1> HIDE DEF gone
<1>13. BytesOf(works) \cap gone = gone
  BY <1>10
<1>14. /\ IsFiniteSet(left)
       /\ Cardinality(left) = Cardinality(BytesOf(works)) - Cardinality(BytesOf(works) \cap gone)
  BY <1>12, FS_Difference
<1> HIDE DEF left, f
<1>15. IsFiniteSet(BytesOf(rest)) /\ Cardinality(BytesOf(rest)) = Cardinality(left)
  <2>1. ExistsBijection(BytesOf(rest), left)
    BY <1>9 DEF ExistsBijection
  <2>2. ExistsBijection(left, BytesOf(rest))
    BY <2>1, Fun_ExistsBijSymmetric
  <2> QED
    BY <1>14, <2>2, FS_Bijection
<1>16. Cardinality(BytesOf(rest)) = n - Head(works).bytes
  BY <1>11, <1>12, <1>13, <1>14, <1>15, Zenon
<1> QED
  BY <1>15, <1>16 DEF Holds, rest

\* The unsettled works are works.
LEMMA UnsettledTypes ==
  ASSUME TypeOK
  PROVE  /\ Unsettled \in Seq(Work) /\ queue \in Seq(Work) /\ current \in Work
         /\ bytes \in Int /\ current.bytes \in Nat
<1>1. queue \in Seq(Work) /\ current \in Work /\ <<current>> \in Seq(Work)
  BY DEF TypeOK
<1>2. <<current>> \o queue \in Seq(Work)
  BY <1>1
<1> QED
  BY <1>1, <1>2, CountTypes DEF Unsettled

\* Neither the works nor their bytes change.
LEMMA BytesStay ==
  ASSUME BytesCounted, UNCHANGED <<queue, current, bytes>>, (pc' = "idle") = (pc = "idle")
  PROVE  BytesCounted'
BY DEF BytesCounted, Unsettled

\* One work joins the channel.
LEMMA BytesJoin ==
  ASSUME TypeOK, BytesCounted, NEW work \in Work, work.bytes \in Nat,
         queue' = Append(queue, work), bytes' = bytes + work.bytes, UNCHANGED <<current, pc>>
  PROVE  BytesCounted'
<1>1. Unsettled' = Append(Unsettled, work)
  <2>1. CASE pc = "idle"
    BY <2>1 DEF Unsettled
  <2>2. CASE pc # "idle"
    <3>1. <<current>> \o Append(queue, work) = Append(<<current>> \o queue, work)
      BY UnsettledTypes
    <3> QED
      BY <2>2, <3>1 DEF Unsettled
  <2> QED
    BY <2>1, <2>2
<1>2. Holds(Append(Unsettled, work), bytes + work.bytes)
  BY UnsettledTypes, AppendHolds DEF BytesCounted
<1>3. Holds(Unsettled', bytes')
  BY <1>1, <1>2
<1> QED
  BY <1>3 DEF BytesCounted, Holds, BytesOf

\* The owner takes the first work: it is still unsettled.
LEMMA BytesTaken ==
  ASSUME TypeOK, BytesCounted, pc = "idle", pc' # "idle", queue # <<>>,
         current' = Head(queue), queue' = Tail(queue), bytes' = bytes
  PROVE  BytesCounted'
<1>1. <<Head(queue)>> \o Tail(queue) = queue
  BY UnsettledTypes
<1>2. Unsettled' = Unsettled
  BY <1>1 DEF Unsettled
<1> QED
  BY <1>2 DEF BytesCounted, Holds, BytesOf

\* The owner settles the work it has in hand, the first of the unsettled.
LEMMA BytesSettled ==
  ASSUME TypeOK, BytesCounted, pc # "idle", pc' = "idle", queue' = queue,
         bytes' = bytes - current.bytes
  PROVE  BytesCounted'
<1>1. Unsettled = <<current>> \o queue /\ Unsettled' = queue
  BY DEF Unsettled
<1>2. /\ Tail(<<current>> \o queue) = queue /\ Head(<<current>> \o queue) = current
      /\ <<current>> \o queue # <<>>
  BY UnsettledTypes
<1>3. Holds(Tail(Unsettled), bytes - Head(Unsettled).bytes)
  BY <1>1, <1>2, UnsettledTypes, TailHolds DEF BytesCounted
<1>4. Holds(Unsettled', bytes')
  BY <1>1, <1>2, <1>3
<1> QED
  BY <1>4 DEF BytesCounted, Holds, BytesOf

\* The channel starts empty.
LEMMA InitBytes == Init => BytesCounted
<1> SUFFICES ASSUME Init PROVE BytesCounted
  OBVIOUS
<1>1. Unsettled = <<>> /\ bytes = 0
  BY DEF Init, Unsettled
<1>2. BytesOf(<<>>) = {}
  <2>1. DOMAIN <<>> = {}
    OBVIOUS
  <2> QED
    BY <2>1 DEF BytesOf
<1> QED
  BY <1>1, <1>2, FS_EmptySet DEF BytesCounted, Holds

\* No step leaks a byte.
LEMMA NextBytes == TypeOK /\ TypeOK' /\ BytesCounted /\ [Next]_vars => BytesCounted'
<1> SUFFICES ASSUME TypeOK, TypeOK', BytesCounted, [Next]_vars PROVE BytesCounted'
  OBVIOUS
<1> USE DEF mailboxVars, ownerVars
<1>1. ASSUME NEW c \in Command, SubmitJoins(c) \/ SubmitAdmits(c) PROVE BytesCounted'
  BY <1>1, BytesStay DEF SubmitJoins, SubmitAdmits
<1>2. CASE SubmitEnqueues
  <2> DEFINE work == [id |-> admitting.id, digest |-> admitting.digest,
                      expected |-> admitting.expected, bytes |-> CommandBytes[admitting.digest],
                      recovery |-> FALSE, generation |-> generation, future |-> Len(futures) + 1]
  <2>1. /\ queue' = Append(queue, work) /\ bytes' = bytes + CommandBytes[admitting.digest]
        /\ UNCHANGED <<current, pc>> /\ admitting # NoCommand
    BY <1>2 DEF SubmitEnqueues, Enqueued
  <2>2. work \in Work
    <3>1. admitting \in Command /\ generation \in Generations /\ Len(futures) + 1 \in Nat
          /\ CommandBytes[admitting.digest] \in Nat \ {0}
      BY <2>1, Constants DEF TypeOK
    <3> QED
      BY <3>1 DEF Work, CommandWork, Command
  <2>3. work.bytes = CommandBytes[admitting.digest] /\ work.bytes \in Nat
    BY <2>1, CountTypes
  <2> HIDE DEF work
  <2> QED
    BY <2>1, <2>2, <2>3, BytesJoin
<1>3. CASE Recover
  <2> DEFINE work == [NoWork EXCEPT !.future = Len(futures) + 1]
  <2>1. queue' = Append(queue, work) /\ bytes' = bytes + RecoveryBytes /\ UNCHANGED <<current, pc>>
    BY <1>3 DEF Recover, Enqueued
  <2>2. work \in Work /\ work.bytes = RecoveryBytes /\ RecoveryBytes \in Nat
    <3>1. Len(futures) + 1 \in Nat
      BY DEF TypeOK
    <3> QED
      BY <3>1, RuntimeAssumption DEF NoWork, Work, RecoveryWork, NoExpectation
  <2> HIDE DEF work
  <2> QED
    BY <2>1, <2>2, BytesJoin
<1>4. CASE Close
  BY <1>4, BytesStay DEF Close
<1>5. CASE TakeRecovery \/ TakeCommand
  BY <1>5, BytesTaken DEF TakeRecovery, TakeCommand, HasWork
<1>6. ASSUME NEW result \in Results, ExecuteReturns(result) PROVE BytesCounted'
  BY <1>6, BytesStay DEF ExecuteReturns
<1>7. ASSUME NEW g \in Generations, ExecuteRecovered(g) PROVE BytesCounted'
  BY <1>7, BytesStay DEF ExecuteRecovered
<1>8. CASE ExecuteBroke
  BY <1>8, BytesStay DEF ExecuteBroke
<1>9. ASSUME NEW success \in BOOLEAN, NEW g \in Generations, RecoverReturns(success, g)
      PROVE  BytesCounted'
  BY <1>9, BytesStay DEF RecoverReturns
<1>10. ASSUME NEW dropped \in 0..Len(completed) + 1, Settle(dropped) PROVE BytesCounted'
  BY <1>10, BytesSettled DEF Settle
<1>11. CASE Finish
  BY <1>11, BytesStay DEF Finish
<1>12. CASE UNCHANGED vars
  BY <1>12, BytesStay DEF vars
<1> QED
  BY <1>1, <1>2, <1>3, <1>4, <1>5, <1>6, <1>7, <1>8, <1>9, <1>10, <1>11, <1>12 DEF Next, Owner

\* The slots and the bytes of the mailbox are counted exactly and neither limit
\* is exceeded, for any sizes of the commands: no path of the owner's loop leaks
\* a slot or a byte, and Submit never waits for room with mu held.
THEOREM MailboxAlwaysExact == Spec => []MailboxAccounting
<1>1. BytesCounted /\ LimitsKept => MailboxAccounting
  BY DEF BytesCounted, Holds, MailboxAccounting, SumOfBytes
<1> QED
  BY <1>1, InitTypeOK, NextTypeOK, InitBytes, NextBytes, LimitsAlwaysKept, PTL DEF Spec

-----------------------------------------------------------------------------
(* The ledger of the outcomes *)

\* The work behind the channel is settled, except what the owner has in hand,
\* and what it is about to report is an outcome.
SettledKnown ==
  /\ \A f \in 1..Len(futures) :
       f < Taken \/ (f = Taken /\ pc = "idle") => futures[f].result # "pending"
  /\ pc = "settling" => verdict # "pending"
  /\ pc = "recovering" /\ ~current.recovery => verdict # "pending"

LedgerOK == TypeOK /\ FuturesOK /\ SettledKnown

\* Futures that keep their outcome keep it in the ledger.
LEMMA SameOutcomes ==
  ASSUME Len(futures') = Len(futures),
         \A f \in 1..Len(futures) : futures'[f].result = futures[f].result
  PROVE  Outcomes(futures') = Outcomes(futures)
BY DEF Outcomes

LEMMA OutcomeAppended ==
  ASSUME NEW s \in Seq(Future), NEW x \in Future, x.result = "pending"
  PROVE  Outcomes(Append(s, x)) = Append(Outcomes(s), "pending")
<1>1. /\ Len(s) \in Nat /\ Len(Append(s, x)) = Len(s) + 1
      /\ \A f \in 1..Len(s) : Append(s, x)[f] = s[f]
      /\ Append(s, x)[Len(s) + 1] = x
  OBVIOUS
<1>2. PICK o : o = Outcomes(s)
  OBVIOUS
<1>3. o = [f \in 1..Len(s) |-> s[f].result]
  BY <1>2 DEF Outcomes
<1>4. o \in Seq(Results \cup {"pending"}) /\ Len(o) = Len(s)
  <2>1. \A f \in 1..Len(s) : s[f].result \in Results \cup {"pending"}
    <3>1. \A f \in 1..Len(s) : s[f] \in Future
      OBVIOUS
    <3> QED
      BY <3>1 DEF Future
  <2> QED
    BY <1>1, <1>3, <2>1
<1>5. Append(o, "pending") \in Seq(Results \cup {"pending"}) /\ Len(Append(o, "pending")) = Len(s) + 1
      /\ \A f \in 1..Len(s) : Append(o, "pending")[f] = s[f].result
      /\ Append(o, "pending")[Len(s) + 1] = "pending"
  BY <1>1, <1>3, <1>4
<1>6. Append(o, "pending") = [f \in 1..(Len(s) + 1) |-> Append(s, x)[f].result]
  <2>1. \A f \in 1..(Len(s) + 1) : Append(o, "pending")[f] = Append(s, x)[f].result
    <3>1. \A f \in 1..(Len(s) + 1) : f \in 1..Len(s) \/ f = Len(s) + 1
      BY <1>1
    <3> QED
      BY <1>1, <1>5, <3>1
  <2>2. Append(o, "pending") = [f \in 1..(Len(s) + 1) |-> Append(o, "pending")[f]]
    <3>1. PICK q \in Seq(Results \cup {"pending"}) : q = Append(o, "pending")
      BY <1>5
    <3>2. DOMAIN q = 1..Len(q) /\ q = [f \in DOMAIN q |-> q[f]]
      OBVIOUS
    <3> QED
      BY <1>5, <3>1, <3>2, Zenon
  <2> QED
    BY <2>1, <2>2
<1> QED
  BY <1>1, <1>2, <1>6 DEF Outcomes

LEMMA InitLedger == Init => SettledKnown /\ Ledger!Init
<1> SUFFICES ASSUME Init PROVE SettledKnown /\ Ledger!Init
  OBVIOUS
<1>1. Len(futures) = 0 /\ pc = "idle"
  BY DEF Init
<1>2. Outcomes(futures) = <<>>
  BY <1>1 DEF Outcomes
<1>3. ~closing /\ ~closed
  BY Zenon DEF Init
<1> QED
  BY <1>1, <1>2, <1>3 DEF SettledKnown, Ledger!Init

\* A step that only moves the owner, or nobody.
LEMMA LedgerStays ==
  ASSUME LedgerOK, UNCHANGED queue,
         Len(futures') = Len(futures),
         \A f \in 1..Len(futures) : futures'[f].result = futures[f].result,
         (pc' = "idle") = (pc = "idle"),
         pc' = "settling" => verdict' # "pending",
         pc' = "recovering" /\ ~current'.recovery => verdict' # "pending"
  PROVE  SettledKnown'
<1>1. Taken' = Taken
  BY DEF Taken
<1> QED
  BY <1>1 DEF LedgerOK, SettledKnown

LEMMA EnqueuedLedger ==
  ASSUME LedgerOK, NEW w \in Work, NEW future \in Future, future.result = "pending",
         queue' = Append(queue, w), futures' = Append(futures, future),
         UNCHANGED <<pc, current, verdict>>
  PROVE  SettledKnown' /\ Outcomes(futures') = Append(Outcomes(futures), "pending")
<1>1. /\ futures \in Seq(Future) /\ Len(futures) \in Nat
      /\ queue \in Seq(Work) /\ Len(queue) \in Nat
  BY FutureTypes DEF LedgerOK
<1>2. /\ Len(futures') = Len(futures) + 1 /\ Len(queue') = Len(queue) + 1
      /\ \A f \in 1..Len(futures) : futures'[f] = futures[f]
  BY <1>1
<1>3. Taken' = Taken /\ Taken <= Len(futures) /\ Taken \in Int
  BY <1>1, <1>2 DEF Taken
<1>4. \A f \in 1..Len(futures') : f <= Taken => f \in 1..Len(futures)
  BY <1>1, <1>2, <1>3
<1>5. \A f \in 1..Len(futures') : f < Taken \/ f = Taken => f \in 1..Len(futures)
  BY <1>1, <1>3, <1>4
<1>6. SettledKnown'
  BY <1>2, <1>3, <1>5 DEF LedgerOK, SettledKnown
<1> QED
  BY <1>1, <1>6, OutcomeAppended

LEMMA TakenLedger ==
  ASSUME LedgerOK, pc = "idle", queue # <<>>, queue' = Tail(queue), pc' # "idle",
         Len(futures') = Len(futures),
         \A f \in 1..Len(futures) : futures'[f].result = futures[f].result,
         pc' = "settling" => verdict' # "pending",
         pc' = "recovering" => current'.recovery
  PROVE  SettledKnown'
<1>1. Len(futures) \in Nat /\ queue \in Seq(Work) /\ Len(queue) \in Nat
  BY FutureTypes DEF LedgerOK
<1>2. Taken' = Taken + 1
  BY <1>1 DEF Taken
<1>3. \A f \in 1..Len(futures) : f < Taken + 1 => f < Taken \/ f = Taken
  BY <1>1 DEF Taken
<1> QED
  BY <1>2, <1>3 DEF LedgerOK, SettledKnown

\* The outcome that is reported is that of the oldest unsettled work.
LEMMA SettleLedger ==
  ASSUME LedgerOK, NEW dropped \in 0..Len(completed) + 1, Settle(dropped)
  PROVE  SettledKnown' /\ Ledger!Settle
<1>0. /\ futures \in Seq(Future) /\ Len(futures) \in Nat /\ Len(queue) \in Nat
  BY FutureTypes DEF LedgerOK
<1>1. /\ pc = "settling" /\ pc' = "idle" /\ UNCHANGED queue
      /\ futures' = [futures EXCEPT ![current.future].result = verdict]
  BY DEF Settle
<1>2. /\ Taken \in 1..Len(futures) /\ current.future = Taken
  BY <1>0, <1>1 DEF LedgerOK, FuturesOK, FuturesInOrder, Taken
<1>3. /\ Len(futures') = Len(futures)
      /\ \A f \in 1..Len(futures) :
           futures'[f].result = IF f = Taken THEN verdict ELSE futures[f].result
  BY <1>0, <1>1, <1>2, ResultUpdated
<1>4. Taken' = Taken
  BY <1>1, <1>3 DEF Taken
<1>5. verdict \in Results
  BY <1>1 DEF LedgerOK, SettledKnown, TypeOK
<1>6. verdict # "pending"
  BY <1>1 DEF LedgerOK, SettledKnown
<1>7. SettledKnown'
  BY <1>1, <1>3, <1>4, <1>6 DEF LedgerOK, SettledKnown
<1>8. Ledger!Oldest(Taken)
  <2>1. futures[Taken].result = "pending"
    BY <1>1 DEF LedgerOK, FuturesOK, FuturesKnown
  <2>2. \A g \in 1..(Taken - 1) : g \in 1..Len(futures) /\ g < Taken
    BY <1>0, <1>2
  <2>3. \A g \in 1..(Taken - 1) : futures[g].result # "pending"
    BY <2>2 DEF LedgerOK, SettledKnown
  <2> QED
    BY <1>2, <2>1, <2>2, <2>3 DEF Ledger!Oldest, Outcomes
<1>9. Outcomes(futures') = [Outcomes(futures) EXCEPT ![Taken] = verdict]
  <2>1. \A f \in 1..Len(futures) :
          futures'[f].result = [Outcomes(futures) EXCEPT ![Taken] = verdict][f]
    BY <1>2, <1>3 DEF Outcomes
  <2>2. [Outcomes(futures) EXCEPT ![Taken] = verdict] =
          [f \in 1..Len(futures) |-> [Outcomes(futures) EXCEPT ![Taken] = verdict][f]]
    BY DEF Outcomes
  <2> QED
    BY <1>3, <2>1, <2>2 DEF Outcomes
<1>10. Len(Outcomes(futures)) = Len(futures)
  BY <1>0 DEF Outcomes
<1>11. closing' = closing /\ closed' = closed
  BY Zenon DEF Settle
<1> QED
  BY <1>2, <1>5, <1>7, <1>8, <1>9, <1>10, <1>11 DEF Ledger!Settle

\* A step of the owner that settles nothing, or of a caller that adds nothing.
LedgerQuiet == UNCHANGED <<Outcomes(futures), closing, closed>>

LEMMA CallersLedger ==
  ASSUME LedgerOK,
         \/ \E c \in Command : SubmitJoins(c) \/ SubmitAdmits(c)
         \/ SubmitEnqueues \/ Recover \/ Close,
         admitting # NoCommand => ~closing
  PROVE  SettledKnown' /\ (LedgerQuiet \/ Ledger!Accept \/ Ledger!Close)
<1> USE DEF mailboxVars, ownerVars
<1>1. ASSUME NEW c \in Command, SubmitJoins(c) \/ SubmitAdmits(c)
      PROVE  SettledKnown' /\ LedgerQuiet
  <2>1. UNCHANGED <<queue, futures, pc, current, verdict>>
    BY <1>1 DEF SubmitJoins, SubmitAdmits
  <2>2. closing' = closing /\ closed' = closed
    BY <1>1, Zenon DEF SubmitJoins, SubmitAdmits
  <2>3. SettledKnown'
    BY <2>1, LedgerStays DEF LedgerOK, SettledKnown
  <2> QED
    BY <2>1, <2>2, <2>3 DEF LedgerQuiet
<1>2. ASSUME SubmitEnqueues PROVE SettledKnown' /\ Ledger!Accept
  <2> DEFINE c == admitting
             f == Len(futures) + 1
             w == [id |-> c.id, digest |-> c.digest, expected |-> c.expected,
                   bytes |-> CommandBytes[c.digest], recovery |-> FALSE,
                   generation |-> generation, future |-> f]
             future == [id |-> c.id, digest |-> c.digest, result |-> "pending", ran |-> 0]
  <2>1. c \in Command
    BY <1>2 DEF LedgerOK, TypeOK, SubmitEnqueues
  <2>2. f \in Nat
    BY DEF LedgerOK, TypeOK
  <2>3. w \in Work
    BY <2>1, <2>2, Constants DEF LedgerOK, TypeOK, CommandWork, Command, Work
  <2>4. future \in Future /\ future.result = "pending"
    BY <2>1 DEF Future, Command
  <2>5. queue' = Append(queue, w) /\ futures' = Append(futures, future)
        /\ UNCHANGED <<pc, current, verdict>>
    BY <1>2 DEF SubmitEnqueues, Enqueued
  <2> HIDE DEF w, future
  <2>6. SettledKnown' /\ Outcomes(futures') = Append(Outcomes(futures), "pending")
    BY <2>3, <2>4, <2>5, EnqueuedLedger
  <2>7. ~closing /\ closing' = closing /\ closed' = closed
    BY <1>2, Zenon DEF SubmitEnqueues
  <2> QED
    BY <2>6, <2>7 DEF Ledger!Accept
<1>3. ASSUME Recover PROVE SettledKnown' /\ Ledger!Accept
  <2> DEFINE w == [NoWork EXCEPT !.future = Len(futures) + 1]
             future == [id |-> NoIdentity, digest |-> NoDigest, result |-> "pending", ran |-> 0]
  <2>1. w \in Work
    <3>1. Len(futures) + 1 \in Nat
      BY DEF LedgerOK, TypeOK
    <3> QED
      BY <3>1, RecoveryIsWork DEF Work
  <2>2. future \in Future /\ future.result = "pending"
    BY DEF Future
  <2>3. queue' = Append(queue, w) /\ futures' = Append(futures, future)
        /\ UNCHANGED <<pc, current, verdict>>
    BY <1>3 DEF Recover, Enqueued
  <2> HIDE DEF w, future
  <2>4. SettledKnown' /\ Outcomes(futures') = Append(Outcomes(futures), "pending")
    BY <2>1, <2>2, <2>3, EnqueuedLedger
  <2>5. ~closing /\ closing' = closing /\ closed' = closed
    BY <1>3, Zenon DEF Recover
  <2> QED
    BY <2>4, <2>5 DEF Ledger!Accept
<1>4. ASSUME Close PROVE SettledKnown' /\ Ledger!Close
  <2>1. UNCHANGED <<queue, futures, pc, current, verdict>>
    BY <1>4 DEF Close
  <2>2. ~closing /\ closing' /\ closed' = closed
    BY <1>4, Zenon DEF Close
  <2>3. SettledKnown'
    BY <2>1, LedgerStays DEF LedgerOK, SettledKnown
  <2> QED
    BY <2>1, <2>2, <2>3 DEF Ledger!Close
<1> QED
  BY <1>1, <1>2, <1>3, <1>4

LEMMA OwnerLedger ==
  ASSUME LedgerOK, Owner
  PROVE  SettledKnown' /\ (LedgerQuiet \/ Ledger!Settle \/ Ledger!Finish)
<1> USE DEF mailboxVars, ownerVars
<1>1. CASE TakeRecovery
  <2>1. /\ pc = "idle" /\ queue # <<>> /\ queue' = Tail(queue) /\ pc' # "idle"
        /\ UNCHANGED futures /\ current' = Head(queue) /\ Head(queue).recovery
        /\ pc' = "settling" => verdict' # "pending"
    BY <1>1 DEF TakeRecovery, HasWork
  <2>2. closing' = closing /\ closed' = closed
    BY <1>1, Zenon DEF TakeRecovery
  <2>3. SettledKnown'
    BY <2>1, TakenLedger
  <2> QED
    BY <2>1, <2>2, <2>3 DEF LedgerQuiet
<1>2. CASE TakeCommand
  <2>1. /\ pc = "idle" /\ queue # <<>> /\ queue' = Tail(queue) /\ pc' # "idle"
        /\ pc' # "recovering"
        /\ pc' = "settling" => verdict' # "pending"
    BY <1>2 DEF TakeCommand, HasWork
  <2>2. closing' = closing /\ closed' = closed
    BY <1>2, Zenon DEF TakeCommand
  <2>3. /\ Len(futures') = Len(futures)
        /\ \A f \in 1..Len(futures) : futures'[f].result = futures[f].result
    <3>1. CASE UNCHANGED futures
      BY <3>1
    <3>2. CASE futures' = [futures EXCEPT ![Head(queue).future].ran = generation]
      <4>1. futures \in Seq(Future) /\ Len(futures) \in Nat /\ generation \in Nat /\ Len(queue) \in Nat
        BY FutureTypes DEF LedgerOK
      <4>2. 1 \in 1..Len(queue) /\ Head(queue) = queue[1]
        BY <2>1, EmptySeq DEF LedgerOK, TypeOK
      <4>3. Head(queue).future = Taken + 1 /\ Len(queue) <= Len(futures)
        BY <4>2 DEF LedgerOK, FuturesOK, FuturesInOrder
      <4>4. Taken + 1 \in 1..Len(futures)
        BY <4>1, <4>2, <4>3 DEF Taken
      <4> QED
        BY <3>2, <4>1, <4>3, <4>4, RanUpdated
    <3> QED
      BY <1>2, <3>1, <3>2 DEF TakeCommand
  <2>4. SettledKnown'
    BY <2>1, <2>3, TakenLedger
  <2> QED
    BY <2>2, <2>3, <2>4, SameOutcomes DEF LedgerQuiet
<1>3. ASSUME NEW result \in Results, ExecuteReturns(result) PROVE SettledKnown' /\ LedgerQuiet
  <2>1. /\ UNCHANGED <<queue, futures, current>> /\ pc # "idle" /\ pc' = "settling"
        /\ verdict' # "pending"
    BY <1>3 DEF ExecuteReturns
  <2>2. closing' = closing /\ closed' = closed
    BY <1>3, Zenon DEF ExecuteReturns
  <2> QED
    BY <2>1, <2>2, LedgerStays DEF LedgerQuiet
<1>4. ASSUME NEW g \in Generations, ExecuteRecovered(g) PROVE SettledKnown' /\ LedgerQuiet
  <2>1. /\ UNCHANGED <<queue, futures, current>> /\ pc # "idle" /\ pc' = "settling"
        /\ verdict' # "pending"
    BY <1>4 DEF ExecuteRecovered
  <2>2. closing' = closing /\ closed' = closed
    BY <1>4, Zenon DEF ExecuteRecovered
  <2> QED
    BY <2>1, <2>2, LedgerStays DEF LedgerQuiet
<1>5. CASE ExecuteBroke
  <2>1. /\ UNCHANGED <<queue, futures, current>> /\ pc # "idle" /\ pc' # "idle"
        /\ verdict' # "pending"
    BY <1>5 DEF ExecuteBroke
  <2>2. closing' = closing /\ closed' = closed
    BY <1>5, Zenon DEF ExecuteBroke
  <2> QED
    BY <2>1, <2>2, LedgerStays DEF LedgerQuiet
<1>6. ASSUME NEW success \in BOOLEAN, NEW g \in Generations, RecoverReturns(success, g)
      PROVE  SettledKnown' /\ LedgerQuiet
  <2>1. /\ UNCHANGED <<queue, futures, current>> /\ pc = "recovering" /\ pc' = "settling"
    BY <1>6 DEF RecoverReturns
  <2>2. verdict' # "pending"
    <3>1. CASE current.recovery
      BY <1>6, <3>1 DEF RecoverReturns
    <3>2. CASE ~current.recovery
      BY <1>6, <2>1, <3>2 DEF RecoverReturns, LedgerOK, SettledKnown
    <3> QED
      BY <3>1, <3>2
  <2>3. closing' = closing /\ closed' = closed
    BY <1>6, Zenon DEF RecoverReturns
  <2> QED
    BY <2>1, <2>2, <2>3, LedgerStays DEF LedgerQuiet
<1>7. ASSUME NEW dropped \in 0..Len(completed) + 1, Settle(dropped)
      PROVE  SettledKnown' /\ Ledger!Settle
  BY <1>7, SettleLedger
<1>8. CASE Finish
  <2>1. UNCHANGED <<queue, futures, pc, current, verdict>> /\ pc = "idle" /\ queue = <<>>
    BY <1>8 DEF Finish
  <2>2. closing /\ closing' = closing /\ ~closed /\ closed'
    BY <1>8, Zenon DEF Finish
  <2>3. SettledKnown'
    BY <2>1, LedgerStays DEF LedgerOK, SettledKnown
  <2>4. \A f \in 1..Len(futures) : futures[f].result # "pending"
    <3>1. Len(futures) \in Nat
      BY FutureTypes DEF LedgerOK
    <3>2. Taken = Len(futures)
      BY <2>1, <3>1 DEF Taken
    <3>3. \A f \in 1..Len(futures) : f < Taken \/ f = Taken
      BY <3>1, <3>2
    <3> QED
      BY <2>1, <3>3 DEF LedgerOK, SettledKnown
  <2>5. \A f \in 1..Len(Outcomes(futures)) : Outcomes(futures)[f] # "pending"
    <3>1. Len(futures) \in Nat
      BY FutureTypes DEF LedgerOK
    <3>2. Len(Outcomes(futures)) = Len(futures)
      BY <3>1 DEF Outcomes
    <3> QED
      BY <2>4, <3>2 DEF Outcomes
  <2> QED
    BY <2>1, <2>2, <2>3, <2>5 DEF Ledger!Finish
<1> QED
  BY <1>1, <1>2, <1>3, <1>4, <1>5, <1>6, <1>7, <1>8 DEF Owner

\* Whatever fails and however often the executor is recovered: what was accepted
\* settles once and in the order of acceptance, nothing is accepted after Close,
\* and when the runtime is closed nothing is left unsettled.
THEOREM RuntimeKeepsLedger == Spec => KeepsAcceptedWork
<1>1. Init => LedgerOK /\ Reserved /\ Ledger!Init
  BY InitTypeOK, InitFutures, InitLedger, InitReserved DEF LedgerOK
<1>2. LedgerOK /\ Reserved /\ [Next]_vars =>
        LedgerOK' /\ Reserved' /\ [Ledger!Next]_(Ledger!vars)
  <2> SUFFICES ASSUME LedgerOK, Reserved, [Next]_vars
               PROVE  LedgerOK' /\ Reserved' /\ [Ledger!Next]_(Ledger!vars)
    OBVIOUS
  <2>1. TypeOK' /\ FuturesOK'
    BY NextTypeOK, NextFutures DEF LedgerOK
  <2>2. Reserved'
    BY <2>1, NextReserved DEF LedgerOK
  <2>3. admitting # NoCommand => ~closing
    BY DEF Reserved
  <2>4. LedgerQuiet => UNCHANGED Ledger!vars
    BY DEF LedgerQuiet, Ledger!vars
  <2>5. CASE UNCHANGED vars
    <3>1. UNCHANGED <<queue, futures, pc, current, verdict>>
      BY <2>5 DEF vars
    <3>2. closing' = closing /\ closed' = closed
      BY <2>5, Zenon DEF vars
    <3>3. SettledKnown'
      BY <3>1, LedgerStays DEF LedgerOK, SettledKnown
    <3> QED
      BY <2>1, <2>2, <2>4, <3>1, <3>2, <3>3 DEF LedgerOK, LedgerQuiet
  <2>6. CASE \/ \E c \in Command : SubmitJoins(c) \/ SubmitAdmits(c)
             \/ SubmitEnqueues \/ Recover \/ Close
    <3>1. SettledKnown' /\ (LedgerQuiet \/ Ledger!Accept \/ Ledger!Close)
      BY <2>3, <2>6, CallersLedger
    <3> QED
      BY <2>1, <2>2, <2>4, <3>1 DEF LedgerOK, Ledger!Next
  <2>7. CASE Owner
    <3>1. SettledKnown' /\ (LedgerQuiet \/ Ledger!Settle \/ Ledger!Finish)
      BY <2>7, OwnerLedger
    <3> QED
      BY <2>1, <2>2, <2>4, <3>1 DEF LedgerOK, Ledger!Next
  <2> QED
    BY <2>5, <2>6, <2>7 DEF Next
<1> QED
  BY <1>1, <1>2, PTL DEF Spec, KeepsAcceptedWork, Ledger!Safety

=============================================================================
