------------------------------ MODULE EventLog ------------------------------
(***************************************************************************)
(* What the outbox of an account promises: every event a committed command   *)
(* emitted takes effect on the shared state exactly once, in the order of    *)
(* the commits.                                                             *)
(***************************************************************************)
EXTENDS Naturals, Sequences

CONSTANTS Sources, Events

VARIABLES
  sent,      \* source -> the events it committed, in order
  effective  \* source -> the events that took effect, in order

vars == <<sent, effective>>

Init ==
  /\ sent = [s \in Sources |-> <<>>]
  /\ effective = [s \in Sources |-> <<>>]

Send(s) ==
  /\ \E e \in Events : sent' = [sent EXCEPT ![s] = Append(@, e)]
  /\ UNCHANGED effective

TakeEffect(s) ==
  /\ Len(effective[s]) < Len(sent[s])
  /\ effective' = [effective EXCEPT ![s] = Append(@, sent[s][Len(@) + 1])]
  /\ UNCHANGED sent

Next == \E s \in Sources : Send(s) \/ TakeEffect(s)

Spec == Init /\ [][Next]_vars

\* With the promise that everything takes effect in the end.
LiveSpec == Spec /\ \A s \in Sources : WF_vars(TakeEffect(s))

=============================================================================
