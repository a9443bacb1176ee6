---------------------------- MODULE AcceptedWork ----------------------------
(***************************************************************************)
(* What the owner of an account promises its callers, whatever its mailbox  *)
(* looks like: work accepted is work settled, once, in the order of         *)
(* acceptance, and nothing is accepted after closing began.  It is          *)
(* finished only when everything accepted is settled.                       *)
(***************************************************************************)
EXTENDS Naturals, Sequences

CONSTANTS Results   \* the outcomes a work item may settle with

VARIABLES
  results,    \* the outcome of each accepted item, "pending" until settled
  accepting,  \* closing has not begun
  finished    \* drained and disposed

vars == <<results, accepting, finished>>

Init ==
  /\ results = <<>>
  /\ accepting = TRUE
  /\ finished = FALSE

Accept ==
  /\ accepting
  /\ results' = Append(results, "pending")
  /\ UNCHANGED <<accepting, finished>>

Oldest(f) ==
  /\ results[f] = "pending"
  /\ \A g \in 1..(f - 1) : results[g] # "pending"

Settle ==
  /\ \E f \in 1..Len(results), r \in Results :
       Oldest(f) /\ results' = [results EXCEPT ![f] = r]
  /\ UNCHANGED <<accepting, finished>>

Close ==
  /\ accepting
  /\ accepting' = FALSE
  /\ UNCHANGED <<results, finished>>

Finish ==
  /\ ~accepting
  /\ ~finished
  /\ \A f \in 1..Len(results) : results[f] # "pending"
  /\ finished' = TRUE
  /\ UNCHANGED <<results, accepting>>

Next == Accept \/ Settle \/ Close \/ Finish

\* What never goes wrong, and with it what is owed.
Safety == Init /\ [][Next]_vars

Spec == Safety /\ WF_vars(Settle) /\ WF_vars(Finish)

=============================================================================
