---------------------------- MODULE ExactlyOnce ----------------------------
(***************************************************************************)
(* What a client may rely on when it repeats a request: the request takes    *)
(* effect at most once, for one body, and only a request that took effect is  *)
(* acknowledged.                                                             *)
(***************************************************************************)
CONSTANTS Requests, Bodies

VARIABLES
  applied,       \* request -> body that took effect
  acknowledged   \* requests, with their bodies, reported as done

vars == <<applied, acknowledged>>

Init ==
  /\ applied = [r \in {} |-> r]
  /\ acknowledged = {}

Apply ==
  /\ \E r \in Requests \ DOMAIN applied, b \in Bodies :
       applied' = [x \in DOMAIN applied \cup {r} |-> IF x = r THEN b ELSE applied[x]]
  /\ UNCHANGED acknowledged

Acknowledge ==
  /\ \E r \in DOMAIN applied : acknowledged' = acknowledged \cup {<<r, applied[r]>>}
  /\ UNCHANGED applied

Spec == Init /\ [][Apply \/ Acknowledge]_vars

=============================================================================
