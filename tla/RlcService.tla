----------------------------- MODULE RlcService ------------------------------
(***************************************************************************)
(* What an RLC AM bearer promises to the layer above, whatever the radio   *)
(* loses or reorders: an SDU goes up at most once and unchanged, and the   *)
(* sender is told that an SDU was delivered only after it was.             *)
(***************************************************************************)
EXTENDS Naturals

CONSTANT Ids

VARIABLES
  submitted,   \* SDUs accepted from the layer above
  delivered,   \* SDUs given to the peer's layer above
  confirmed,   \* SDUs reported as successfully delivered
  dropped      \* SDUs the sender gave up

vars == <<submitted, delivered, confirmed, dropped>>

Init == submitted = {} /\ delivered = {} /\ confirmed = {} /\ dropped = {}

Submit(i) ==
  /\ i \notin submitted
  /\ submitted' = submitted \cup {i}
  /\ UNCHANGED <<delivered, confirmed, dropped>>

Deliver(i) ==
  /\ i \in submitted \ delivered
  /\ delivered' = delivered \cup {i}
  /\ UNCHANGED <<submitted, confirmed, dropped>>

\* One status report may confirm several SDUs.
Confirm(S) ==
  /\ S \subseteq delivered \ (confirmed \cup dropped)
  /\ confirmed' = confirmed \cup S
  /\ UNCHANGED <<submitted, delivered, dropped>>

\* A discard, or a reestablishment.
Drop(S) ==
  /\ S \subseteq submitted \ confirmed
  /\ dropped' = dropped \cup S
  /\ UNCHANGED <<submitted, delivered, confirmed>>

Next ==
  \/ \E i \in Ids : Submit(i) \/ Deliver(i)
  \/ \E S \in SUBSET Ids : Confirm(S) \/ Drop(S)

Spec == Init /\ [][Next]_vars
=============================================================================
