----------------------------- MODULE BoundedFifo -----------------------------
(***************************************************************************)
(* What a queue between two threads promises: an item put in comes out     *)
(* once, unchanged, in the order of the puts, and no more than Capacity    *)
(* items wait in it.                                                       *)
(***************************************************************************)
EXTENDS Naturals, Sequences

CONSTANTS Capacity, Items

VARIABLES
  fifo,   \* items that wait
  out     \* items taken out, in order

vars == <<fifo, out>>

Init == fifo = <<>> /\ out = <<>>

Put ==
  /\ Len(fifo) < Capacity
  /\ out' = out
  /\ Len(fifo') = Len(fifo) + 1
  /\ \E i \in Items : fifo' = Append(fifo, i)

Get ==
  /\ fifo # <<>>
  /\ out' = Append(out, Head(fifo))
  /\ fifo' = Tail(fifo)

Next == Put \/ Get

Spec == Init /\ [][Next]_vars
=============================================================================
