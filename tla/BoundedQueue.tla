---------------------------- MODULE BoundedQueue ----------------------------
(***************************************************************************)
(* What the kernel's interrupt-fed rings promise: a queue that gives back  *)
(* what was put in it, once and in order, and turns an item away only when *)
(* it holds Capacity items.                                                *)
(***************************************************************************)
EXTENDS Integers, Sequences

CONSTANTS Items, Capacity

VARIABLES
  queue,
  refused    \* whether an item has been turned away

Init == queue = <<>> /\ refused = FALSE

Put(item) ==
  /\ Len(queue) < Capacity
  /\ queue' = Append(queue, item)
  /\ UNCHANGED refused

Refuse ==
  /\ Len(queue) = Capacity
  /\ refused' = TRUE
  /\ UNCHANGED queue

Get ==
  /\ queue # <<>>
  /\ queue' = Tail(queue)
  /\ UNCHANGED refused

Next == (\E item \in Items : Put(item)) \/ Refuse \/ Get

QueueSpec == Init /\ [][Next]_<<queue, refused>>
=============================================================================
