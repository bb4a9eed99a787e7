---------------------------- MODULE BoundedQueue ----------------------------
(***************************************************************************)
(* What aesd-circular-buffer promises: the most recent writes, oldest      *)
(* first, at most Capacity of them; a new write pushes the oldest one out. *)
(***************************************************************************)
EXTENDS Naturals, Sequences

CONSTANTS Capacity, Entry

VARIABLE queue

Init == queue = <<>>

Push(e) ==
  queue' = Append(IF Len(queue) = Capacity THEN Tail(queue) ELSE queue, e)

Next == \E e \in Entry : Push(e)

Spec == Init /\ [][Next]_queue
=============================================================================
