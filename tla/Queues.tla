------------------------------- MODULE Queues -------------------------------
(***************************************************************************)
(* Removal from the queues of the kernel and of the C threads library      *)
(* (kern/queue.h: queue_remove, remqueue): the entries that stay keep      *)
(* their order.  Written as a recursive function, so that QueueTheorems    *)
(* can say what it computes for a queue of any length.                     *)
(***************************************************************************)
EXTENDS Integers, Sequences, Functions

\* kept[i] is what is left of the first i entries of q.
Kept(q, S) ==
  LET kept[i \in 0..Len(q)] ==
        IF i = 0 THEN <<>>
        ELSE IF q[i] \in S THEN kept[i - 1] ELSE Append(kept[i - 1], q[i])
  IN  kept

\* q without the entries of S.
Without(q, S) == Kept(q, S)[Len(q)]
=============================================================================
