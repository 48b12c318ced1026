----------------------------- MODULE WaitQueues -----------------------------
(***************************************************************************)
(* The waiters of a tokio mutex or semaphore, which serves them first come *)
(* first served: a sequence whose first member is served next.             *)
(***************************************************************************)
EXTENDS Integers, Sequences, SequencesExt

\* A waiter whose future is dropped leaves its place in the queue.
Leaves(queue, waiter) ==
    LET places == {i \in DOMAIN queue : queue[i] = waiter}
    IN IF places = {} THEN queue ELSE RemoveAt(queue, CHOOSE i \in places : TRUE)
=============================================================================
