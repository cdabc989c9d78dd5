------------------------------ MODULE FifoLock ------------------------------
(***************************************************************************)
(* What a first-come-first-served lock promises, independent of how it is  *)
(* implemented: threads queue up in the order of their requests, only the  *)
(* thread at the head of the queue may enter the critical section, and it  *)
(* keeps the head until it releases the lock.                              *)
(***************************************************************************)
EXTENDS Sequences

CONSTANT Threads

VARIABLES queue,    \* the threads that want or hold the lock, oldest first
          holding   \* the set of threads inside the critical section

vars == <<queue, holding>>

Init == queue = <<>> /\ holding = {}

Request(t) ==
    /\ \A i \in DOMAIN queue : queue[i] # t
    /\ queue' = Append(queue, t)
    /\ UNCHANGED holding

Enter(t) ==
    /\ queue # <<>>
    /\ Head(queue) = t
    /\ holding = {}
    /\ holding' = {t}
    /\ UNCHANGED queue

Leave(t) ==
    /\ holding = {t}
    /\ holding' = {}
    /\ queue' = Tail(queue)

Next == \E t \in Threads : Request(t) \/ Enter(t) \/ Leave(t)

Spec == Init /\ [][Next]_vars
=============================================================================
