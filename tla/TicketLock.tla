----------------------------- MODULE TicketLock -----------------------------
(***************************************************************************)
(* The user-level ticket lock of the p3b thread library                    *)
(* (p3b/xv6-public/ulib.c: lock_init, lock_acquire, lock_release; FAA in   *)
(* x86.h).  lk->ticket is the next number handed out, lk->turn the number  *)
(* being served; both are machine integers that wrap at Modulus (2^32 in   *)
(* the code).                                                              *)
(*                                                                         *)
(* lock_acquire draws a number with one atomic fetch-and-add and then polls *)
(* turn, sleeping a clock tick between two polls.  lock_release is NOT     *)
(* atomic: "lk->turn = lk->turn + 1" is a load followed by a store, two    *)
(* steps of this model.                                                    *)
(***************************************************************************)
EXTENDS Integers, FiniteSets

CONSTANTS Threads,   \* the threads that share the lock
          Modulus    \* number of values of an int: 2^32 in the code

ASSUME ThreadsFinite == IsFiniteSet(Threads)

\* The numbers in use at one time are distinct only while there are no more
\* threads than numbers; xv6 has at most NPROC = 64 threads.
ASSUME ModulusAssumption ==
    /\ Modulus \in Nat \ {0}
    /\ Cardinality(Threads) <= Modulus

VARIABLES pc,      \* pc[t]: where thread t is in lock_acquire/lock_release
          ticket,  \* lk->ticket
          turn,    \* lk->turn
          myturn,  \* myturn[t]: the local variable of lock_acquire
          loaded   \* loaded[t]: the value of turn read by lock_release

vars == <<pc, ticket, turn, myturn, loaded>>

Word == 0 .. Modulus - 1

\* Integer increment at machine width.
Inc(n) == (n + 1) % Modulus

\* idle: outside; poll: about to test turn; nap: in sleep(1);
\* crit: lock_acquire has returned; store: lock_release has loaded turn.
Locations == {"idle", "poll", "nap", "crit", "store"}

\* lock_init
Init ==
    /\ pc = [t \in Threads |-> "idle"]
    /\ ticket = 0
    /\ turn = 0
    /\ myturn = [t \in Threads |-> 0]
    /\ loaded = [t \in Threads |-> 0]

\* MUTANT of Draw: an add-and-fetch, which returns the new value.
DrawAddAndFetch(t) ==
    /\ pc[t] = "idle"
    /\ myturn' = [myturn EXCEPT ![t] = Inc(ticket)]
    /\ ticket' = Inc(ticket)
    /\ pc' = [pc EXCEPT ![t] = "poll"]
    /\ UNCHANGED <<turn, loaded>>

\* lock_acquire, myturn = FAA(&lk->ticket, 1).
Draw(t) ==
    /\ pc[t] = "idle"
    /\ myturn' = [myturn EXCEPT ![t] = ticket]
    /\ ticket' = Inc(ticket)
    /\ pc' = [pc EXCEPT ![t] = "poll"]
    /\ UNCHANGED <<turn, loaded>>

\* MUTANT of Poll: the loop waits while turn < myturn instead of turn != myturn.
PollLessThan(t) ==
    /\ pc[t] = "poll"
    /\ pc' = [pc EXCEPT ![t] = IF turn >= myturn[t] THEN "crit" ELSE "nap"]
    /\ UNCHANGED <<ticket, turn, myturn, loaded>>

\* lock_acquire, the test of the while loop: leave it or sleep(1).
Poll(t) ==
    /\ pc[t] = "poll"
    /\ pc' = [pc EXCEPT ![t] = IF turn = myturn[t] THEN "crit" ELSE "nap"]
    /\ UNCHANGED <<ticket, turn, myturn, loaded>>

\* sleep(1) returns and the loop tests again.
Wake(t) ==
    /\ pc[t] = "nap"
    /\ pc' = [pc EXCEPT ![t] = "poll"]
    /\ UNCHANGED <<ticket, turn, myturn, loaded>>

\* lock_release, the load of lk->turn.
Load(t) ==
    /\ pc[t] = "crit"
    /\ loaded' = [loaded EXCEPT ![t] = turn]
    /\ pc' = [pc EXCEPT ![t] = "store"]
    /\ UNCHANGED <<ticket, turn, myturn>>

\* MUTANT of Store: the incremented value is not stored back.
StoreLost(t) ==
    /\ pc[t] = "store"
    /\ turn' = loaded[t]
    /\ pc' = [pc EXCEPT ![t] = "idle"]
    /\ UNCHANGED <<ticket, myturn, loaded>>

\* lock_release, the store of lk->turn + 1.
Store(t) ==
    /\ pc[t] = "store"
    /\ turn' = Inc(loaded[t])
    /\ pc' = [pc EXCEPT ![t] = "idle"]
    /\ UNCHANGED <<ticket, myturn, loaded>>

Next == \E t \in Threads : Draw(t) \/ Poll(t) \/ Wake(t) \/ Load(t) \/ Store(t)

\* The kernel's scheduler keeps giving every runnable thread the processor,
\* and a critical section ends; nobody is forced to ask for the lock.
Fairness ==
    \A t \in Threads : WF_vars(Poll(t) \/ Wake(t) \/ Load(t) \/ Store(t))

Spec == Init /\ [][Next]_vars /\ Fairness

-----------------------------------------------------------------------------
\* Types of the lock and of the locals of lock_acquire and lock_release.
TypeOK ==
    /\ pc \in [Threads -> Locations]
    /\ ticket \in Word
    /\ turn \in Word
    /\ myturn \in [Threads -> Word]
    /\ loaded \in [Threads -> Word]

\* The threads that have drawn a number and not yet given it up.
Drawn == {t \in Threads : pc[t] # "idle"}

Holders == {t \in Threads : pc[t] \in {"crit", "store"}}

\* How many releases away thread t's number is from being served.
Distance(t) ==
    IF myturn[t] >= turn THEN myturn[t] - turn ELSE myturn[t] - turn + Modulus

\* Two threads are never both between the return of lock_acquire and the
\* store of lock_release: p3b's lock test (test_15.c) counts on it.
MutualExclusion == \A s, t \in Holders : s = t

OneNumberEach == \A s, t \in Drawn : myturn[s] = myturn[t] => s = t

WithinLine == \A t \in Drawn : Distance(t) < Cardinality(Drawn)

TicketIsNext == ticket = (turn + Cardinality(Drawn)) % Modulus

\* The numbers outstanding are exactly the ones from turn up to (not
\* including) ticket, each drawn by one thread, across the wrap of both
\* counters: no number is skipped (which would block the lock for ever) and
\* none is handed out twice.
NumbersInService == OneNumberEach /\ WithinLine /\ TicketIsNext

\* Every thread that draws a number gets the lock.
EventuallyServed ==
    \A t \in Threads : (pc[t] = "poll") ~> (pc[t] = "crit")

\* Reading the queue of a first-come-first-served lock off the counters: the
\* i-th thread in line is the one whose number is i - 1 releases away.
Line ==
    [i \in 1 .. Cardinality(Drawn) |->
        CHOOSE t \in Drawn : Distance(t) = i - 1]

Fifo == INSTANCE FifoLock WITH queue <- Line, holding <- Holders

\* The ticket lock serves its threads in the order of their fetch-and-adds:
\* lock_acquire/lock_release implement FifoLock.
ImplementsFifo == Fifo!Spec
=============================================================================
