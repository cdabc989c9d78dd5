------------------------------ MODULE Lottery ------------------------------
(***************************************************************************)
(* The lottery scheduler of p2A/xv6-public on one CPU: scheduler and       *)
(* hold_lottery with boosted shares, sleep and the wakeup1 that leaves     *)
(* processes asleep until their ticks are over, and settickets.            *)
(*                                                                         *)
(* A process is the number of its slot in ptable; slot 0 is init.  The     *)
(* random number is any number (sys_srand may set the seed at any time);   *)
(* runticks, which only getpinfo reads, is left out.                       *)
(* Everything a step does is done with ptable.lock held; sys_sleep and the *)
(* clock interrupt also hold tickslock across it.  Besides sleep(n) a      *)
(* process may sleep in wait, on its own proc pointer, or on "disk", which *)
(* stands for the buffers, inodes and log that begin_op, iput and the like *)
(* wait for, in exit as in any other system call.                          *)
(***************************************************************************)
EXTENDS Integers, FiniteSetsExt

CONSTANTS NPROC,
          IntMax,      \* largest int, 2^31 - 1 in the code
          Tickets,     \* the numbers settickets is called with
          Naps,        \* the numbers sleep is called with
          FirstTick,   \* ticks at the start
          TickValues,  \* number of values of the unsigned ticks
          MaxTicks, MaxBoost,   \* bounds on a run: timer interrupts, boostsleft
          MayKill      \* do programs call kill

ASSUME LotteryConstants ==
    /\ NPROC \in Nat /\ NPROC >= 2
    /\ {IntMax, TickValues} \subseteq Nat \ {0}
    /\ {MaxTicks, MaxBoost} \subseteq Nat
    /\ Tickets \subseteq 1 .. IntMax
    /\ Naps \subseteq 0 .. TickValues - 1
    /\ FirstTick \in 0 .. TickValues - 1
    /\ MaxTicks < TickValues

Slots == 0 .. NPROC - 1
initproc == 0
None == -1

\* Channels: a proc pointer, &ticks, the disk, or 0.
OnTicks == NPROC
OnDisk  == NPROC + 1
NoChan  == None

VARIABLES state, parent, killed, tickets, boostsleft,
          sleepticks, sleepstart, chan,    \* fields of struct proc
          at,         \* at[s]: the call s sleeps in: "sleep", "wait", "disk"
          nap,        \* nap[s]: n and ticks0 of sys_sleep
          elapsed     \* timer interrupts so far

procVars  == <<state, parent, killed, tickets>>
sleepVars == <<sleepticks, sleepstart, chan, at, nap>>
vars == <<procVars, boostsleft, sleepVars, elapsed>>

ticks == (FirstTick + elapsed) % TickValues

\* Unsigned difference, and signed overflow as the build has it.
Since(t) == (ticks - t) % TickValues
Wrap(x) == ((x + IntMax + 1) % (2 * (IntMax + 1))) - (IntMax + 1)

\* Init has started its shell, in slot 1, and waits for it.
Init ==
    /\ state = [s \in Slots |-> IF s = initproc THEN "SLEEPING"
                               ELSE IF s = 1 THEN "RUNNABLE" ELSE "UNUSED"]
    /\ parent = [s \in Slots |-> IF s = 1 THEN initproc ELSE None]
    /\ killed = [s \in Slots |-> FALSE]
    /\ tickets = [s \in Slots |-> IF s \in {initproc, 1} THEN 1 ELSE 0]
    /\ boostsleft = [s \in Slots |-> 0]
    /\ sleepticks = [s \in Slots |-> 0]
    /\ sleepstart = [s \in Slots |-> 0]
    /\ chan = [s \in Slots |-> IF s = initproc THEN initproc ELSE NoChan]
    /\ at = [s \in Slots |-> IF s = initproc THEN "wait" ELSE "user"]
    /\ nap = [s \in Slots |-> <<0, 0>>]
    /\ elapsed = 0

-----------------------------------------------------------------------------
Runnable == {s \in Slots : state[s] = "RUNNABLE"}

\* The tickets s takes part with: twice as many while it is boosted.
Share(s) ==
    IF s \notin Runnable THEN 0
    ELSE IF boostsleft[s] > 0 THEN Wrap(2 * tickets[s]) ELSE tickets[s]

\* scheduler's loop over the table.
total_tickets ==
    LET sum[s \in Slots] == Wrap((IF s = 0 THEN 0 ELSE sum[s - 1]) + Share(s))
    IN sum[NPROC - 1]

\* MUTANT of Winner: the drawn number counts as one of the next process's.
WinnerLate(t) ==
    LET left[s \in Slots] == Wrap((IF s = 0 THEN t ELSE left[s - 1]) - Share(s))
        past == {s \in Runnable : left[s] < 1}
    IN IF past = {} THEN None ELSE Min(past)

\* hold_lottery's first loop: the process that ticket t belongs to.
Winner(t) ==
    LET left[s \in Slots] == Wrap((IF s = 0 THEN t ELSE left[s - 1]) - Share(s))
        past == {s \in Runnable : left[s] < 0}
    IN IF past = {} THEN None ELSE Min(past)

\* hold_lottery's second loop: use up the boosts of the processes that took
\* part, give one to those that slept.
BoostsAfterRound ==
    [s \in Slots |-> CASE s \in Runnable /\ boostsleft[s] > 0 -> boostsleft[s] - 1
                       [] state[s] = "SLEEPING" -> boostsleft[s] + 1
                       [] OTHER -> boostsleft[s]]

\* One round of scheduler, while nobody is RUNNING: the winner runs until it
\* enters sched.  With a total of 0, or one that has overflown to a negative
\* number and that hold_lottery rejects, the round changes nothing.
scheduler ==
    /\ \A s \in Slots : state[s] # "RUNNING"
    /\ boostsleft' = BoostsAfterRound
    /\ \A s \in Slots : boostsleft'[s] <= MaxBoost
    /\ \E t \in 0 .. total_tickets - 1 :
          state' = [state EXCEPT ![Winner(t)] = "RUNNING"]
    /\ UNCHANGED <<parent, killed, tickets, sleepVars, elapsed>>

-----------------------------------------------------------------------------
\* MUTANT of Due: the process sleeps one tick too long.
DueLate(s, now) == (now - sleepstart[s]) % TickValues > sleepticks[s]

\* wakeup1's test, at time now.
Due(s, now) == (now - sleepstart[s]) % TickValues >= sleepticks[s]

\* wakeup1(c) for each c in chans, on the table st, at time now: wake the
\* sleepers whose time is over, boost the others.
wakeup1(st, chans, now) ==
    LET asleep == {s \in Slots : st[s] = "SLEEPING" /\ chan[s] \in chans}
        woken == {s \in asleep : Due(s, now)}
    IN /\ state' = [s \in Slots |-> IF s \in woken THEN "RUNNABLE" ELSE st[s]]
       /\ sleepticks' = [s \in Slots |-> IF s \in woken THEN 0 ELSE sleepticks[s]]
       /\ sleepstart' = [s \in Slots |-> IF s \in woken THEN 0 ELSE sleepstart[s]]
       /\ boostsleft' = [s \in Slots |->
             IF s \in asleep \ woken THEN boostsleft[s] + 1 ELSE boostsleft[s]]
       /\ \A s \in Slots : boostsleft'[s] <= MaxBoost

\* The clock interrupt: wakeup(&ticks), then the running process yields.
Tick ==
    LET yielded == [s \in Slots |-> IF state[s] = "RUNNING" THEN "RUNNABLE" ELSE state[s]]
    IN /\ elapsed < MaxTicks
       /\ elapsed' = elapsed + 1
       /\ wakeup1(yielded, {OnTicks}, (ticks + 1) % TickValues)
       /\ UNCHANGED <<parent, killed, tickets, chan, at, nap>>

\* What process p was waiting for on the disk has happened: wakeup.
DiskDone ==
    /\ \E s \in Slots : state[s] = "SLEEPING" /\ chan[s] = OnDisk
    /\ wakeup1(state, {OnDisk}, ticks)
    /\ UNCHANGED <<parent, killed, tickets, chan, at, nap, elapsed>>

\* sleep(c, lk): p, which is in the given call, leaves the CPU.
SleepOn(p, c, call) ==
    /\ state' = [state EXCEPT ![p] = "SLEEPING"]
    /\ chan' = [chan EXCEPT ![p] = c]
    /\ at' = [at EXCEPT ![p] = call]

\* p runs user code, or code of the kernel that is not modelled.  Init does
\* nothing but fork a shell when it has no children, and wait.
AtUser(p) == state[p] = "RUNNING" /\ at[p] = "user"
Calls(p)  == AtUser(p) /\ ~killed[p] /\ p # initproc

\* sys_sleep(n), up to its first sleep; sleep(0) returns at once.
sys_sleep(p, n) ==
    /\ Calls(p)
    /\ sleepticks' = [sleepticks EXCEPT ![p] = n]
    /\ sleepstart' = [sleepstart EXCEPT ![p] = ticks]
    /\ IF n > 0
       THEN /\ SleepOn(p, OnTicks, "sleep")
            /\ nap' = [nap EXCEPT ![p] = <<n, ticks>>]
       ELSE UNCHANGED <<state, chan, at, nap>>
    /\ UNCHANGED <<parent, killed, tickets, boostsleft, elapsed>>

\* sys_sleep, back from sleep: return, or sleep again.
WakeFromNap(p) ==
    /\ state[p] = "RUNNING" /\ at[p] = "sleep"
    /\ IF Since(nap[p][2]) >= nap[p][1] \/ killed[p]
       THEN /\ at' = [at EXCEPT ![p] = "user"]
            /\ chan' = [chan EXCEPT ![p] = NoChan]
            /\ nap' = [nap EXCEPT ![p] = <<0, 0>>]
            /\ UNCHANGED state
       ELSE SleepOn(p, OnTicks, "sleep") /\ UNCHANGED nap
    /\ UNCHANGED <<parent, killed, tickets, boostsleft, sleepticks, sleepstart,
                   elapsed>>

\* A system call, or exit, waits for the disk.
DiskSleep(p) ==
    /\ AtUser(p) /\ p # initproc
    /\ SleepOn(p, OnDisk, "disk")
    /\ UNCHANGED <<parent, killed, tickets, boostsleft, sleepticks, sleepstart, nap,
                   elapsed>>

\* It goes on when it runs again.
DiskReturn(p) ==
    /\ state[p] = "RUNNING" /\ at[p] = "disk"
    /\ at' = [at EXCEPT ![p] = "user"]
    /\ chan' = [chan EXCEPT ![p] = NoChan]
    /\ UNCHANGED <<procVars, boostsleft, sleepticks, sleepstart, nap, elapsed>>

-----------------------------------------------------------------------------
\* allocproc and fork: the child starts with its parent's tickets, no boosts.
\* sleepstart keeps what the slot's last process left in it.
\* The slot is EMBRYO in between, which nothing here looks at.
fork(p) ==
    LET free == {s \in Slots : state[s] = "UNUSED"} IN
    /\ free # {}
    /\ Calls(p) \/ (AtUser(p) /\ p = initproc /\ \A s \in Slots : parent[s] # p)
    /\ LET np == Min(free) IN
       /\ state' = [state EXCEPT ![np] = "RUNNABLE"]
       /\ parent' = [parent EXCEPT ![np] = p]
       /\ tickets' = [tickets EXCEPT ![np] = tickets[p]]
       /\ boostsleft' = [boostsleft EXCEPT ![np] = 0]
       /\ sleepticks' = [sleepticks EXCEPT ![np] = 0]
       /\ chan' = [chan EXCEPT ![np] = NoChan]
       /\ at' = [at EXCEPT ![np] = "user"]
    /\ UNCHANGED <<killed, sleepstart, nap, elapsed>>

\* exit, from the point where it takes ptable.lock.
exit(p) ==
    LET orphans == {s \in Slots : parent[s] = p}
        chans == {parent[p]} \cup
                 IF \E s \in orphans : state[s] = "ZOMBIE" THEN {initproc} ELSE {}
    IN /\ AtUser(p) /\ p # initproc
       /\ wakeup1([state EXCEPT ![p] = "ZOMBIE"], chans, ticks)
       /\ parent' = [s \in Slots |-> IF s \in orphans THEN initproc ELSE parent[s]]
       /\ UNCHANGED <<killed, tickets, chan, at, nap, elapsed>>

\* wait, one scan of the table.
wait(p) ==
    LET kids == {s \in Slots : parent[s] = p}
        zombies == {s \in kids : state[s] = "ZOMBIE"}
    IN /\ state[p] = "RUNNING"
       /\ \/ at[p] = "wait" \/ Calls(p)
          \/ AtUser(p) /\ p = initproc /\ kids # {}
       /\ IF zombies # {} \/ kids = {} \/ killed[p]
          THEN /\ at' = [at EXCEPT ![p] = "user"]
               /\ chan' = [chan EXCEPT ![p] = NoChan]
               /\ IF zombies = {} THEN UNCHANGED procVars
                  ELSE LET s == Min(zombies) IN
                       /\ state' = [state EXCEPT ![s] = "UNUSED"]
                       /\ parent' = [parent EXCEPT ![s] = None]
                       /\ killed' = [killed EXCEPT ![s] = FALSE]
                       /\ UNCHANGED tickets
          ELSE SleepOn(p, p, "wait") /\ UNCHANGED <<parent, killed, tickets>>
       /\ UNCHANGED <<boostsleft, sleepticks, sleepstart, nap, elapsed>>

kill(p, s) ==
    /\ MayKill
    /\ Calls(p) /\ s # initproc /\ state[s] # "UNUSED"
    /\ killed' = [killed EXCEPT ![s] = TRUE]
    /\ state' = [state EXCEPT ![s] = IF @ = "SLEEPING" THEN "RUNNABLE" ELSE @]
    /\ UNCHANGED <<parent, tickets, boostsleft, sleepVars, elapsed>>

sys_settickets(p, s, n) ==
    /\ Calls(p) /\ state[s] # "UNUSED"
    /\ tickets' = [tickets EXCEPT ![s] = n]
    /\ UNCHANGED <<state, parent, killed, boostsleft, sleepVars, elapsed>>

Next ==
    \/ scheduler \/ Tick \/ DiskDone
    \/ \E p \in Slots :
        \/ WakeFromNap(p) \/ DiskSleep(p) \/ DiskReturn(p)
        \/ fork(p) \/ exit(p) \/ wait(p)
        \/ \E n \in Naps : sys_sleep(p, n)
        \/ \E s \in Slots : kill(p, s) \/ \E n \in Tickets : sys_settickets(p, s, n)

Spec == Init /\ [][Next]_vars

-----------------------------------------------------------------------------
\* Types of the table, and at most one process is RUNNING on the one CPU.
TypeOK ==
    /\ state \in [Slots -> {"UNUSED", "SLEEPING", "RUNNABLE", "RUNNING", "ZOMBIE"}]
    /\ Cardinality({s \in Slots : state[s] = "RUNNING"}) <= 1
    /\ parent \in [Slots -> Slots \cup {None}]
    /\ tickets \in [Slots -> 0 .. IntMax]
    /\ boostsleft \in [Slots -> 0 .. MaxBoost]
    /\ sleepticks \in [Slots -> Naps \cup {0}]
    /\ sleepstart \in [Slots -> 0 .. TickValues - 1]
    /\ at \in [Slots -> {"user", "sleep", "wait", "disk"}]

\* What s is entitled to: its tickets, twice as many while it is boosted.
Entitled(s) == IF boostsleft[s] > 0 THEN 2 * tickets[s] ELSE tickets[s]

\* The tickets of the RUNNABLE processes, one by one.
TicketsHeld == UNION {{s} \X (1 .. Entitled(s)) : s \in Runnable}

\* The draw is fair as long as the tickets of the RUNNABLE processes add up to
\* an int: each of them owns exactly its share of the numbers hold_lottery can
\* draw, every number has an owner, and somebody wins if anybody is RUNNABLE.
DrawIsFair ==
    /\ TypeOK
    /\ Cardinality(TicketsHeld) <= IntMax =>
          /\ Runnable # {} => total_tickets > 0
          /\ \A s \in Runnable :
                Cardinality({t \in 0 .. total_tickets - 1 : Winner(t) = s}) = Entitled(s)
          /\ \A t \in 0 .. total_tickets - 1 : Winner(t) \in Runnable

\* sleep(n) ends on time, also when ticks wraps around in between: nobody who
\* sleeps in sys_sleep has been there for n ticks.
NoOversleep ==
    \A s \in Slots :
        state[s] = "SLEEPING" /\ at[s] = "sleep" => Since(nap[s][2]) < nap[s][1]

\* "Wake up all processes sleeping on chan" (proc.c, on wakeup1): once what
\* they wait for has happened nobody is left asleep.  Those in sys_sleep, which
\* wakeup1 leaves asleep on purpose, are not counted.
WakeupWakesAll ==
    [][DiskDone => \A s \in Slots : ~(state'[s] = "SLEEPING" /\ chan[s] = OnDisk)]_vars

\* The same for everybody who has not been killed: what is left over from an
\* earlier sleep(n), of this process or of the one that had its slot before,
\* never keeps such a process from being woken.
WakeupWakesLive ==
    [][DiskDone => \A s \in Slots :
          ~killed[s] => ~(state'[s] = "SLEEPING" /\ chan[s] = OnDisk)]_vars
=============================================================================
