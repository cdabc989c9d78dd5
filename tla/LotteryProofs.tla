--------------------------- MODULE LotteryProofs ----------------------------
(***************************************************************************)
(* The scheduler of p2A for any number of slots and any word sizes: sleep  *)
(* ends on time, what is left over from an earlier sleep keeps nobody who  *)
(* is not killed from being woken, and every runnable process owns its     *)
(* share of the draw.                                                      *)
(***************************************************************************)
EXTENDS Lottery, FiniteSetTheorems, WellFoundedInduction, TLAPS

States == {"UNUSED", "SLEEPING", "RUNNABLE", "RUNNING", "ZOMBIE"}
Sites == {"user", "sleep", "wait", "disk"}

Types ==
    /\ state \in [Slots -> States]
    /\ parent \in [Slots -> Slots \cup {None}]
    /\ killed \in [Slots -> BOOLEAN]
    /\ tickets \in [Slots -> 0 .. IntMax]
    /\ boostsleft \in [Slots -> 0 .. MaxBoost]
    /\ sleepticks \in [Slots -> Naps \cup {0}]
    /\ sleepstart \in [Slots -> 0 .. TickValues - 1]
    /\ chan \in [Slots -> Int]
    /\ at \in [Slots -> Sites]
    /\ nap \in [Slots -> Nat \X Nat]
    /\ elapsed \in 0 .. MaxTicks

\* The value of ticks after e timer interrupts.
TickAt(e) == (FirstTick + e) % TickValues

\* A process in sys_sleep began it at some tick.  It is asleep on &ticks with its time
\* running, or it has been woken, because its time was over or because it was killed.
Napping(s) ==
    /\ \E e \in 0 .. elapsed : nap[s][2] = TickAt(e)
    /\ IF state[s] = "SLEEPING"
       THEN /\ chan[s] = OnTicks
            /\ nap[s][1] = sleepticks[s] /\ nap[s][2] = sleepstart[s]
            /\ Since(nap[s][2]) < nap[s][1]
       ELSE killed[s] \/ (sleepticks[s] = 0 /\ Since(nap[s][2]) >= nap[s][1])

Alive(s) == state[s] \in {"SLEEPING", "RUNNABLE", "RUNNING"}

\* Outside sys_sleep a process that is not killed has no ticks left to sleep.
Good(s) ==
    Alive(s) => IF at[s] = "sleep" THEN Napping(s) ELSE killed[s] \/ sleepticks[s] = 0

IInv == Types /\ \A s \in Slots : Good(s)

-----------------------------------------------------------------------------
LEMMA Sizes ==
    /\ NPROC \in Nat /\ NPROC >= 2
    /\ IntMax \in Nat /\ IntMax > 0 /\ TickValues \in Nat /\ TickValues > 0
    /\ MaxTicks \in Nat /\ MaxBoost \in Nat /\ MaxTicks < TickValues
    /\ FirstTick \in 0 .. TickValues - 1
    /\ Naps \subseteq 0 .. TickValues - 1
    /\ Tickets \subseteq 1 .. IntMax
BY LotteryConstants

\* Every set of numbers that is not empty has a least one.
LEMMA LeastExists ==
    ASSUME NEW T \in SUBSET Nat, T # {}
    PROVE  \E x \in T : \A y \in T : x <= y
<1> DEFINE R == {ss \in Nat \X Nat : ss[1] < ss[2]}
<1>1. R = OpToRel(<, Nat)
  BY DEF OpToRel
<1>2. IsWellFoundedOn(R, Nat)
  BY <1>1, NatLessThanWellFounded, Zenon
<1> HIDE DEF R
<1>3. \E x \in T : \A y \in T : ~ (<<y, x>> \in R)
  BY <1>2, WFMin, Zenon
<1>4. \A x, y \in T : ~(<<y, x>> \in R) => x <= y
  BY DEF R
<1> QED
  BY <1>3, <1>4, Zenon

\* The first slot of a set.
LEMMA First ==
    ASSUME NEW T \in SUBSET Slots, T # {}
    PROVE  Min(T) \in T /\ \A y \in T : Min(T) <= y
<1>1. T \in SUBSET Nat
  BY Sizes DEF Slots
<1> QED
  BY <1>1, LeastExists, Zenon DEF Min

-----------------------------------------------------------------------------
\* ticks wraps around at most once in MaxTicks interrupts.
LEMMA TickFacts ==
    ASSUME NEW e \in 0 .. MaxTicks
    PROVE  /\ TickAt(e) = IF FirstTick + e < TickValues THEN FirstTick + e
                          ELSE FirstTick + e - TickValues
           /\ TickAt(e) \in 0 .. TickValues - 1
<1>1. FirstTick + e \in 0 .. 2 * TickValues - 1
  BY Sizes
<1> QED
  BY <1>1, Sizes DEF TickAt

\* The difference of two unsigned numbers.
LEMMA Difference ==
    ASSUME NEW x \in 0 .. TickValues - 1, NEW y \in 0 .. TickValues - 1
    PROVE  (x - y) % TickValues = IF x >= y THEN x - y ELSE x - y + TickValues
BY Sizes

\* The unsigned difference of two ticks is the number of interrupts between them.
LEMMA Elapsed ==
    ASSUME NEW a \in 0 .. MaxTicks, NEW e \in 0 .. a
    PROVE  (TickAt(a) - TickAt(e)) % TickValues = a - e
<1>1. e \in 0 .. MaxTicks
  BY Sizes
<1>2. (TickAt(a) - TickAt(e)) % TickValues =
          IF TickAt(a) >= TickAt(e) THEN TickAt(a) - TickAt(e)
          ELSE TickAt(a) - TickAt(e) + TickValues
  BY <1>1, TickFacts, Difference, Zenon
<1> QED
  BY <1>1, <1>2, TickFacts, Sizes

\* The tick after the interrupt.
LEMMA NextTick ==
    ASSUME NEW e \in 0 .. MaxTicks, e < MaxTicks
    PROVE  (TickAt(e) + 1) % TickValues = TickAt(e + 1)
<1>1. e + 1 \in 0 .. MaxTicks
  BY Sizes
<1>2. TickAt(e) + 1 \in 0 .. TickValues
  BY TickFacts, Sizes
<1>3. (TickAt(e) + 1) % TickValues = IF TickAt(e) + 1 < TickValues THEN TickAt(e) + 1 ELSE 0
  BY <1>2, Sizes
<1> QED
  BY <1>1, <1>3, TickFacts, Sizes

-----------------------------------------------------------------------------
\* A slot in which nothing happens, or whose process is scheduled or yields.
LEMMA Kept ==
    ASSUME NEW s \in Slots, Good(s), elapsed' = elapsed,
           \/ state'[s] = state[s]
           \/ state[s] \in {"RUNNABLE", "RUNNING"} /\ state'[s] \in {"RUNNABLE", "RUNNING"},
           at'[s] = at[s], chan'[s] = chan[s], nap'[s] = nap[s], killed'[s] = killed[s],
           sleepticks'[s] = sleepticks[s], sleepstart'[s] = sleepstart[s]
    PROVE  Good(s)'
<1>1. Alive(s)' <=> Alive(s)
  BY DEF Alive
<1>2. Napping(s) <=> Napping(s)'
  <2>1. ticks' = ticks
    BY Zenon DEF ticks
  <2>2. state'[s] = "SLEEPING" <=> state[s] = "SLEEPING"
    OBVIOUS
  <2> QED
    BY <2>1, <2>2, Zenon DEF Napping, Since
<1> QED
  BY <1>1, <1>2, Zenon DEF Good

\* What wakeup1 does to the table.
LEMMA WakeupTypes ==
    ASSUME Types, NEW st \in [Slots -> States], NEW chans, NEW now, wakeup1(st, chans, now)
    PROVE  /\ state' \in [Slots -> States]
           /\ sleepticks' \in [Slots -> Naps \cup {0}]
           /\ sleepstart' \in [Slots -> 0 .. TickValues - 1]
           /\ boostsleft' \in [Slots -> 0 .. MaxBoost]
<1>1. state' \in [Slots -> States]
  BY Zenon DEF wakeup1, States
<1>2. sleepticks' \in [Slots -> Naps \cup {0}]
  BY Zenon DEF wakeup1, Types
<1>3. sleepstart' \in [Slots -> 0 .. TickValues - 1]
  <2>1. 0 \in 0 .. TickValues - 1
    BY Sizes
  <2> QED
    BY <2>1, Zenon DEF wakeup1, Types
<1>4. boostsleft' \in [Slots -> 0 .. MaxBoost]
  <2>1. PICK W : boostsleft' = [s \in Slots |-> IF s \in W THEN boostsleft[s] + 1 ELSE boostsleft[s]]
    BY Zenon DEF wakeup1
  <2>2. \A s \in Slots : boostsleft'[s] <= MaxBoost
    BY Zenon DEF wakeup1
  <2>3. boostsleft \in [Slots -> 0 .. MaxBoost]
    BY Zenon DEF Types
  <2> QED
    BY <2>1, <2>2, <2>3, Sizes
<1> QED
  BY <1>1, <1>2, <1>3, <1>4, Zenon

\* The slots that wakeup1 wakes, and the others.
LEMMA WakeupFacts ==
    ASSUME NEW st, NEW chans, NEW now, wakeup1(st, chans, now), NEW s \in Slots
    PROVE  /\ st[s] = "SLEEPING" /\ chan[s] \in chans /\ Due(s, now) =>
                 state'[s] = "RUNNABLE" /\ sleepticks'[s] = 0
           /\ ~(st[s] = "SLEEPING" /\ chan[s] \in chans /\ Due(s, now)) =>
                 /\ state'[s] = st[s]
                 /\ sleepticks'[s] = sleepticks[s] /\ sleepstart'[s] = sleepstart[s]
BY Zenon DEF wakeup1

\* A wakeup on another channel than &ticks.
LEMMA WakeupKeeps ==
    ASSUME IInv, NEW st \in [Slots -> States], NEW chans, wakeup1(st, chans, ticks),
           OnTicks \notin chans, UNCHANGED <<killed, chan, at, nap, elapsed>>,
           \A s \in Slots : st[s] = state[s] \/ st[s] = "ZOMBIE"
    PROVE  \A s \in Slots : Good(s)'
<1> SUFFICES ASSUME NEW s \in Slots PROVE Good(s)'
  BY Zenon
<1>1. Good(s)
  BY Zenon DEF IInv
<1>2. CASE st[s] = "SLEEPING" /\ chan[s] \in chans /\ Due(s, ticks)
  <2>1. sleepticks'[s] = 0
    BY <1>2, WakeupFacts, Zenon
  <2>2. at[s] # "sleep"
    BY <1>1, <1>2 DEF Good, Napping, Alive
  <2> QED
    BY <2>1, <2>2, Zenon DEF Good
<1>3. CASE ~(st[s] = "SLEEPING" /\ chan[s] \in chans /\ Due(s, ticks))
  <2>1. state'[s] = st[s] /\ sleepticks'[s] = sleepticks[s] /\ sleepstart'[s] = sleepstart[s]
    BY <1>3, WakeupFacts, Zenon
  <2>2. CASE st[s] = "ZOMBIE"
    BY <2>1, <2>2 DEF Good, Alive
  <2>3. CASE st[s] = state[s]
    BY <1>1, <2>1, <2>3, Kept, Zenon
  <2> QED
    BY <2>2, <2>3, Zenon
<1> QED
  BY <1>2, <1>3, Zenon

\* The clock interrupt wakes exactly those whose time is over.
LEMMA TickStep ==
    ASSUME IInv, Tick
    PROVE  IInv'
<1> DEFINE yielded == [s \in Slots |-> IF state[s] = "RUNNING" THEN "RUNNABLE" ELSE state[s]]
<1>1. /\ elapsed < MaxTicks /\ elapsed' = elapsed + 1
      /\ wakeup1(yielded, {OnTicks}, (ticks + 1) % TickValues)
      /\ UNCHANGED <<parent, killed, tickets, chan, at, nap>>
  BY Zenon DEF Tick
<1>2. elapsed \in 0 .. MaxTicks /\ elapsed' \in 0 .. MaxTicks /\ elapsed \in 0 .. elapsed'
  BY <1>1, Sizes DEF IInv, Types
<1>3. ticks = TickAt(elapsed) /\ ticks' = TickAt(elapsed') /\ (ticks + 1) % TickValues = ticks'
  <2>1. ticks = TickAt(elapsed) /\ ticks' = TickAt(elapsed')
    BY Zenon DEF ticks, TickAt
  <2> QED
    BY <1>1, <1>2, <2>1, NextTick, Zenon
<1>4. yielded \in [Slots -> States]
  BY DEF IInv, Types, States
<1>5. \A s \in Slots : yielded[s] = IF state[s] = "RUNNING" THEN "RUNNABLE" ELSE state[s]
  BY Zenon
<1> HIDE DEF yielded
<1>6. Types'
  BY <1>1, <1>2, <1>4, WakeupTypes, Zenon DEF IInv, Types
<1>7. ASSUME NEW s \in Slots PROVE Good(s)'
  <2>1. Good(s) /\ (Alive(s)' => Alive(s))
    <3>1. state'[s] \in {yielded[s], "RUNNABLE"} /\ (state'[s] # yielded[s] => yielded[s] = "SLEEPING")
      BY <1>1, WakeupFacts, Zenon
    <3> QED
      BY <1>5, <3>1 DEF IInv, Alive
  <2>2. CASE at[s] # "sleep"
    <3>1. sleepticks'[s] \in {0, sleepticks[s]}
      BY <1>1, WakeupFacts, Zenon
    <3> QED
      BY <1>1, <2>1, <2>2, <3>1, Zenon DEF Good
  <2>3. CASE at[s] = "sleep" /\ Alive(s)'
    <3>1. Napping(s) /\ at'[s] = "sleep" /\ nap'[s] = nap[s] /\ chan'[s] = chan[s]
          /\ killed'[s] = killed[s]
      BY <1>1, <2>1, <2>3, Zenon DEF Good
    <3>2. PICK e \in 0 .. elapsed : nap[s][2] = TickAt(e)
      BY <3>1, Zenon DEF Napping
    <3>3. e \in 0 .. elapsed' /\ e \in 0 .. MaxTicks
      BY <1>1, <1>2, Sizes
    <3>4. Since(nap[s][2]) = elapsed - e /\ (ticks' - nap[s][2]) % TickValues = elapsed' - e
      BY <1>2, <1>3, <3>2, <3>3, Elapsed, Zenon DEF Since
    <3>5. Since(nap[s][2])' = elapsed' - e
      BY <3>1, <3>4, Zenon DEF Since
    <3>6. CASE yielded[s] = "SLEEPING" /\ Due(s, ticks')
      <4>1. state[s] = "SLEEPING"
        BY <1>5, <3>6
      <4>2. chan[s] = OnTicks /\ nap[s][1] = sleepticks[s] /\ nap[s][2] = sleepstart[s]
        BY <3>1, <4>1, Zenon DEF Napping
      <4>3. state'[s] = "RUNNABLE" /\ sleepticks'[s] = 0
        BY <1>1, <1>3, <3>6, <4>2, WakeupFacts, Zenon
      <4>4. elapsed' - e >= nap[s][1]
        BY <3>4, <3>6, <4>2, Zenon DEF Due
      <4> QED
        BY <3>1, <3>2, <3>3, <3>5, <4>3, <4>4 DEF Good, Napping
    <3>7. CASE yielded[s] = "SLEEPING" /\ ~Due(s, ticks')
      <4>1. state[s] = "SLEEPING"
        BY <1>5, <3>7
      <4>2. chan[s] = OnTicks /\ nap[s][1] = sleepticks[s] /\ nap[s][2] = sleepstart[s]
        BY <3>1, <4>1, Zenon DEF Napping
      <4>3. state'[s] = "SLEEPING" /\ sleepticks'[s] = sleepticks[s] /\ sleepstart'[s] = sleepstart[s]
        BY <1>1, <1>3, <3>7, WakeupFacts, Zenon
      <4>4. elapsed' - e < nap[s][1]
        <5>1. ~(elapsed' - e >= nap[s][1])
          BY <3>4, <3>7, <4>2, Zenon DEF Due
        <5>2. nap[s][1] \in Nat
          BY DEF IInv, Types
        <5> QED
          BY <1>2, <3>3, <5>1, <5>2
      <4> QED
        BY <3>1, <3>2, <3>3, <3>5, <4>2, <4>3, <4>4, Zenon DEF Good, Napping
    <3>8. CASE yielded[s] # "SLEEPING"
      <4>1. state[s] # "SLEEPING" /\ state'[s] # "SLEEPING" /\ sleepticks'[s] = sleepticks[s]
        <5>1. state'[s] = yielded[s] /\ sleepticks'[s] = sleepticks[s]
          BY <1>1, <3>8, WakeupFacts, Zenon
        <5> QED
          BY <1>5, <3>8, <5>1
      <4>2. Since(nap[s][2]) >= nap[s][1] => elapsed' - e >= nap[s][1]
        <5>1. nap[s][1] \in Nat
          BY DEF IInv, Types
        <5> QED
          BY <1>1, <1>2, <3>3, <3>4, <5>1
      <4> QED
        BY <3>1, <3>2, <3>3, <3>5, <4>1, <4>2, Zenon DEF Good, Napping
    <3> QED
      BY <3>6, <3>7, <3>8, Zenon
  <2> QED
    BY <1>1, <2>2, <2>3, Zenon DEF Good
<1> QED
  BY <1>6, <1>7, Zenon DEF IInv

LEMMA DiskDoneStep ==
    ASSUME IInv, DiskDone
    PROVE  IInv'
<1>1. OnTicks \notin {OnDisk}
  BY Sizes DEF OnTicks, OnDisk
<1>2. wakeup1(state, {OnDisk}, ticks) /\ UNCHANGED <<parent, killed, tickets, chan, at, nap, elapsed>>
  BY Zenon DEF DiskDone
<1>3. state \in [Slots -> States]
  BY Zenon DEF IInv, Types
<1>4. Types'
  BY <1>2, <1>3, WakeupTypes, Zenon DEF IInv, Types
<1> QED
  BY <1>1, <1>2, <1>3, <1>4, WakeupKeeps, Zenon DEF IInv

LEMMA ExitStep ==
    ASSUME IInv, NEW p \in Slots, exit(p)
    PROVE  IInv'
<1> DEFINE zombied == [state EXCEPT ![p] = "ZOMBIE"]
<1>1. PICK chans \in SUBSET {parent[p], initproc} : wakeup1(zombied, chans, ticks)
  BY Zenon DEF exit
<1>2. UNCHANGED <<killed, tickets, chan, at, nap, elapsed>>
  BY Zenon DEF exit
<1>3. parent' \in [Slots -> Slots \cup {None}]
  <2>1. initproc \in Slots
    BY Sizes DEF initproc, Slots
  <2> QED
    BY <2>1, Zenon DEF exit, IInv, Types
<1>4. OnTicks \notin chans
  <2>1. parent[p] \in Slots \cup {None}
    BY Zenon DEF IInv, Types
  <2> QED
    BY <1>1, <2>1, Sizes DEF OnTicks, Slots, None, initproc
<1>5. zombied \in [Slots -> States] /\ \A s \in Slots : zombied[s] = state[s] \/ zombied[s] = "ZOMBIE"
  BY Zenon DEF IInv, Types, States
<1> HIDE DEF zombied
<1>6. Types'
  BY <1>1, <1>2, <1>3, <1>5, WakeupTypes, Zenon DEF IInv, Types
<1> QED
  BY <1>1, <1>2, <1>4, <1>5, <1>6, WakeupKeeps, Zenon DEF IInv

\* The scheduler picks a process that can run, or none.
LEMMA WinnerFacts ==
    ASSUME NEW t
    PROVE  Winner(t) \in Runnable \/ Winner(t) = None
<1>1. PICK past \in SUBSET Runnable : Winner(t) = IF past = {} THEN None ELSE Min(past)
  BY Zenon DEF Winner
<1>2. past \in SUBSET Slots
  BY Zenon DEF Runnable
<1> QED
  BY <1>1, <1>2, First, Zenon

LEMMA SchedulerStep ==
    ASSUME IInv, scheduler
    PROVE  IInv'
<1>1. PICK t : state' = [state EXCEPT ![Winner(t)] = "RUNNING"]
  BY Zenon DEF scheduler
<1>2. UNCHANGED <<parent, killed, tickets, sleepticks, sleepstart, chan, at, nap, elapsed>>
  BY Zenon DEF scheduler, sleepVars
<1>3. None \notin Slots
  BY DEF None, Slots
<1>4. state' \in [Slots -> States] /\ \A s \in Slots :
          state'[s] = state[s] \/ (state[s] = "RUNNABLE" /\ state'[s] = "RUNNING")
  <2>1. PICK w : w = Winner(t)
    BY Zenon
  <2>2. state \in [Slots -> States] /\ "RUNNING" \in States
    BY Zenon DEF IInv, Types, States
  <2>3. state' = [state EXCEPT ![w] = "RUNNING"]
    BY <1>1, <2>1, Zenon
  <2>4. state' \in [Slots -> States]
    BY <2>2, <2>3
  <2>5. \A s \in Slots : state'[s] = IF s = w THEN "RUNNING" ELSE state[s]
    BY <2>2, <2>3, Zenon
  <2>6. w \in Slots => state[w] = "RUNNABLE"
    BY <1>3, <2>1, WinnerFacts, Zenon DEF Runnable
  <2>7. ASSUME NEW s \in Slots
        PROVE  state'[s] = state[s] \/ (state[s] = "RUNNABLE" /\ state'[s] = "RUNNING")
    BY <2>5, <2>6
  <2> QED
    BY <2>4, <2>7, Zenon
<1>5. boostsleft' \in [Slots -> 0 .. MaxBoost]
  <2>1. boostsleft \in [Slots -> 0 .. MaxBoost] /\ boostsleft' = BoostsAfterRound
        /\ \A s \in Slots : boostsleft'[s] <= MaxBoost
    BY Zenon DEF scheduler, IInv, Types
  <2>2. \A s \in Slots : boostsleft'[s] \in Nat
    BY <2>1, Sizes DEF BoostsAfterRound
  <2>3. \A s \in Slots : boostsleft'[s] \in 0 .. MaxBoost
    BY <2>1, <2>2, Sizes
  <2> QED
    BY <2>1, <2>3, Zenon DEF BoostsAfterRound
<1>6. \A s \in Slots : Good(s)'
  BY <1>2, <1>4, Kept DEF IInv
<1> QED
  BY <1>2, <1>4, <1>5, <1>6, Zenon DEF IInv, Types

\* A step that changes one slot.
LEMMA OneSlot ==
    ASSUME IInv, NEW p \in Slots, elapsed' = elapsed,
           \A s \in Slots \ {p} : /\ state'[s] = state[s] /\ at'[s] = at[s]
                                  /\ chan'[s] = chan[s] /\ nap'[s] = nap[s]
                                  /\ killed'[s] = killed[s]
                                  /\ sleepticks'[s] = sleepticks[s]
                                  /\ sleepstart'[s] = sleepstart[s],
           Types', Good(p)'
    PROVE  IInv'
BY Kept, Zenon DEF IInv

LEMMA SleepStep ==
    ASSUME IInv, NEW p \in Slots, NEW n \in Naps, sys_sleep(p, n)
    PROVE  IInv'
<1>1. /\ sleepticks' = [sleepticks EXCEPT ![p] = n]
      /\ sleepstart' = [sleepstart EXCEPT ![p] = ticks]
      /\ UNCHANGED <<parent, killed, tickets, boostsleft, elapsed>>
      /\ \/ /\ n > 0 /\ state' = [state EXCEPT ![p] = "SLEEPING"]
            /\ chan' = [chan EXCEPT ![p] = OnTicks] /\ at' = [at EXCEPT ![p] = "sleep"]
            /\ nap' = [nap EXCEPT ![p] = <<n, ticks>>]
         \/ ~(n > 0) /\ UNCHANGED <<state, chan, at, nap>>
      /\ at[p] = "user"
  BY Zenon DEF sys_sleep, SleepOn, Calls, AtUser
<1>2. elapsed \in 0 .. MaxTicks /\ elapsed \in 0 .. elapsed /\ ticks = TickAt(elapsed)
      /\ ticks \in 0 .. TickValues - 1 /\ n \in Nat /\ OnTicks \in Int
  <2>1. elapsed \in 0 .. MaxTicks /\ elapsed \in 0 .. elapsed /\ n \in Nat /\ OnTicks \in Int
    BY Sizes DEF IInv, Types, OnTicks
  <2>2. ticks = TickAt(elapsed)
    BY Zenon DEF ticks, TickAt
  <2> QED
    BY <2>1, <2>2, TickFacts, Zenon
<1>3. ticks \in Nat
  BY <1>2, Sizes
<1>4. Types'
  <2>0. <<n, ticks>> \in Nat \X Nat
    BY <1>2, <1>3
  <2>1. nap' \in [Slots -> Nat \X Nat] /\ chan' \in [Slots -> Int]
    <3>1. nap \in [Slots -> Nat \X Nat] /\ chan \in [Slots -> Int]
      BY Zenon DEF IInv, Types
    <3>2. [nap EXCEPT ![p] = <<n, ticks>>] \in [Slots -> Nat \X Nat]
      BY <2>0, <3>1
    <3> QED
      BY <1>1, <1>2, <3>1, <3>2, Zenon
  <2>2. state' \in [Slots -> States] /\ at' \in [Slots -> Sites]
    BY <1>1, Zenon DEF IInv, Types, States, Sites
  <2>3. sleepticks' \in [Slots -> Naps \cup {0}] /\ sleepstart' \in [Slots -> 0 .. TickValues - 1]
    BY <1>1, <1>2, Zenon DEF IInv, Types
  <2> QED
    BY <1>1, <2>1, <2>2, <2>3, Zenon DEF IInv, Types
<1>5. \A s \in Slots \ {p} : /\ state'[s] = state[s] /\ at'[s] = at[s]
                             /\ chan'[s] = chan[s] /\ nap'[s] = nap[s]
                             /\ killed'[s] = killed[s]
                             /\ sleepticks'[s] = sleepticks[s]
                             /\ sleepstart'[s] = sleepstart[s]
  BY <1>1, Zenon DEF IInv, Types
<1>6. Good(p)'
  <2>1. CASE n > 0 /\ nap' = [nap EXCEPT ![p] = <<n, ticks>>]
    <3>1. nap'[p][1] = n /\ nap'[p][2] = ticks /\ sleepticks'[p] = n /\ sleepstart'[p] = ticks
      BY <1>1, <2>1, Zenon DEF IInv, Types
    <3>2. state'[p] = "SLEEPING" /\ chan'[p] = OnTicks
      BY <1>1, <2>1, Zenon DEF IInv, Types
    <3>3. ticks' = ticks
      BY <1>1, Zenon DEF ticks
    <3>4. (ticks - ticks) % TickValues = 0
      BY <1>3, Sizes
    <3>5. Since(nap[p][2])' = 0
      BY <3>1, <3>3, <3>4, Zenon DEF Since
    <3>6. 0 < n
      BY <1>2, <2>1
    <3>7. \E e \in 0 .. elapsed' : nap'[p][2] = TickAt(e)
      BY <1>1, <1>2, <3>1, Zenon
    <3>8. Napping(p)' /\ at'[p] = "sleep"
      BY <1>1, <2>1, <3>1, <3>2, <3>5, <3>6, <3>7, Zenon DEF Napping, IInv, Types
    <3> QED
      BY <3>8, Zenon DEF Good
  <2>2. CASE ~(n > 0)
    <3>1. n = 0
      BY <1>2, <2>2
    <3>2. sleepticks'[p] = 0 /\ at'[p] # "sleep"
      BY <1>1, <2>2, <3>1, Zenon DEF IInv, Types
    <3> QED
      BY <3>2, Zenon DEF Good
  <2> QED
    BY <1>1, <2>1, <2>2, Zenon
<1> QED
  BY <1>1, <1>4, <1>5, <1>6, OneSlot, Zenon

LEMMA WakeFromNapStep ==
    ASSUME IInv, NEW p \in Slots, WakeFromNap(p)
    PROVE  IInv'
<1>1. /\ state[p] = "RUNNING" /\ at[p] = "sleep"
      /\ UNCHANGED <<parent, killed, tickets, boostsleft, sleepticks, sleepstart, elapsed>>
  BY Zenon DEF WakeFromNap
<1>2. Since(nap[p][2]) >= nap[p][1] \/ killed[p]
  BY <1>1 DEF IInv, Good, Napping, Alive
<1>3. /\ at' = [at EXCEPT ![p] = "user"] /\ chan' = [chan EXCEPT ![p] = NoChan]
      /\ nap' = [nap EXCEPT ![p] = <<0, 0>>] /\ UNCHANGED state
  BY <1>2, Zenon DEF WakeFromNap
<1>4. Types'
  <2>1. <<0, 0>> \in Nat \X Nat /\ NoChan \in Int
    BY DEF NoChan, None
  <2>2. nap' \in [Slots -> Nat \X Nat] /\ chan' \in [Slots -> Int] /\ at' \in [Slots -> Sites]
    BY <1>3, <2>1, Zenon DEF IInv, Types, Sites
  <2> QED
    BY <1>1, <1>3, <2>2, Zenon DEF IInv, Types
<1>5. killed[p] \/ sleepticks[p] = 0
  BY <1>1 DEF IInv, Good, Napping, Alive
<1>6. at'[p] # "sleep"
  BY <1>3, Zenon DEF IInv, Types
<1>7. Good(p)'
  BY <1>1, <1>5, <1>6, Zenon DEF Good
<1>8. \A s \in Slots \ {p} : at'[s] = at[s] /\ chan'[s] = chan[s] /\ nap'[s] = nap[s]
  BY <1>3, Zenon DEF IInv, Types
<1> QED
  BY <1>1, <1>3, <1>4, <1>7, <1>8, OneSlot, Zenon

\* p, which is not in sys_sleep, begins to sleep in another call or goes on after it.
LEMMA OtherCall ==
    ASSUME IInv, NEW p \in Slots, Alive(p), at[p] # "sleep",
           state' = state \/ state' = [state EXCEPT ![p] = "SLEEPING"],
           NEW c \in Int, chan' = [chan EXCEPT ![p] = c],
           NEW l \in Sites \ {"sleep"}, at' = [at EXCEPT ![p] = l],
           UNCHANGED <<parent, killed, tickets, boostsleft, sleepticks, sleepstart, nap, elapsed>>
    PROVE  IInv'
<1>1. state' \in [Slots -> States] /\ chan' \in [Slots -> Int] /\ at' \in [Slots -> Sites]
  BY Zenon DEF IInv, Types, States
<1>2. Types'
  BY <1>1, Zenon DEF IInv, Types
<1>3. at'[p] = l
  BY Zenon DEF IInv, Types
<1>4. Good(p)'
  BY <1>3, Zenon DEF IInv, Good
<1>5. \A s \in Slots \ {p} : at'[s] = at[s] /\ chan'[s] = chan[s] /\ state'[s] = state[s]
  BY Zenon DEF IInv, Types
<1> QED
  BY <1>2, <1>4, <1>5, OneSlot, Zenon

LEMMA DiskStep ==
    ASSUME IInv, NEW p \in Slots, DiskSleep(p) \/ DiskReturn(p)
    PROVE  IInv'
<1>1. OnDisk \in Int /\ NoChan \in Int /\ {"disk", "user"} \subseteq Sites \ {"sleep"}
  BY Sizes DEF OnDisk, NoChan, None, Sites
<1>2. Alive(p) /\ at[p] # "sleep"
  BY DEF DiskSleep, DiskReturn, AtUser, Alive
<1>3. CASE DiskSleep(p)
  BY <1>1, <1>2, <1>3, OtherCall, Zenon DEF DiskSleep, SleepOn
<1>4. CASE DiskReturn(p)
  BY <1>1, <1>2, <1>4, OtherCall, Zenon DEF DiskReturn, procVars
<1> QED
  BY <1>3, <1>4, Zenon

LEMMA ForkStep ==
    ASSUME IInv, NEW p \in Slots, fork(p)
    PROVE  IInv'
<1> DEFINE free == {s \in Slots : state[s] = "UNUSED"}
<1>1. PICK np : np = Min(free)
  BY Zenon
<1>2. /\ free # {}
      /\ state' = [state EXCEPT ![np] = "RUNNABLE"]
      /\ parent' = [parent EXCEPT ![np] = p]
      /\ tickets' = [tickets EXCEPT ![np] = tickets[p]]
      /\ boostsleft' = [boostsleft EXCEPT ![np] = 0]
      /\ sleepticks' = [sleepticks EXCEPT ![np] = 0]
      /\ chan' = [chan EXCEPT ![np] = NoChan]
      /\ at' = [at EXCEPT ![np] = "user"]
      /\ UNCHANGED <<killed, sleepstart, nap, elapsed>>
  BY <1>1, Zenon DEF fork
<1>3. np \in Slots
  BY <1>1, <1>2, First, Zenon
<1>4. Types'
  <2>1. NoChan \in Int /\ 0 \in 0 .. MaxBoost
    BY Sizes DEF NoChan, None
  <2>2. /\ state' \in [Slots -> States] /\ at' \in [Slots -> Sites]
        /\ parent' \in [Slots -> Slots \cup {None}]
    BY <1>2, Zenon DEF IInv, Types, States, Sites
  <2>3. tickets' \in [Slots -> 0 .. IntMax] /\ boostsleft' \in [Slots -> 0 .. MaxBoost]
    BY <1>2, <2>1, Zenon DEF IInv, Types
  <2>4. sleepticks' \in [Slots -> Naps \cup {0}] /\ chan' \in [Slots -> Int]
    BY <1>2, <2>1, Zenon DEF IInv, Types
  <2> QED
    BY <1>2, <2>2, <2>3, <2>4, Zenon DEF IInv, Types
<1>5. sleepticks'[np] = 0 /\ at'[np] = "user"
  BY <1>2, <1>3, Zenon DEF IInv, Types
<1>6. Good(np)'
  BY <1>5 DEF Good
<1>7. \A s \in Slots \ {np} : /\ state'[s] = state[s] /\ at'[s] = at[s] /\ chan'[s] = chan[s]
                              /\ sleepticks'[s] = sleepticks[s]
  BY <1>2, <1>3, Zenon DEF IInv, Types
<1> QED
  BY <1>2, <1>3, <1>4, <1>6, <1>7, OneSlot, Zenon

LEMMA WaitStep ==
    ASSUME IInv, NEW p \in Slots, wait(p)
    PROVE  IInv'
<1> DEFINE kids == {s \in Slots : parent[s] = p}
<1> DEFINE zombies == {s \in kids : state[s] = "ZOMBIE"}
<1>1. Alive(p) /\ at[p] # "sleep" /\ p \in Int /\ NoChan \in Int
      /\ {"wait", "user"} \subseteq Sites \ {"sleep"}
  BY Sizes DEF wait, Calls, AtUser, Alive, NoChan, None, Sites, Slots
<1>2. UNCHANGED <<boostsleft, sleepticks, sleepstart, nap, elapsed, tickets>>
  BY Zenon DEF wait, procVars
<1>3. CASE SleepOn(p, p, "wait") /\ UNCHANGED <<parent, killed>>
  BY <1>1, <1>2, <1>3, OtherCall, Zenon DEF SleepOn
<1>4. CASE /\ at' = [at EXCEPT ![p] = "user"] /\ chan' = [chan EXCEPT ![p] = NoChan]
           /\ UNCHANGED <<state, parent, killed>>
  BY <1>1, <1>2, <1>4, OtherCall, Zenon
<1>5. CASE /\ at' = [at EXCEPT ![p] = "user"] /\ chan' = [chan EXCEPT ![p] = NoChan]
           /\ zombies # {}
           /\ state' = [state EXCEPT ![Min(zombies)] = "UNUSED"]
           /\ parent' = [parent EXCEPT ![Min(zombies)] = None]
           /\ killed' = [killed EXCEPT ![Min(zombies)] = FALSE]
  <2>1. PICK s : s = Min(zombies)
    BY Zenon
  <2>2. s \in Slots /\ state[s] = "ZOMBIE"
    <3>1. zombies \in SUBSET Slots
      BY Zenon
    <3>2. s \in zombies
      BY <1>5, <2>1, <3>1, First, Zenon
    <3> QED
      BY <3>2, Zenon
  <2>3. /\ state' = [state EXCEPT ![s] = "UNUSED"] /\ parent' = [parent EXCEPT ![s] = None]
        /\ killed' = [killed EXCEPT ![s] = FALSE]
    BY <1>5, <2>1, Zenon
  <2>4. Types'
    <3>1. state' \in [Slots -> States] /\ at' \in [Slots -> Sites]
      <4>1. /\ state \in [Slots -> States] /\ at \in [Slots -> Sites]
            /\ "UNUSED" \in States /\ "user" \in Sites
        BY Zenon DEF IInv, Types, States, Sites
      <4> QED
        BY <1>5, <2>3, <4>1, Zenon
    <3>2. /\ parent' \in [Slots -> Slots \cup {None}] /\ killed' \in [Slots -> BOOLEAN]
          /\ chan' \in [Slots -> Int]
      BY <1>1, <1>5, <2>3, Zenon DEF IInv, Types
    <3> QED
      BY <1>2, <3>1, <3>2, Zenon DEF IInv, Types
  <2>5. ASSUME NEW q \in Slots PROVE Good(q)'
    <3>1. CASE q = s
      <4>1. state'[s] = "UNUSED"
        BY <2>2, <2>3, Zenon DEF IInv, Types
      <4> QED
        BY <3>1, <4>1 DEF Good, Alive
    <3>2. CASE q # s /\ q = p
      <4>1. at'[p] = "user" /\ killed'[p] = killed[p] /\ sleepticks'[p] = sleepticks[p]
        BY <1>2, <1>5, <2>3, <3>2, Zenon DEF IInv, Types
      <4>2. killed[p] \/ sleepticks[p] = 0
        BY <1>1, Zenon DEF IInv, Good
      <4> QED
        BY <3>2, <4>1, <4>2 DEF Good
    <3>3. CASE q # s /\ q # p
      <4>1. state'[q] = state[q] /\ at'[q] = at[q] /\ killed'[q] = killed[q] /\ chan'[q] = chan[q]
        BY <1>5, <2>3, <3>3, Zenon DEF IInv, Types
      <4> QED
        BY <1>2, <4>1, Kept, Zenon DEF IInv
    <3> QED
      BY <3>1, <3>2, <3>3, Zenon
  <2> QED
    BY <2>4, <2>5, Zenon DEF IInv
<1> QED
  BY <1>3, <1>4, <1>5, Zenon DEF wait, procVars

LEMMA KillStep ==
    ASSUME IInv, NEW p \in Slots, NEW s \in Slots, kill(p, s)
    PROVE  IInv'
<1>1. /\ killed' = [killed EXCEPT ![s] = TRUE]
      /\ state' = [state EXCEPT ![s] = IF @ = "SLEEPING" THEN "RUNNABLE" ELSE @]
      /\ UNCHANGED <<parent, tickets, boostsleft, sleepticks, sleepstart, chan, at, nap, elapsed>>
  BY Zenon DEF kill, sleepVars
<1>2. state' \in [Slots -> States] /\ killed' \in [Slots -> BOOLEAN]
  BY <1>1, Zenon DEF IInv, Types, States
<1>3. Types'
  BY <1>1, <1>2, Zenon DEF IInv, Types
<1>4. Good(s)'
  <2>1. killed'[s] /\ state'[s] # "SLEEPING" /\ (Alive(s)' => Alive(s))
    BY <1>1 DEF IInv, Types, Alive
  <2>2. (\E e \in 0 .. elapsed : nap[s][2] = TickAt(e)) =>
            (\E e \in 0 .. elapsed' : nap'[s][2] = TickAt(e))
    BY <1>1, Zenon
  <2> QED
    BY <1>1, <2>1, <2>2, Zenon DEF IInv, Good, Napping
<1>5. \A q \in Slots \ {s} : state'[q] = state[q] /\ killed'[q] = killed[q]
  BY <1>1, Zenon DEF IInv, Types
<1> QED
  BY <1>1, <1>3, <1>4, <1>5, OneSlot, Zenon

LEMMA InitIInv == Init => IInv
<1> SUFFICES ASSUME Init PROVE IInv
  BY Zenon
<1>1. Types
  <2>1. /\ initproc \in Slots /\ 0 \in 0 .. IntMax /\ 1 \in 0 .. IntMax /\ 0 \in 0 .. MaxBoost
        /\ 0 \in 0 .. TickValues - 1 /\ NoChan \in Int /\ initproc \in Int
        /\ <<0, 0>> \in Nat \X Nat /\ 0 \in 0 .. MaxTicks
    BY Sizes DEF initproc, Slots, NoChan, None
  <2>2. state \in [Slots -> States] /\ at \in [Slots -> Sites]
    BY DEF Init, States, Sites
  <2>3. parent \in [Slots -> Slots \cup {None}] /\ killed \in [Slots -> BOOLEAN]
    BY <2>1, Zenon DEF Init
  <2>4. tickets \in [Slots -> 0 .. IntMax] /\ boostsleft \in [Slots -> 0 .. MaxBoost]
    BY <2>1, Zenon DEF Init
  <2>5. sleepticks \in [Slots -> Naps \cup {0}] /\ sleepstart \in [Slots -> 0 .. TickValues - 1]
    BY <2>1, Zenon DEF Init
  <2>6. chan \in [Slots -> Int] /\ nap \in [Slots -> Nat \X Nat] /\ elapsed \in 0 .. MaxTicks
    BY <2>1, Zenon DEF Init
  <2> QED
    BY <2>2, <2>3, <2>4, <2>5, <2>6, Zenon DEF Types
<1>2. \A s \in Slots : sleepticks[s] = 0 /\ at[s] # "sleep"
  BY DEF Init
<1> QED
  BY <1>1, <1>2, Zenon DEF IInv, Good

LEMMA StepIInv == IInv /\ [Next]_vars => IInv'
<1> SUFFICES ASSUME IInv, [Next]_vars PROVE IInv'
  BY Zenon
<1>1. CASE UNCHANGED vars
  <2>1. /\ UNCHANGED <<state, parent, killed, tickets, boostsleft, elapsed>>
        /\ UNCHANGED <<sleepticks, sleepstart, chan, at, nap>>
    BY <1>1, Zenon DEF vars, procVars, sleepVars
  <2>2. Types'
    BY <2>1, Zenon DEF IInv, Types
  <2> QED
    BY <2>1, <2>2, Kept, Zenon DEF IInv
<1>2. CASE scheduler \/ Tick \/ DiskDone
  BY <1>2, SchedulerStep, TickStep, DiskDoneStep, Zenon
<1>3. ASSUME NEW p \in Slots,
             \/ WakeFromNap(p) \/ DiskSleep(p) \/ DiskReturn(p)
             \/ fork(p) \/ exit(p) \/ wait(p)
             \/ \E n \in Naps : sys_sleep(p, n)
      PROVE  IInv'
  BY <1>3, WakeFromNapStep, DiskStep, ForkStep, ExitStep, WaitStep, SleepStep, Zenon
<1>4. ASSUME NEW p \in Slots, NEW s \in Slots, kill(p, s) PROVE IInv'
  BY <1>4, KillStep, Zenon
<1>5. ASSUME NEW p \in Slots, NEW s \in Slots, NEW n \in Tickets, sys_settickets(p, s, n)
      PROVE  IInv'
  <2>1. /\ tickets' = [tickets EXCEPT ![s] = n]
        /\ UNCHANGED <<state, parent, killed, boostsleft, elapsed>>
        /\ UNCHANGED <<sleepticks, sleepstart, chan, at, nap>>
    BY <1>5, Zenon DEF sys_settickets, sleepVars
  <2>2. n \in 0 .. IntMax
    BY Sizes
  <2>3. Types'
    BY <2>1, <2>2, Zenon DEF IInv, Types
  <2> QED
    BY <2>1, <2>3, Kept, Zenon DEF IInv
<1> QED
  BY <1>1, <1>2, <1>3, <1>4, <1>5, Zenon DEF Next

\* The invariant of sleeping and waking.
THEOREM Invariance == Spec => []IInv
<1> QED
  BY InitIInv, StepIInv, PTL DEF Spec

\* sleep(n) ends in time, also when ticks wraps around while the process sleeps.
THEOREM SleepsOnTime == Spec => []NoOversleep
<1>1. ASSUME IInv PROVE NoOversleep
  BY <1>1 DEF IInv, Good, Napping, Alive, NoOversleep
<1> QED
  BY <1>1, Invariance, PTL

\* Nobody who has not been killed is left asleep by the wakeup for what it waits for.
THEOREM LiveWoken == Spec => WakeupWakesLive
<1>1. ASSUME IInv, DiskDone, NEW s \in Slots, ~killed[s]
      PROVE  ~(state'[s] = "SLEEPING" /\ chan[s] = OnDisk)
  <2> SUFFICES ASSUME chan[s] = OnDisk, state'[s] = "SLEEPING" PROVE FALSE
    BY Zenon
  <2>1. wakeup1(state, {OnDisk}, ticks)
    BY <1>1, Zenon DEF DiskDone
  <2>2. state[s] = "SLEEPING" /\ ~Due(s, ticks)
    <3>1. ~(state[s] = "SLEEPING" /\ chan[s] \in {OnDisk} /\ Due(s, ticks))
      BY <2>1, WakeupFacts, Zenon
    <3> QED
      BY <2>1, <3>1, WakeupFacts, Zenon
  <2>3. OnTicks # OnDisk
    BY Sizes DEF OnTicks, OnDisk
  <2>4. at[s] # "sleep" /\ sleepticks[s] = 0
    BY <1>1, <2>2, <2>3 DEF IInv, Good, Napping, Alive
  <2>5. ticks \in Int /\ sleepstart[s] \in Int
    BY Sizes, <1>1 DEF ticks, IInv, Types
  <2>6. (ticks - sleepstart[s]) % TickValues >= 0
    BY <2>5, Sizes
  <2> QED
    BY <2>2, <2>4, <2>6, Zenon DEF Due
<1>2. IInv => [DiskDone => \A s \in Slots :
                  ~killed[s] => ~(state'[s] = "SLEEPING" /\ chan[s] = OnDisk)]_vars
  BY <1>1, Zenon
<1> QED
  BY <1>2, Invariance, PTL DEF WakeupWakesLive

-----------------------------------------------------------------------------
\* The tickets of the processes in the slots up to s, and how many they are.
HeldTo(s) == {d \in TicketsHeld : d[1] <= s}
Upto(s) == Cardinality(HeldTo(s))

\* An int that has not overflown.
LEMMA NoWrap ==
    ASSUME NEW x \in -IntMax .. IntMax
    PROVE  Wrap(x) = x
<1>1. x + IntMax + 1 \in 0 .. 2 * (IntMax + 1) - 1
  BY Sizes
<1>2. \A m \in Nat : \A y \in 0 .. m - 1 : y % m = y
  OBVIOUS
<1>3. (x + IntMax + 1) % (2 * (IntMax + 1)) = x + IntMax + 1
  BY <1>1, <1>2, Sizes
<1> QED
  BY <1>3, Sizes DEF Wrap

LEMMA EntitledFacts ==
    ASSUME Types, NEW s \in Slots
    PROVE  Entitled(s) \in 0 .. 2 * IntMax /\ (tickets[s] > 0 => Entitled(s) > 0)
<1>1. tickets[s] \in 0 .. IntMax
  BY Zenon DEF Types
<1> QED
  BY <1>1, Sizes DEF Entitled

LEMMA HeldFacts ==
    ASSUME NEW d \in TicketsHeld
    PROVE  /\ d[1] \in Runnable /\ d[1] \in Slots
           /\ d = <<d[1], d[2]>> /\ d[2] \in 1 .. Entitled(d[1])
<1>1. PICK s \in Runnable : d \in {s} \X (1 .. Entitled(s))
  BY Zenon DEF TicketsHeld
<1>2. d = <<d[1], d[2]>> /\ d[1] = s /\ d[2] \in 1 .. Entitled(s)
  BY <1>1
<1> QED
  BY <1>2, Zenon DEF Runnable

LEMMA HeldFinite ==
    ASSUME Types
    PROVE  IsFiniteSet(TicketsHeld)
<1>1. IsFiniteSet(Slots) /\ IsFiniteSet(1 .. 2 * IntMax)
  BY FS_Interval, Sizes DEF Slots
<1>2. IsFiniteSet(Slots \X (1 .. 2 * IntMax))
  BY <1>1, FS_Product, Zenon
<1>3. TicketsHeld \subseteq Slots \X (1 .. 2 * IntMax)
  <2> SUFFICES ASSUME NEW d \in TicketsHeld PROVE d \in Slots \X (1 .. 2 * IntMax)
    BY Zenon
  <2>1. d = <<d[1], d[2]>> /\ d[1] \in Slots /\ d[2] \in 1 .. Entitled(d[1])
    BY HeldFacts, Zenon
  <2>2. Entitled(d[1]) \in 0 .. 2 * IntMax
    BY <2>1, EntitledFacts, Zenon
  <2> QED
    BY <2>1, <2>2, Sizes
<1> QED
  BY <1>2, <1>3, FS_Subset, Zenon

\* The tickets of one process.
LEMMA OwnTickets ==
    ASSUME Types, NEW s \in Slots
    PROVE  IsFiniteSet({s} \X (1 .. Entitled(s))) /\ Cardinality({s} \X (1 .. Entitled(s))) = Entitled(s)
<1>1. Entitled(s) \in Nat
  BY EntitledFacts, Sizes
<1>2. IsFiniteSet(1 .. Entitled(s)) /\ Cardinality(1 .. Entitled(s)) = Entitled(s)
  BY <1>1, FS_Interval
<1>3. IsFiniteSet({s}) /\ Cardinality({s}) = 1
  BY FS_Singleton, Zenon
<1>4. IsFiniteSet({s} \X (1 .. Entitled(s)))
      /\ Cardinality({s} \X (1 .. Entitled(s))) = 1 * Entitled(s)
  BY <1>2, <1>3, FS_Product, ZenonT(60)
<1> QED
  BY <1>1, <1>4

\* Counting the tickets slot by slot.
LEMMA CountUp ==
    ASSUME Types
    PROVE  /\ \A s \in Int : IsFiniteSet(HeldTo(s)) /\ Upto(s) \in Nat
           /\ \A r, s \in Int : r <= s => Upto(r) <= Upto(s)
           /\ Upto(-1) = 0
           /\ Upto(NPROC - 1) = Cardinality(TicketsHeld)
           /\ \A s \in Slots : Upto(s) = Upto(s - 1) + (IF s \in Runnable THEN Entitled(s) ELSE 0)
<1>0. \A s \in Int : HeldTo(s) \in SUBSET TicketsHeld
  BY Zenon DEF HeldTo
<1>1. \A s \in Int : IsFiniteSet(HeldTo(s)) /\ Upto(s) \in Nat
  BY <1>0, HeldFinite, FS_Subset, FS_CardinalityType, Zenon DEF Upto
<1>h. \A d \in TicketsHeld : d[1] \in Slots /\ d[1] \in Int /\ d[1] >= 0 /\ d[1] <= NPROC - 1
  <2>1. \A d \in TicketsHeld : d[1] \in Slots
    BY HeldFacts, Zenon
  <2> QED
    BY <2>1, Sizes DEF Slots
<1>2. \A r, s \in Int : r <= s => Upto(r) <= Upto(s)
  <2> SUFFICES ASSUME NEW r \in Int, NEW s \in Int, r <= s PROVE Upto(r) <= Upto(s)
    BY Zenon
  <2>1. \A d \in TicketsHeld : d[1] <= r => d[1] <= s
    BY <1>h
  <2>2. HeldTo(r) \in SUBSET HeldTo(s)
    BY <2>1, Zenon DEF HeldTo
  <2> QED
    BY <1>1, <2>2, FS_Subset, Zenon DEF Upto
<1>3. Upto(-1) = 0
  <2>1. \A d \in TicketsHeld : ~(d[1] <= -1)
    BY <1>h
  <2>2. HeldTo(-1) = {}
    BY <2>1, Zenon DEF HeldTo
  <2> QED
    BY <2>2, FS_EmptySet, Zenon DEF Upto
<1>4. Upto(NPROC - 1) = Cardinality(TicketsHeld)
  <2>1. HeldTo(NPROC - 1) = TicketsHeld
    BY <1>h, Zenon DEF HeldTo
  <2> QED
    BY <2>1, Zenon DEF Upto
<1>5. ASSUME NEW s \in Slots
      PROVE  Upto(s) = Upto(s - 1) + (IF s \in Runnable THEN Entitled(s) ELSE 0)
  <2>0. s \in Int /\ s - 1 \in Int
    BY DEF Slots
  <2> DEFINE own == {s} \X (1 .. Entitled(s))
  <2>1. \A d \in TicketsHeld : d[1] <= s <=> (d[1] <= s - 1 \/ d[1] = s)
    BY <1>h, <2>0
  <2>2. CASE s \notin Runnable
    <3>1. \A d \in TicketsHeld : d[1] # s
      BY <2>2, HeldFacts, Zenon
    <3>2. HeldTo(s) = HeldTo(s - 1)
      BY <2>1, <3>1, Zenon DEF HeldTo
    <3>3. Upto(s) = Upto(s - 1) + 0
      BY <1>1, <2>0, <3>2 DEF Upto
    <3> QED
      BY <2>2, <3>3, Zenon
  <2>3. CASE s \in Runnable
    <3>1. own = {d \in TicketsHeld : d[1] = s}
      <4>1. own \subseteq TicketsHeld
        BY <2>3, Zenon DEF TicketsHeld
      <4>2. \A d \in own : d[1] = s
        BY Zenon
      <4>3. ASSUME NEW d \in TicketsHeld, d[1] = s PROVE d \in own
        <5>1. d = <<d[1], d[2]>> /\ d[2] \in 1 .. Entitled(d[1])
          BY HeldFacts, Zenon
        <5> QED
          BY <4>3, <5>1
      <4> QED
        BY <4>1, <4>2, <4>3, Zenon
    <3> HIDE DEF own
    <3>2. HeldTo(s) = HeldTo(s - 1) \cup own
      BY <2>1, <3>1, Zenon DEF HeldTo
    <3>3. HeldTo(s - 1) \cap own = {}
      <4>1. ~(s <= s - 1)
        BY <2>0
      <4> QED
        BY <3>1, <4>1, Zenon DEF HeldTo
    <3>4. IsFiniteSet(own) /\ Cardinality(own) = Entitled(s) /\ Entitled(s) \in Nat
      BY OwnTickets, EntitledFacts, Sizes DEF own
    <3>5. Upto(s) = Upto(s - 1) + Entitled(s) - 0
      <4>1. IsFiniteSet(HeldTo(s - 1))
        BY <1>1, <2>0, Zenon
      <4>2. Cardinality(HeldTo(s - 1) \cup own) =
                Cardinality(HeldTo(s - 1)) + Cardinality(own) - Cardinality(HeldTo(s - 1) \cap own)
        BY <3>4, <4>1, FS_Union, Zenon
      <4> QED
        BY <3>2, <3>3, <3>4, <4>2, FS_EmptySet, Zenon DEF Upto
    <3>6. Upto(s - 1) \in Nat
      BY <1>1, <2>0, Zenon
    <3> QED
      BY <2>3, <3>4, <3>5, <3>6
  <2> QED
    BY <2>2, <2>3, Zenon
<1> QED
  BY <1>1, <1>2, <1>3, <1>4, <1>5, Zenon

\* As long as the tickets are an int, nothing overflows and Share is what they entitle to.
LEMMA ShareFacts ==
    ASSUME Types, Cardinality(TicketsHeld) <= IntMax, NEW s \in Slots
    PROVE  /\ Upto(s) \in 0 .. IntMax /\ Upto(s - 1) \in 0 .. IntMax
           /\ Share(s) = Upto(s) - Upto(s - 1)
<1>1. s \in Int /\ s - 1 \in Int /\ s <= NPROC - 1 /\ s - 1 <= NPROC - 1 /\ NPROC - 1 \in Int
  BY Sizes DEF Slots
<1>2. Upto(s) \in Nat /\ Upto(s - 1) \in Nat /\ Upto(s) <= Cardinality(TicketsHeld)
      /\ Upto(s - 1) <= Cardinality(TicketsHeld) /\ Cardinality(TicketsHeld) \in Nat
  BY <1>1, CountUp, Zenon
<1>3. Upto(s) \in 0 .. IntMax /\ Upto(s - 1) \in 0 .. IntMax
  BY <1>2, Sizes
<1>4. Upto(s) = Upto(s - 1) + (IF s \in Runnable THEN Entitled(s) ELSE 0)
  BY CountUp, Zenon
<1>5. CASE s \in Runnable
  <2>1. Entitled(s) = Upto(s) - Upto(s - 1) /\ Entitled(s) \in -IntMax .. IntMax
    BY <1>3, <1>4, <1>5, EntitledFacts, Sizes
  <2>2. Share(s) = Entitled(s)
    BY <1>5, <2>1, NoWrap, Zenon DEF Share, Entitled
  <2> QED
    BY <1>3, <2>1, <2>2, Zenon
<1>6. CASE s \notin Runnable
  <2>1. Share(s) = 0 /\ Upto(s) = Upto(s - 1) + 0
    BY <1>4, <1>6, Zenon DEF Share
  <2>2. Upto(s) - Upto(s - 1) = 0
    BY <1>2, <2>1
  <2> QED
    BY <1>3, <2>1, <2>2, Zenon
<1> QED
  BY <1>3, <1>5, <1>6, Zenon

\* A function on the slots is known when its first value is, and each from the one before.
LEMMA SlotBySlot ==
    ASSUME NEW f, NEW g, f[0] = g[0],
           \A s \in Slots \ {0} : f[s - 1] = g[s - 1] => f[s] = g[s]
    PROVE  \A s \in Slots : f[s] = g[s]
<1> DEFINE T == {s \in Slots : f[s] # g[s]}
<1> SUFFICES ASSUME T # {} PROVE FALSE
  BY Zenon
<1>1. T \in SUBSET Nat
  BY DEF Slots
<1>2. PICK x \in T : \A y \in T : x <= y
  BY <1>1, LeastExists, Zenon
<1>3. x \in Slots \ {0} /\ f[x] # g[x]
  BY <1>2, Zenon
<1>4. x - 1 \in Slots /\ ~(x <= x - 1)
  BY <1>3, Sizes DEF Slots
<1>5. f[x - 1] = g[x - 1]
  BY <1>2, <1>4, Zenon
<1> QED
  BY <1>3, <1>5, Zenon

\* scheduler's sum is the number of tickets.
LEMMA TotalFacts ==
    ASSUME Types, Cardinality(TicketsHeld) <= IntMax
    PROVE  total_tickets = Upto(NPROC - 1)
<1> DEFINE h == [s \in Slots |-> Upto(s)]
<1>0. 0 \in Slots /\ NPROC - 1 \in Slots /\ \A s \in Slots \ {0} : s - 1 \in Slots
  BY Sizes DEF Slots
<1>1. \A s \in Slots : Wrap((IF s = 0 THEN 0 ELSE Upto(s - 1)) + Share(s)) = Upto(s)
  <2> SUFFICES ASSUME NEW s \in Slots
               PROVE  Wrap((IF s = 0 THEN 0 ELSE Upto(s - 1)) + Share(s)) = Upto(s)
    BY Zenon
  <2>1. s = 0 => Upto(s - 1) = 0
    BY CountUp
  <2>2. (IF s = 0 THEN 0 ELSE Upto(s - 1)) + Share(s) = Upto(s)
    BY <2>1, ShareFacts, Sizes
  <2>3. Upto(s) \in -IntMax .. IntMax
    BY ShareFacts, Sizes
  <2> QED
    BY <2>2, <2>3, NoWrap, Zenon
<1>2. h = [s \in Slots |-> Wrap((IF s = 0 THEN 0 ELSE h[s - 1]) + Share(s))]
  BY <1>0, <1>1, Zenon
<1>3. PICK f : /\ f = [s \in Slots |-> Wrap((IF s = 0 THEN 0 ELSE f[s - 1]) + Share(s))]
               /\ total_tickets = f[NPROC - 1]
  BY <1>2, Zenon DEF total_tickets
<1>4. f[0] = h[0]
  BY <1>0, <1>1, <1>3, Zenon
<1>5. ASSUME NEW s \in Slots \ {0}, f[s - 1] = h[s - 1] PROVE f[s] = h[s]
  BY <1>0, <1>1, <1>3, <1>5, Zenon
<1>6. \A s \in Slots : f[s] = h[s]
  BY <1>4, <1>5, SlotBySlot, Zenon
<1> QED
  BY <1>0, <1>3, <1>6, Zenon

\* hold_lottery's walk: the first slot up to which there are more than t tickets.
LEMMA DrawFacts ==
    ASSUME Types, Cardinality(TicketsHeld) <= IntMax, NEW t \in 0 .. Upto(NPROC - 1) - 1
    PROVE  /\ Winner(t) \in Runnable
           /\ Upto(Winner(t) - 1) <= t /\ t < Upto(Winner(t))
<1> DEFINE h == [s \in Slots |-> t - Upto(s)]
<1>0. 0 \in Slots /\ NPROC - 1 \in Slots /\ \A s \in Slots \ {0} : s - 1 \in Slots
  BY Sizes DEF Slots
<1>t. t \in 0 .. IntMax
  BY <1>0, ShareFacts, Sizes
<1>1. \A s \in Slots : Wrap((IF s = 0 THEN t ELSE t - Upto(s - 1)) - Share(s)) = t - Upto(s)
  <2> SUFFICES ASSUME NEW s \in Slots
               PROVE  Wrap((IF s = 0 THEN t ELSE t - Upto(s - 1)) - Share(s)) = t - Upto(s)
    BY Zenon
  <2>1. s = 0 => Upto(s - 1) = 0
    BY CountUp
  <2>2. (IF s = 0 THEN t ELSE t - Upto(s - 1)) - Share(s) = t - Upto(s)
    BY <1>t, <2>1, ShareFacts, Sizes
  <2>3. t - Upto(s) \in -IntMax .. IntMax
    BY <1>t, ShareFacts, Sizes
  <2> QED
    BY <2>2, <2>3, NoWrap, Zenon
<1>2. h = [s \in Slots |-> Wrap((IF s = 0 THEN t ELSE h[s - 1]) - Share(s))]
  BY <1>0, <1>1, Zenon
<1>3. PICK f : /\ f = [s \in Slots |-> Wrap((IF s = 0 THEN t ELSE f[s - 1]) - Share(s))]
               /\ Winner(t) = IF {s \in Runnable : f[s] < 0} = {} THEN None
                              ELSE Min({s \in Runnable : f[s] < 0})
  BY <1>2, Zenon DEF Winner
<1>4. f[0] = h[0]
  BY <1>0, <1>1, <1>3, Zenon
<1>5. ASSUME NEW s \in Slots \ {0}, f[s - 1] = h[s - 1] PROVE f[s] = h[s]
  BY <1>0, <1>1, <1>3, <1>5, Zenon
<1>6. \A s \in Slots : f[s] = t - Upto(s)
  <2>1. \A s \in Slots : f[s] = h[s]
    <3> HIDE DEF h
    <3> QED
      BY <1>4, <1>5, SlotBySlot, Zenon
  <2> QED
    BY <2>1, Zenon
<1> DEFINE past == {s \in Runnable : t < Upto(s)}
<1>7. Winner(t) = IF past = {} THEN None ELSE Min(past)
  <2>1. \A s \in Slots : f[s] < 0 <=> t < Upto(s)
    BY <1>t, <1>6, ShareFacts
  <2>2. {s \in Runnable : f[s] < 0} = past
    BY <2>1, Zenon DEF Runnable
  <2> QED
    BY <1>3, <2>2, Zenon
<1> HIDE DEF h
<1>8. PICK x \in Slots : t < Upto(x) /\ \A y \in Slots : t < Upto(y) => x <= y
  <2> DEFINE T == {s \in Slots : t < Upto(s)}
  <2>1. NPROC - 1 \in T
    BY <1>0, <1>t, ShareFacts
  <2>2. T \in SUBSET Nat
    BY DEF Slots
  <2>3. \E x \in T : \A y \in T : x <= y
    BY <2>1, <2>2, LeastExists, Zenon
  <2> QED
    BY <2>3, Zenon
<1>9. Upto(x - 1) <= t
  <2>1. CASE x = 0
    BY <1>t, <2>1, CountUp
  <2>2. CASE x # 0
    <3>1. x - 1 \in Slots /\ ~(x <= x - 1)
      BY <1>0, <2>2 DEF Slots
    <3>2. ~(t < Upto(x - 1))
      BY <1>8, <3>1, Zenon
    <3> QED
      BY <1>t, <3>2, ShareFacts
  <2> QED
    BY <2>1, <2>2, Zenon
<1>10. x \in Runnable
  <2> SUFFICES ASSUME x \notin Runnable PROVE FALSE
    BY Zenon
  <2>1. Upto(x) = Upto(x - 1) + 0
    BY CountUp, Zenon
  <2> QED
    BY <1>t, <1>8, <1>9, <2>1, ShareFacts
<1>11. Winner(t) = x
  <2>1. x \in past /\ \A y \in past : x <= y
    BY <1>8, <1>10, Zenon DEF Runnable
  <2>2. past \in SUBSET Slots /\ past # {}
    BY <2>1, Zenon DEF Runnable
  <2>3. Winner(t) \in past /\ \A y \in past : Winner(t) <= y
    BY <1>7, <2>2, First, Zenon
  <2>4. Winner(t) \in Slots /\ Winner(t) <= x /\ x <= Winner(t)
    BY <2>1, <2>2, <2>3, Zenon
  <2> HIDE DEF past
  <2> QED
    BY <2>4 DEF Slots
<1> QED
  BY <1>8, <1>9, <1>10, <1>11, Zenon

\* Each process wins with exactly the tickets between those before it and its own last.
LEMMA OwnsItsShare ==
    ASSUME Types, Cardinality(TicketsHeld) <= IntMax, NEW s \in Runnable
    PROVE  Cardinality({t \in 0 .. Upto(NPROC - 1) - 1 : Winner(t) = s}) = Entitled(s)
<1>1. s \in Slots /\ NPROC - 1 \in Slots
  BY Sizes DEF Runnable, Slots
<1>2. /\ Upto(s) \in Nat /\ Upto(s - 1) \in Nat /\ Upto(NPROC - 1) \in Nat
      /\ Upto(s) <= Upto(NPROC - 1) /\ Upto(s) = Upto(s - 1) + Entitled(s) /\ Entitled(s) \in Nat
  <2>1. s \in Int /\ s - 1 \in Int /\ NPROC - 1 \in Int /\ s <= NPROC - 1
    BY <1>1, Sizes DEF Slots
  <2>2. Entitled(s) \in Nat
    BY <1>1, EntitledFacts, Sizes
  <2> QED
    BY <1>1, <2>1, <2>2, CountUp, Zenon
<1>3. ASSUME NEW t \in Upto(s - 1) .. Upto(s) - 1
      PROVE  t \in 0 .. Upto(NPROC - 1) - 1 /\ Winner(t) = s
  <2>1. t \in 0 .. Upto(NPROC - 1) - 1 /\ Upto(s - 1) <= t /\ t < Upto(s) /\ t \in Int
    BY <1>2
  <2>2. PICK w \in Runnable : w = Winner(t) /\ Upto(w - 1) <= t /\ t < Upto(w)
    BY <2>1, DrawFacts, Zenon
  <2>3. w \in Slots /\ w \in Int /\ w - 1 \in Int /\ s \in Int /\ s - 1 \in Int
    BY <1>1 DEF Runnable, Slots
  <2>4. Upto(w) \in Nat /\ Upto(w - 1) \in Nat
    BY <2>3, CountUp, Zenon
  <2>5. ~(w <= s - 1)
    <3>1. w <= s - 1 => Upto(w) <= Upto(s - 1)
      BY <2>3, CountUp, Zenon
    <3> QED
      BY <1>2, <2>1, <2>2, <2>4, <3>1
  <2>6. ~(s <= w - 1)
    <3>1. s <= w - 1 => Upto(s) <= Upto(w - 1)
      BY <2>3, CountUp, Zenon
    <3> QED
      BY <1>2, <2>1, <2>2, <2>4, <3>1
  <2> QED
    BY <2>1, <2>2, <2>3, <2>5, <2>6
<1>4. ASSUME NEW t \in 0 .. Upto(NPROC - 1) - 1, Winner(t) = s
      PROVE  t \in Upto(s - 1) .. Upto(s) - 1
  <2>1. Upto(s - 1) <= t /\ t < Upto(s)
    BY <1>4, DrawFacts, Zenon
  <2> QED
    BY <1>2, <2>1
<1>5. {t \in 0 .. Upto(NPROC - 1) - 1 : Winner(t) = s} = Upto(s - 1) .. Upto(s) - 1
  BY <1>3, <1>4, Zenon
<1>6. Cardinality(Upto(s - 1) .. Upto(s) - 1) = Entitled(s)
  <2>1. PICK a \in Int, b \in Int : a = Upto(s - 1) /\ b = Upto(s) - 1
    BY <1>2
  <2>2. Cardinality(a .. b) = IF a > b THEN 0 ELSE b - a + 1
    BY FS_Interval, Zenon
  <2>3. Cardinality(a .. b) = Entitled(s)
    BY <1>2, <2>1, <2>2
  <2> QED
    BY <2>1, <2>3, Zenon
<1> QED
  BY <1>5, <1>6, Zenon

-----------------------------------------------------------------------------
\* One CPU, and everybody in the table has a ticket.
TableInv ==
    /\ \A s, r \in Slots : state[s] = "RUNNING" /\ state[r] = "RUNNING" => s = r
    /\ \A s \in Slots : state[s] # "UNUSED" => tickets[s] >= 1

LEMMA InitTable == Init => TableInv
BY DEF Init, TableInv, initproc

\* A step that starts nobody and gives no slot away.
LEMMA TableKept ==
    ASSUME TableInv, tickets' = tickets,
           \A s \in Slots : /\ state'[s] = "RUNNING" => state[s] = "RUNNING"
                            /\ state'[s] # "UNUSED" => state[s] # "UNUSED"
    PROVE  TableInv'
BY Zenon DEF TableInv

LEMMA WakeupTable ==
    ASSUME TableInv, NEW st, NEW chans, NEW now, wakeup1(st, chans, now), tickets' = tickets,
           \A s \in Slots : /\ st[s] = "RUNNING" => state[s] = "RUNNING"
                            /\ st[s] # "UNUSED" => state[s] # "UNUSED"
    PROVE  TableInv'
<1>1. ASSUME NEW s \in Slots
      PROVE  state'[s] = st[s] \/ (st[s] = "SLEEPING" /\ state'[s] = "RUNNABLE")
  BY WakeupFacts, Zenon
<1>2. \A s \in Slots : /\ state'[s] = "RUNNING" => state[s] = "RUNNING"
                       /\ state'[s] # "UNUSED" => state[s] # "UNUSED"
  BY <1>1
<1> QED
  BY <1>2, TableKept, Zenon

LEMMA StepTable == IInv /\ TableInv /\ [Next]_vars => TableInv'
<1> SUFFICES ASSUME IInv, TableInv, [Next]_vars PROVE TableInv'
  BY Zenon
<1>0. state \in [Slots -> States] /\ tickets \in [Slots -> 0 .. IntMax]
  BY Zenon DEF IInv, Types
<1>1. CASE UNCHANGED vars
  <2>1. state' = state /\ tickets' = tickets
    BY <1>1, Zenon DEF vars, procVars
  <2> QED
    BY <2>1, TableKept, Zenon
<1>2. CASE scheduler
  <2>1. PICK t : state' = [state EXCEPT ![Winner(t)] = "RUNNING"]
    BY <1>2, Zenon DEF scheduler
  <2>2. tickets' = tickets /\ \A s \in Slots : state[s] # "RUNNING"
    BY <1>2, Zenon DEF scheduler
  <2>3. PICK w : w = Winner(t)
    BY Zenon
  <2>4. \A s \in Slots : state'[s] = IF s = w THEN "RUNNING" ELSE state[s]
    BY <1>0, <2>1, <2>3, Zenon
  <2>5. w \in Slots => state[w] # "UNUSED"
    <3>1. None \notin Slots
      BY DEF None, Slots
    <3> QED
      BY <2>3, <3>1, WinnerFacts DEF Runnable
  <2> QED
    BY <2>2, <2>4, <2>5, Zenon DEF TableInv
<1>3. CASE Tick
  <2> DEFINE st == [s \in Slots |-> IF state[s] = "RUNNING" THEN "RUNNABLE" ELSE state[s]]
  <2>1. wakeup1(st, {OnTicks}, (ticks + 1) % TickValues) /\ tickets' = tickets
    BY <1>3, Zenon DEF Tick
  <2>2. \A s \in Slots : /\ st[s] = "RUNNING" => state[s] = "RUNNING"
                         /\ st[s] # "UNUSED" => state[s] # "UNUSED"
    OBVIOUS
  <2> HIDE DEF st
  <2> QED
    BY <2>1, <2>2, WakeupTable, Zenon
<1>4. CASE DiskDone
  BY <1>4, WakeupTable, Zenon DEF DiskDone
<1>5. ASSUME NEW p \in Slots, exit(p) PROVE TableInv'
  <2> DEFINE st == [state EXCEPT ![p] = "ZOMBIE"]
  <2>1. PICK chans : wakeup1(st, chans, ticks)
    BY <1>5, Zenon DEF exit
  <2>2. tickets' = tickets /\ state[p] = "RUNNING"
    BY <1>5, Zenon DEF exit, AtUser
  <2>3. \A s \in Slots : /\ st[s] = "RUNNING" => state[s] = "RUNNING"
                         /\ st[s] # "UNUSED" => state[s] # "UNUSED"
    BY <1>0, <2>2
  <2> HIDE DEF st
  <2> QED
    BY <2>1, <2>2, <2>3, WakeupTable, Zenon
<1>6. ASSUME NEW p \in Slots,
             \/ WakeFromNap(p) \/ DiskSleep(p) \/ DiskReturn(p) \/ wait(p)
             \/ (\E n \in Naps : sys_sleep(p, n))
      PROVE  TableInv'
  <2>1. tickets' = tickets /\ state[p] = "RUNNING"
    BY <1>6, Zenon DEF WakeFromNap, DiskSleep, DiskReturn, wait, sys_sleep, Calls, AtUser, procVars
  <2>2. \/ state' = state \/ state' = [state EXCEPT ![p] = "SLEEPING"]
        \/ \E s : state' = [state EXCEPT ![s] = "UNUSED"]
    BY <1>6, Zenon DEF WakeFromNap, DiskSleep, DiskReturn, wait, sys_sleep, SleepOn, procVars
  <2>3. \A s \in Slots : /\ state'[s] = "RUNNING" => state[s] = "RUNNING"
                         /\ state'[s] # "UNUSED" => state[s] # "UNUSED"
    BY <1>0, <2>1, <2>2
  <2> QED
    BY <2>1, <2>3, TableKept, Zenon
<1>7. ASSUME NEW p \in Slots, fork(p) PROVE TableInv'
  <2>1. PICK np : /\ state' = [state EXCEPT ![np] = "RUNNABLE"]
                  /\ tickets' = [tickets EXCEPT ![np] = tickets[p]]
    BY <1>7, Zenon DEF fork
  <2>2. tickets[p] >= 1
    <3>1. state[p] = "RUNNING"
      BY <1>7, Zenon DEF fork, Calls, AtUser
    <3> QED
      BY <3>1 DEF TableInv
  <2>3. \A s \in Slots : /\ state'[s] = "RUNNING" => state[s] = "RUNNING"
                         /\ state'[s] # "UNUSED" => tickets'[s] >= 1
    <3> SUFFICES ASSUME NEW s \in Slots
                 PROVE  /\ state'[s] = "RUNNING" => state[s] = "RUNNING"
                        /\ state'[s] # "UNUSED" => tickets'[s] >= 1
      BY Zenon
    <3>1. CASE s = np
      <4>1. state'[s] = "RUNNABLE" /\ tickets'[s] = tickets[p]
        BY <1>0, <2>1, <3>1, Zenon
      <4> QED
        BY <2>2, <4>1
    <3>2. CASE s # np
      <4>1. state'[s] = state[s] /\ tickets'[s] = tickets[s]
        BY <1>0, <2>1, <3>2, Zenon
      <4> QED
        BY <4>1, Zenon DEF TableInv
    <3> QED
      BY <3>1, <3>2, Zenon
  <2> QED
    BY <2>3, Zenon DEF TableInv
<1>8. ASSUME NEW p \in Slots, NEW s \in Slots, kill(p, s) PROVE TableInv'
  <2>1. state' = [state EXCEPT ![s] = IF @ = "SLEEPING" THEN "RUNNABLE" ELSE @] /\ tickets' = tickets
    BY <1>8, Zenon DEF kill
  <2>2. \A r \in Slots : /\ state'[r] = "RUNNING" => state[r] = "RUNNING"
                         /\ state'[r] # "UNUSED" => state[r] # "UNUSED"
    BY <1>0, <2>1
  <2> QED
    BY <2>1, <2>2, TableKept, Zenon
<1>9. ASSUME NEW p \in Slots, NEW s \in Slots, NEW n \in Tickets, sys_settickets(p, s, n)
      PROVE  TableInv'
  <2>1. state' = state /\ tickets' = [tickets EXCEPT ![s] = n] /\ n >= 1
    <3>1. n >= 1
      BY Sizes
    <3> QED
      BY <1>9, <3>1, Zenon DEF sys_settickets
  <2> QED
    BY <1>0, <2>1, Zenon DEF TableInv
<1> QED
  BY <1>1, <1>2, <1>3, <1>4, <1>5, <1>6, <1>7, <1>8, <1>9, Zenon DEF Next

\* Each RUNNABLE process owns exactly its share of the numbers that can be drawn, every
\* number has an owner, and somebody wins, for any table and any width of an int.
THEOREM FairDraw == Spec => []DrawIsFair
<1>1. ASSUME IInv, TableInv PROVE TypeOK
  <2> DEFINE R == {s \in Slots : state[s] = "RUNNING"}
  <2>1. Cardinality(R) <= 1
    <3>1. CASE R = {}
      BY <3>1, FS_EmptySet
    <3>2. CASE R # {}
      <4>1. PICK s : R = {s}
        BY <1>1, <3>2, Zenon DEF TableInv
      <4> HIDE DEF R
      <4> QED
        BY <4>1, FS_Singleton
    <3> QED
      BY <3>1, <3>2, Zenon
  <2> QED
    BY <1>1, <2>1, Zenon DEF TypeOK, IInv, Types, States, Sites
<1>2. ASSUME IInv, TableInv, Cardinality(TicketsHeld) <= IntMax, Runnable # {}
      PROVE  total_tickets > 0
  <2>0. Types
    BY <1>2, Zenon DEF IInv
  <2>1. PICK s \in Runnable : TRUE
    BY <1>2, Zenon
  <2>2. s \in Slots /\ tickets[s] >= 1 /\ tickets[s] \in Nat
    BY <1>2, <2>0, <2>1, Sizes DEF Runnable, TableInv, Types
  <2>3. Entitled(s) \in Nat /\ Entitled(s) > 0
    BY <2>0, <2>2, EntitledFacts, Sizes
  <2>4. Upto(s) = Upto(s - 1) + Entitled(s) /\ Upto(s) <= Upto(NPROC - 1)
        /\ Upto(s - 1) \in Nat /\ Upto(s) \in Nat /\ Upto(NPROC - 1) \in Nat
    <3>1. s \in Int /\ s - 1 \in Int /\ NPROC - 1 \in Int /\ s <= NPROC - 1
      BY <2>2, Sizes DEF Slots
    <3> QED
      BY <2>0, <2>1, <2>2, <3>1, CountUp, Zenon
  <2>5. total_tickets = Upto(NPROC - 1)
    BY <1>2, <2>0, TotalFacts, Zenon
  <2> QED
    BY <2>3, <2>4, <2>5
<1>3. ASSUME IInv, TableInv, Cardinality(TicketsHeld) <= IntMax
      PROVE  /\ \A s \in Runnable :
                   Cardinality({t \in 0 .. total_tickets - 1 : Winner(t) = s}) = Entitled(s)
             /\ \A t \in 0 .. total_tickets - 1 : Winner(t) \in Runnable
  <2>1. Types
    BY <1>3, Zenon DEF IInv
  <2>2. total_tickets = Upto(NPROC - 1)
    BY <1>3, <2>1, TotalFacts, Zenon
  <2> QED
    BY <1>3, <2>1, <2>2, OwnsItsShare, DrawFacts, Zenon
<1>4. IInv /\ TableInv => DrawIsFair
  BY <1>1, <1>2, <1>3, Zenon DEF DrawIsFair
<1> QED
  BY <1>4, InitTable, StepTable, Invariance, PTL DEF Spec
=============================================================================
