------------------------------ MODULE Threads ------------------------------
(***************************************************************************)
(* Kernel threads in the process table of p3b/xv6-public: fork, clone,     *)
(* exit, wait, join, kill, sbrk and exec (proc.c, sysproc.c, exec.c).      *)
(*                                                                         *)
(* A process is the number of its slot in ptable; slot 0 is init.          *)
(* RUNNABLE stands for RUNNABLE and RUNNING.  Work done with ptable.lock   *)
(* held is one step; fork, clone and growproc drop the lock half way or    *)
(* never take it and are two steps.  sleep is always on the process's own  *)
(* proc pointer, so wakeup1(p) concerns p alone.  Memory is counted in     *)
(* pages; pages[d] are the user pages mapped in page directory d.  Pids    *)
(* are left out: kill names the slot of a process other than init.         *)
(***************************************************************************)
EXTENDS Integers

CONSTANTS NPROC,      \* slots of ptable: 64 in the code
          Dirs,       \* the page directories there can be
          MaxPages,   \* bound on the size of a process
          Programs    \* the user programs: how many slots the other processes
                      \* leave them, and what they do besides the disciplined use

\* "abandon": exit or exec while its threads exist; "nested": a thread calls sbrk,
\* fork, clone or exec; "badstack": clone with a stack outside the process; "kill".
Habits == {"abandon", "nested", "badstack", "kill"}

Slots == 0 .. NPROC - 1
initproc == 0
None == -1

\* There are more page directories than slots: exec holds two at a time.
ASSUME ThreadsConstants ==
    /\ NPROC \in Nat /\ NPROC >= 2
    /\ Dirs \subseteq Nat /\ initproc \in Dirs
    /\ \A f \in [Slots -> Dirs] : \E d \in Dirs : \A s \in Slots : f[s] # d
    /\ MaxPages \in Nat \ {0}
    /\ Programs \subseteq [slots : 2 .. NPROC, does : SUBSET Habits]

VARIABLES state, parent, killed,   \* fields of struct proc
          stack,                   \* stack[s]: is p->stack nonzero
          pgdir, sz,
          at,                      \* at[s]: the system call s is in, or "user"
          np,                      \* np[s]: local variable of fork and clone;
                                   \* for init, the shell it waits for
          newsz,                   \* newsz[s]: local variable sz of growproc
          live, pages,             \* page directories in use, and their pages
          program,                 \* the programs of this behaviour; it never changes
          panic                    \* why the kernel has stopped, if it has

procVars == <<state, parent, killed, stack, pgdir, sz>>
callVars == <<at, np, newsz>>
memVars  == <<live, pages>>
vars == <<procVars, callVars, memVars, program, panic>>

\* After userinit: init runs, everything else is free.
Init ==
    /\ state = [s \in Slots |-> IF s = initproc THEN "RUNNABLE" ELSE "UNUSED"]
    /\ parent = [s \in Slots |-> None]
    /\ killed = [s \in Slots |-> FALSE]
    /\ stack = [s \in Slots |-> FALSE]
    /\ pgdir = [s \in Slots |-> IF s = initproc THEN initproc ELSE None]
    /\ sz = [s \in Slots |-> IF s = initproc THEN 1 ELSE 0]
    /\ at = [s \in Slots |-> "user"]
    /\ np = [s \in Slots |-> None]
    /\ newsz = [s \in Slots |-> 0]
    /\ live = {initproc}
    /\ pages = [d \in Dirs |-> IF d = initproc THEN {0} ELSE {}]
    /\ program \in Programs
    /\ panic = "none"

-----------------------------------------------------------------------------
Up == panic = "none"

Children(p) == {s \in Slots : parent[s] = p}

\* Slots that share p's memory as its threads, the ones join looks at.
ThreadsOf(p) == {s \in Children(p) : pgdir[s] = pgdir[p]}

\* p is in user mode and may make a system call; a killed process may not
\* return from the trap handler except to exit.
AtUser(p) == state[p] = "RUNNABLE" /\ at[p] = "user" /\ Up

Calls(p) == AtUser(p) /\ ~killed[p]

\* Each slot uses at most one page directory, so there is another one.
NewDir == CHOOSE d \in Dirs : d \notin live

\* A thread, or a process with threads, does what disciplined programs avoid.
Nested(p)   == stack[p] => "nested" \in program.does
Abandons(p) == ThreadsOf(p) # {} => "abandon" \in program.does

\* allocproc, up to the release of ptable.lock: take the first unused slot.
\* init.c forks a shell, and another one when wait has returned it or -1.
allocproc(p, call) ==
    LET free == {s \in Slots : state[s] = "UNUSED" /\ s < program.slots} IN
    /\ Calls(p) /\ Nested(p)
    /\ p = initproc => call = "fork" /\ np[p] = None
    /\ \E s \in free :
        /\ \A t \in free : s <= t
        /\ state' = [state EXCEPT ![s] = "EMBRYO"]
        /\ stack' = [stack EXCEPT ![s] = FALSE]
        /\ np' = [np EXCEPT ![p] = s]
    /\ at' = [at EXCEPT ![p] = call]
    /\ UNCHANGED <<parent, killed, pgdir, sz, newsz, memVars, panic>>

\* init.c exits when there is no slot or no memory for its fork, and exit
\* panics for init.
InitForkFails ==
    /\ AtUser(initproc) /\ np[initproc] = None
    /\ panic' = "init"
    /\ UNCHANGED <<procVars, callVars, memVars>>

\* kalloc or copyuvm runs out of memory in fork, or kalloc in clone: the slot
\* is given back.
AllocFails(p) ==
    /\ at[p] \in {"fork", "clone"} /\ Up
    /\ p # initproc
    /\ state' = [state EXCEPT ![np[p]] = "UNUSED"]
    /\ at' = [at EXCEPT ![p] = "user"]
    /\ np' = [np EXCEPT ![p] = None]
    /\ \/ UNCHANGED pgdir
       \/ at[p] = "fork" /\ pgdir' = [pgdir EXCEPT ![np[p]] = None]
    /\ UNCHANGED <<parent, killed, stack, sz, newsz, memVars, panic>>

\* The rest of fork: a copy of the parent's memory (copyuvm panics on a page
\* below sz that is not mapped), then RUNNABLE under the lock.
ForkFinish(p) ==
    /\ at[p] = "fork" /\ Up
    /\ IF 0 .. sz[p] - 1 \subseteq pages[pgdir[p]]
       THEN LET d == NewDir IN
            /\ live' = live \cup {d}
            /\ pages' = [pages EXCEPT ![d] = 0 .. sz[p] - 1]
            /\ pgdir' = [pgdir EXCEPT ![np[p]] = d]
            /\ sz' = [sz EXCEPT ![np[p]] = sz[p]]
            /\ parent' = [parent EXCEPT ![np[p]] = p]
            /\ state' = [state EXCEPT ![np[p]] = "RUNNABLE"]
            /\ at' = [at EXCEPT ![p] = "user"]
            /\ np' = [np EXCEPT ![p] = IF p = initproc THEN np[p] ELSE None]
            /\ UNCHANGED <<killed, stack, newsz, panic>>
       ELSE panic' = "memory" /\ UNCHANGED <<procVars, callVars, memVars>>

\* The rest of clone: the parent's memory is shared; then RUNNABLE, and stack
\* set, under the lock.  When copyout to the new stack fails clone returns -1
\* and leaves the slot as it is.
CloneFinish(p) ==
    /\ at[p] = "clone" /\ Up
    /\ pgdir' = [pgdir EXCEPT ![np[p]] = pgdir[p]]
    /\ sz' = [sz EXCEPT ![np[p]] = sz[p]]
    /\ parent' = [parent EXCEPT ![np[p]] = p]
    /\ at' = [at EXCEPT ![p] = "user"]
    /\ np' = [np EXCEPT ![p] = None]
    /\ \/ /\ state' = [state EXCEPT ![np[p]] = "RUNNABLE"]
          /\ stack' = [stack EXCEPT ![np[p]] = TRUE]
       \/ "badstack" \in program.does /\ UNCHANGED <<state, stack>>
    /\ UNCHANGED <<killed, newsz, memVars, panic>>

-----------------------------------------------------------------------------
\* wakeup1 on each of the channels in chans, applied to state st.
wakeup1(st, chans) ==
    [s \in Slots |-> IF s \in chans /\ st[s] = "SLEEPING" THEN "RUNNABLE" ELSE st[s]]

\* MUTANT of exit: init is not told of the zombies it inherits.
exitSilentReparent(p) ==
    /\ AtUser(p) /\ p # initproc
    /\ killed[p] \/ Abandons(p)
    /\ parent' = [s \in Slots |-> IF parent[s] = p THEN initproc ELSE parent[s]]
    /\ state' = [wakeup1(state, {parent[p]}) EXCEPT ![p] = "ZOMBIE"]
    /\ UNCHANGED <<killed, stack, pgdir, sz, callVars, memVars, panic>>

\* MUTANT of exit: the children keep their parent.
exitNoReparent(p) ==
    /\ AtUser(p) /\ p # initproc
    /\ killed[p] \/ Abandons(p)
    /\ state' = [wakeup1(state, {parent[p]}) EXCEPT ![p] = "ZOMBIE"]
    /\ UNCHANGED <<parent, killed, stack, pgdir, sz, callVars, memVars, panic>>

\* exit: wake the parent, pass the children to init (and wake it for the ones
\* that are zombies), become a zombie.
exit(p) ==
    LET inherited == {s \in Children(p) : state[s] = "ZOMBIE"} IN
    /\ AtUser(p) /\ p # initproc
    /\ killed[p] \/ Abandons(p)
    /\ parent' = [s \in Slots |-> IF parent[s] = p THEN initproc ELSE parent[s]]
    /\ state' = [wakeup1(state, {parent[p]} \cup IF inherited = {} THEN {} ELSE {initproc})
                    EXCEPT ![p] = "ZOMBIE"]
    /\ UNCHANGED <<killed, stack, pgdir, sz, callVars, memVars, panic>>

\* p is about to scan the table in wait or join: it calls it, or sleep returns.
Scans(p, call) ==
    /\ Up /\ state[p] = "RUNNABLE"
    /\ at[p] = call \/ (at[p] = "user" /\ ~killed[p])
    /\ p = initproc => np[p] # None

\* The fields wait and join clear in the slot they free.
FreeSlot(s) ==
    /\ state' = [state EXCEPT ![s] = "UNUSED"]
    /\ parent' = [parent EXCEPT ![s] = None]
    /\ killed' = [killed EXCEPT ![s] = FALSE]

\* The end of a scan of wait or join that found nothing to free: return -1
\* when there is nobody to wait for or p was killed, sleep otherwise.
GiveUpOrSleep(p, call, kids) ==
    /\ IF kids = {} \/ killed[p]
       THEN /\ at' = [at EXCEPT ![p] = "user"]
            /\ np' = [np EXCEPT ![p] = None]
            /\ UNCHANGED state
       ELSE /\ at' = [at EXCEPT ![p] = call]
            /\ state' = [state EXCEPT ![p] = "SLEEPING"]
            /\ UNCHANGED np
    /\ UNCHANGED <<parent, killed, stack, pgdir, sz, newsz, memVars, panic>>

\* MUTANT of WaitKids: wait does not skip threads.
WaitKidsAll(p) == Children(p)

\* The children wait looks at: the ones that are not threads.
WaitKids(p) == {s \in Children(p) : ~stack[s]}

\* wait, one scan: free the first zombie, its memory included.
wait(p) ==
    LET zombies == {s \in WaitKids(p) : state[s] = "ZOMBIE"} IN
    /\ Scans(p, "wait")
    /\ IF zombies # {}
       THEN \E s \in zombies :
            /\ \A t \in zombies : s <= t
            /\ FreeSlot(s)
            /\ live' = live \ {pgdir[s]}
            /\ pages' = [pages EXCEPT ![pgdir[s]] = {}]
            /\ at' = [at EXCEPT ![p] = "user"]
            /\ np' = [np EXCEPT ![p] = IF s = np[p] THEN None ELSE np[p]]
            /\ UNCHANGED <<stack, pgdir, sz, newsz, panic>>
       ELSE GiveUpOrSleep(p, "wait", WaitKids(p))

\* join, one scan: free the first zombie thread and leave the shared memory.
join(p) ==
    LET zombies == {s \in ThreadsOf(p) : state[s] = "ZOMBIE"} IN
    /\ Scans(p, "join") /\ p # initproc
    /\ IF zombies # {}
       THEN \E s \in zombies :
            /\ \A t \in zombies : s <= t
            /\ FreeSlot(s)
            /\ at' = [at EXCEPT ![p] = "user"]
            /\ UNCHANGED <<stack, pgdir, sz, np, newsz, memVars, panic>>
       ELSE GiveUpOrSleep(p, "join", ThreadsOf(p))

\* kill, of any process in the table.
kill(p, s) ==
    /\ "kill" \in program.does
    /\ Calls(p) /\ p # initproc
    /\ s # initproc /\ state[s] # "UNUSED"
    /\ killed' = [killed EXCEPT ![s] = TRUE]
    /\ state' = wakeup1(state, {s})
    /\ UNCHANGED <<parent, stack, pgdir, sz, callVars, memVars, panic>>

\* growproc by n pages up to the assignment of curproc->sz: allocuvm (mappages
\* panics on a page that is mapped already) or deallocuvm.
GrowStart(p, n) ==
    LET d == pgdir[p] IN
    /\ Calls(p) /\ p # initproc /\ Nested(p)
    /\ sz[p] + n \in 1 .. MaxPages
    /\ IF n > 0 /\ sz[p] \in pages[d]
       THEN panic' = "memory" /\ UNCHANGED <<procVars, callVars, memVars>>
       ELSE /\ pages' = [pages EXCEPT ![d] =
                            IF n > 0 THEN @ \cup {sz[p]} ELSE @ \ {sz[p] - 1}]
            /\ newsz' = [newsz EXCEPT ![p] = sz[p] + n]
            /\ at' = [at EXCEPT ![p] = "grow"]
            /\ UNCHANGED <<procVars, np, live, panic>>

\* MUTANT of GrowFinish: the threads are not told of the new size.
GrowFinishSelf(p) ==
    /\ at[p] = "grow" /\ Up
    /\ sz' = [sz EXCEPT ![p] = newsz[p]]
    /\ at' = [at EXCEPT ![p] = "user"]
    /\ newsz' = [newsz EXCEPT ![p] = 0]
    /\ UNCHANGED <<state, parent, killed, stack, pgdir, np, memVars, panic>>

\* The rest of growproc: the new size, for p and for its threads.
GrowFinish(p) ==
    /\ at[p] = "grow" /\ Up
    /\ sz' = [s \in Slots |-> IF s = p \/ s \in ThreadsOf(p) THEN newsz[p] ELSE sz[s]]
    /\ at' = [at EXCEPT ![p] = "user"]
    /\ newsz' = [newsz EXCEPT ![p] = 0]
    /\ UNCHANGED <<state, parent, killed, stack, pgdir, np, memVars, panic>>

\* exec: a new address space of one page; the old one is freed.
exec(p) ==
    /\ Calls(p) /\ p # initproc /\ Nested(p) /\ Abandons(p)
    /\ live' = (live \cup {NewDir}) \ {pgdir[p]}
    /\ pages' = [pages EXCEPT ![NewDir] = {0}, ![pgdir[p]] = {}]
    /\ pgdir' = [pgdir EXCEPT ![p] = NewDir]
    /\ sz' = [sz EXCEPT ![p] = 1]
    /\ UNCHANGED <<state, parent, killed, stack, callVars, panic>>

Step ==
    \/ InitForkFails
    \/ \E p \in Slots :
        \/ allocproc(p, "fork") \/ allocproc(p, "clone")
        \/ ForkFinish(p) \/ CloneFinish(p) \/ AllocFails(p)
        \/ exit(p) \/ wait(p) \/ join(p) \/ exec(p)
        \/ GrowStart(p, 1) \/ GrowStart(p, -1) \/ GrowFinish(p)
        \/ \E s \in Slots : kill(p, s)

Next == Step /\ UNCHANGED program

Spec == Init /\ [][Next]_vars

-----------------------------------------------------------------------------
\* Types of the table and of the locals of the system calls.
TypeOK ==
    /\ state \in [Slots -> {"UNUSED", "EMBRYO", "SLEEPING", "RUNNABLE", "ZOMBIE"}]
    /\ parent \in [Slots -> Slots \cup {None}]
    /\ killed \in [Slots -> BOOLEAN]
    /\ stack \in [Slots -> BOOLEAN]
    /\ pgdir \in [Slots -> Dirs \cup {None}]
    /\ sz \in [Slots -> 0 .. MaxPages]
    /\ at \in [Slots -> {"user", "fork", "clone", "wait", "join", "grow"}]
    /\ np \in [Slots -> Slots \cup {None}]
    /\ \A p \in Slots : at[p] \in {"fork", "clone"} => np[p] \in Slots
    /\ newsz \in [Slots -> 0 .. MaxPages]
    /\ live \subseteq Dirs
    /\ pages \in [Dirs -> SUBSET (0 .. MaxPages - 1)]
    /\ panic \in {"none", "memory", "init"}

Alive(s) == state[s] \in {"RUNNABLE", "SLEEPING"}

\* No exit is missed: whoever sleeps in wait has no zombie among the children
\* wait looks at, and whoever sleeps in join none among its threads, although
\* a child may get a new parent while it is exiting.
NoMissedExit ==
    \A p \in Slots :
        state[p] = "SLEEPING" =>
            \A s \in IF at[p] = "wait" THEN WaitKids(p) ELSE ThreadsOf(p) :
                state[s] # "ZOMBIE"

\* The parent of every process in the table is alive, so that somebody can
\* still wait for it; init inherits what an exiting process leaves behind.
ParentsAlive ==
    /\ TypeOK
    /\ \A s \in Slots \ {initproc} :
          state[s] \in {"RUNNABLE", "SLEEPING", "ZOMBIE"} =>
              parent[s] \in Slots /\ Alive(parent[s])

\* The programs do none of the things in H.
Avoid(H) == program.does \cap H = {}

\* As long as threads are joined before their process ends, make no nested calls and
\* nobody is killed: no process runs in an address space that has been freed, and no
\* address space outlives the process it was made for, because each one in use belongs
\* to exactly one process that is not a thread.
MemoryOwned ==
    Avoid({"abandon", "nested", "kill"}) =>
        /\ \A s \in Slots : Alive(s) => pgdir[s] \in live
        /\ \A d \in live :
              \E p \in Slots : {s \in Slots : pgdir[s] = d /\ ~stack[s]
                                   /\ (Alive(s) \/ state[s] = "ZOMBIE")} = {p}

\* Processes that share their memory agree on its size, whenever none of them is in
\* the middle of sbrk: test_12.c "check that address space size is updated in
\* threads".  It takes a thread that is no longer the child of the process that
\* grows, or that grows it itself, to break it.  And the size agrees with the pages
\* that are mapped: neither "remap" (mappages) nor "page not present" (copyuvm) panics,
\* whoever is killed or left behind, unless threads grow their process.
SizesAgree ==
    /\ Avoid({"abandon", "nested", "kill"}) =>
          \A s, t \in Slots :
              Alive(s) /\ Alive(t) /\ pgdir[s] = pgdir[t]
              /\ (\A u \in Slots : pgdir[u] = pgdir[s] => at[u] # "grow")
                  => sz[s] = sz[t]
    /\ Avoid({"nested"}) => panic # "memory"

\* "Return -1 if this process has no children" (proc.c, on wait): whoever sleeps in
\* wait has a child that runs or has run and that is not a thread, which wait would
\* skip when it exits; only the slot that a failed clone leaves behind, which looks
\* like a child that never exits, breaks it.
WaitersHaveChildren ==
    Avoid({"badstack"}) =>
        \A p \in Slots :
            state[p] = "SLEEPING" /\ at[p] = "wait" =>
                \E s \in Children(p) : ~stack[s] /\ (Alive(s) \/ state[s] = "ZOMBIE")
=============================================================================
