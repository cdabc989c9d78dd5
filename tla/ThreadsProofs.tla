---------------------------- MODULE ThreadsProofs ---------------------------
(***************************************************************************)
(* The process table for any number of slots and any size of memory: no    *)
(* exit is missed, no process is left without a living parent, and as long *)
(* as programs use threads as they should, memory has one owner and the    *)
(* processes that share it agree on its size.                              *)
(***************************************************************************)
EXTENDS Threads, TLAPS

InTable(s) == state[s] \in {"RUNNABLE", "SLEEPING", "ZOMBIE"}

\* The two calls that hold a slot half made.
Making(p) == at[p] \in {"fork", "clone"}

\* Who is in a system call, and whose child a slot may be.
TableInv ==
    \A s \in Slots :
        /\ state[s] \in {"UNUSED", "EMBRYO", "ZOMBIE"} => at[s] = "user"
        /\ state[s] = "SLEEPING" => at[s] \in {"wait", "join"}
        /\ state[s] = "UNUSED" => parent[s] = None
        /\ parent[s] \in Slots => parent[s] # s /\ Alive(parent[s])
        /\ s # initproc /\ InTable(s) => parent[s] \in Slots

\* Init is always there to inherit.
InitInv ==
    /\ Alive(initproc) /\ parent[initproc] = None
    /\ ~killed[initproc] /\ ~stack[initproc]

\* A slot half made by fork or clone is nobody else's.
MakingInv ==
    \A p \in Slots : Making(p) =>
        /\ state[np[p]] = "EMBRYO" /\ parent[np[p]] = None /\ ~stack[np[p]]
        /\ \A q \in Slots \ {p} : Making(q) => np[q] # np[p]

\* Without "badstack" whoever waits has a child, and every child is in the table.
WaitingInv ==
    Avoid({"badstack"}) =>
        /\ \A s \in Slots : state[s] = "EMBRYO" => parent[s] = None
        /\ \A p \in Slots : state[p] = "SLEEPING" /\ at[p] = "wait" =>
              \E s \in Children(p) : ~stack[s] /\ InTable(s)

\* Every page directory in use is the one of a process.
DirsInv == \A d \in live : \E s \in Slots : InTable(s) /\ pgdir[s] = d

\* The owners of the page directories: the processes that are not threads.
Owns(s) == InTable(s) /\ ~stack[s]

\* Without "nested" every page directory in use has one owner, only owners have
\* children and change their memory, and what is mapped is what the size says, or will
\* say when growproc is over.
OwnersInv ==
    Avoid({"nested"}) =>
        /\ \A d \in live : \E s \in Slots : Owns(s) /\ pgdir[s] = d
        /\ \A s \in Slots : Owns(s) =>
              /\ pgdir[s] \in live
              /\ sz[s] > 0
              /\ pages[pgdir[s]] = 0 .. (IF at[s] = "grow" THEN newsz[s] ELSE sz[s]) - 1
              /\ at[s] = "grow" => newsz[s] > 0
        /\ \A s, t \in Slots : Owns(s) /\ Owns(t) /\ pgdir[s] = pgdir[t] => s = t
        /\ \A s \in Slots : parent[s] \in Slots => ~stack[parent[s]]
        /\ \A p \in Slots : Making(p) \/ at[p] = "grow" => ~stack[p]
        /\ panic # "memory"

\* With neither "nested" nor "abandon" nor "kill" a thread shares the memory and the
\* size of its parent.
Disciplined == Avoid({"abandon", "nested", "kill"})
ThreadsInv ==
    Disciplined =>
        /\ \A s \in Slots : ~killed[s]
        /\ \A s \in Slots : InTable(s) /\ stack[s] =>
              pgdir[s] = pgdir[parent[s]] /\ sz[s] = sz[parent[s]]

IInv ==
    /\ TypeOK /\ TableInv /\ InitInv /\ MakingInv /\ NoMissedExit
    /\ WaitingInv /\ DirsInv /\ OwnersInv /\ ThreadsInv

-----------------------------------------------------------------------------
\* The numbers of the slots.
LEMMA SlotFacts ==
    /\ initproc \in Slots /\ None \notin Slots /\ None \notin Dirs
    /\ Slots \subseteq Nat /\ Dirs \subseteq Nat /\ initproc \in Dirs
    /\ MaxPages \in Nat /\ MaxPages > 0
BY ThreadsConstants DEF initproc, None, Slots

\* There is always a name for another page directory.
LEMMA NewDirFree ==
    ASSUME IInv
    PROVE  NewDir \in Dirs /\ NewDir \notin live
<1> DEFINE f == [s \in Slots |-> IF pgdir[s] \in Dirs THEN pgdir[s] ELSE initproc]
<1>1. f \in [Slots -> Dirs]
  BY SlotFacts, Zenon
<1>2. PICK d \in Dirs : \A s \in Slots : f[s] # d
  <2> HIDE DEF f
  <2> QED
    BY <1>1, ThreadsConstants, Zenon
<1>3. d \notin live
  BY <1>2, Zenon DEF IInv, DirsInv
<1> QED
  BY <1>3, Zenon DEF NewDir

\* The initial state.
LEMMA InitIInv == Init => IInv
<1> SUFFICES ASSUME Init PROVE IInv
  BY Zenon
<1> USE SlotFacts DEF Init
<1>1. TypeOK
  BY DEF TypeOK
<1>2. \A s \in Slots : InTable(s) <=> s = initproc
  BY Zenon DEF InTable
<1>3. TableInv /\ InitInv /\ MakingInv /\ NoMissedExit
  BY <1>2, Zenon DEF TableInv, InitInv, MakingInv, NoMissedExit, Alive, Making, InTable
<1>4. WaitingInv /\ DirsInv /\ ThreadsInv
  BY <1>2, Zenon DEF WaitingInv, DirsInv, ThreadsInv
<1>5. OwnersInv
  <2>1. \A s \in Slots : Owns(s) <=> s = initproc
    BY <1>2, Zenon DEF Owns
  <2>2. \A s \in Slots : Owns(s) =>
              /\ pgdir[s] \in live
              /\ sz[s] > 0
              /\ pages[pgdir[s]] = 0 .. (IF at[s] = "grow" THEN newsz[s] ELSE sz[s]) - 1
              /\ at[s] = "grow" => newsz[s] > 0
    <3>1. 0 .. 1 - 1 = {0}
      OBVIOUS
    <3>2. /\ pgdir[initproc] = initproc /\ sz[initproc] = 1 /\ at[initproc] = "user"
          /\ pages[initproc] = {0} /\ initproc \in live
          /\ sz[initproc] > 0 /\ at[initproc] # "grow"
      OBVIOUS
    <3>3. (IF at[initproc] = "grow" THEN newsz[initproc] ELSE sz[initproc]) - 1 = 1 - 1
      BY <3>2, Zenon
    <3> HIDE DEF Init
    <3> QED
      BY <2>1, <3>1, <3>2, <3>3, Zenon
  <2>3. \A d \in live : \E s \in Slots : Owns(s) /\ pgdir[s] = d
    BY <2>1, Zenon
  <2> QED
    BY <2>1, <2>2, <2>3, Zenon DEF OwnersInv, Making
<1> QED
  BY <1>1, <1>3, <1>4, <1>5, Zenon DEF IInv

\* What OwnersInv says of those who make system calls, and of two owners.
LEMMA OwnersCall ==
    IInv /\ Avoid({"nested"}) =>
        /\ \A s \in Slots : parent[s] \in Slots => ~stack[parent[s]]
        /\ \A s \in Slots : Making(s) \/ at[s] = "grow" => ~stack[s]
        /\ panic # "memory"
BY Zenon DEF IInv, OwnersInv

LEMMA OwnersDiffer ==
    IInv /\ Avoid({"nested"}) =>
        \A s, t \in Slots : Owns(s) /\ Owns(t) /\ pgdir[s] = pgdir[t] => s = t
BY Zenon DEF IInv, OwnersInv

-----------------------------------------------------------------------------
\* What keeps the owners: a step that frees, makes and changes no owner's memory.
LEMMA OwnersFrame ==
    ASSUME OwnersInv, UNCHANGED program,
           Avoid({"nested"}) =>
               /\ UNCHANGED <<live, pages>>
               /\ \A s \in Slots : Owns(s)' <=> Owns(s)
               /\ \A s \in Slots : Owns(s) =>
                     /\ pgdir'[s] = pgdir[s] /\ sz'[s] = sz[s] /\ newsz'[s] = newsz[s]
                     /\ at'[s] = "grow" <=> at[s] = "grow"
               /\ \A s \in Slots : parent'[s] \in Slots => ~stack'[parent'[s]]
               /\ \A s \in Slots : Making(s)' \/ at'[s] = "grow" => ~stack'[s]
               /\ panic' # "memory"
    PROVE  OwnersInv'
<1> SUFFICES ASSUME Avoid({"nested"})' PROVE OwnersInv'
  BY Zenon DEF OwnersInv
<1>1. Avoid({"nested"})
  BY Zenon DEF Avoid
<1>2. \A d \in live' : \E s \in Slots : Owns(s)' /\ pgdir'[s] = d
  BY <1>1 DEF OwnersInv
<1>3. \A s \in Slots : Owns(s)' =>
              /\ pgdir'[s] \in live'
              /\ sz'[s] > 0
              /\ pages'[pgdir'[s]] = 0 .. (IF at'[s] = "grow" THEN newsz'[s] ELSE sz'[s]) - 1
              /\ at'[s] = "grow" => newsz'[s] > 0
  BY <1>1, Zenon DEF OwnersInv
<1>4. \A s, t \in Slots : Owns(s)' /\ Owns(t)' /\ pgdir'[s] = pgdir'[t] => s = t
  BY <1>1, Zenon DEF OwnersInv
<1> QED
  BY <1>1, <1>2, <1>3, <1>4, Zenon DEF OwnersInv

\* allocproc takes an unused slot, which is nobody's child.
LEMMA AllocStep ==
    ASSUME IInv, NEW p \in Slots, NEW call \in {"fork", "clone"}, allocproc(p, call),
           UNCHANGED program
    PROVE  IInv'
<1>1. PICK n \in Slots :
          /\ state[n] = "UNUSED"
          /\ state' = [state EXCEPT ![n] = "EMBRYO"] /\ stack' = [stack EXCEPT ![n] = FALSE]
          /\ np' = [np EXCEPT ![p] = n]
  BY Zenon DEF allocproc
<1>2. /\ state[p] = "RUNNABLE" /\ at[p] = "user" /\ Nested(p) /\ panic = "none"
      /\ n # p /\ n # initproc /\ parent[n] = None
  BY <1>1, Zenon DEF allocproc, Calls, AtUser, Up, IInv, TableInv, InitInv, Alive
<1>3. /\ state' = [state EXCEPT ![n] = "EMBRYO"] /\ stack' = [stack EXCEPT ![n] = FALSE]
      /\ np' = [np EXCEPT ![p] = n] /\ at' = [at EXCEPT ![p] = call]
      /\ UNCHANGED <<parent, killed, pgdir, sz, newsz, live, pages, panic>>
  BY <1>1, Zenon DEF allocproc, memVars
<1>4. TypeOK'
  BY <1>1, <1>3 DEF IInv, TypeOK
<1>5. /\ state'[n] = "EMBRYO" /\ \A s \in Slots \ {n} : state'[s] = state[s]
      /\ stack'[n] = FALSE /\ \A s \in Slots \ {n} : stack'[s] = stack[s]
      /\ np'[p] = n /\ \A s \in Slots \ {p} : np'[s] = np[s]
      /\ at'[p] = call /\ \A s \in Slots \ {p} : at'[s] = at[s]
  BY <1>1, <1>3 DEF IInv, TypeOK
<1>6. \A s \in Slots : InTable(s)' <=> InTable(s)
  BY <1>1, <1>5, Zenon DEF InTable
<1>7. TableInv' /\ InitInv'
  BY <1>1, <1>2, <1>3, <1>5, <1>6, SlotFacts DEF IInv, TableInv, InitInv, Alive
<1>8. MakingInv'
  BY <1>1, <1>2, <1>3, <1>5 DEF IInv, MakingInv, Making, TypeOK
<1>9. NoMissedExit'
  BY <1>1, <1>2, <1>3, <1>5, SlotFacts
     DEF IInv, NoMissedExit, WaitKids, ThreadsOf, Children
<1>10. WaitingInv'
  BY <1>1, <1>2, <1>3, <1>5, <1>6, SlotFacts DEF IInv, WaitingInv, Children, Avoid
<1>11. DirsInv' /\ ThreadsInv'
  BY <1>1, <1>3, <1>5, <1>6 DEF IInv, DirsInv, ThreadsInv, Disciplined, Avoid, InTable
<1>12. OwnersInv'
  <2>1. Avoid({"nested"}) => ~stack[p]
    BY <1>2, Zenon DEF Nested, Avoid
  <2>2. Avoid({"nested"}) => panic' # "memory"
    BY <1>2, <1>3, Zenon
  <2>3. \A s \in Slots : Owns(s)' <=> Owns(s)
    BY <1>1, <1>5, <1>6 DEF Owns, InTable
  <2>4. Avoid({"nested"}) =>
          /\ \A s \in Slots : parent'[s] \in Slots => ~stack'[parent'[s]]
          /\ \A s \in Slots : Making(s)' \/ at'[s] = "grow" => ~stack'[s]
    BY <1>3, <1>5, <2>1 DEF IInv, OwnersInv, Making
  <2>5. \A s \in Slots : at'[s] = "grow" <=> at[s] = "grow"
    BY <1>2, <1>5, Zenon
  <2> QED
    BY <1>3, <2>2, <2>3, <2>4, <2>5, OwnersFrame, Zenon DEF IInv
<1> QED
  BY <1>4, <1>7, <1>8, <1>9, <1>10, <1>11, <1>12, Zenon DEF IInv

\* The slot that fork or clone is making.
LEMMA MakingFacts ==
    ASSUME IInv, NEW p \in Slots, Making(p)
    PROVE  /\ np[p] \in Slots /\ np[p] # p /\ np[p] # initproc
           /\ state[p] = "RUNNABLE" /\ state[np[p]] = "EMBRYO"
           /\ parent[np[p]] = None /\ ~stack[np[p]] /\ at[np[p]] = "user"
           /\ \A s \in Slots : parent[s] # np[p]
<1>1. np[p] \in Slots /\ state[np[p]] = "EMBRYO" /\ parent[np[p]] = None /\ ~stack[np[p]]
  BY Zenon DEF IInv, TypeOK, MakingInv, Making
<1>2. state[p] = "RUNNABLE"
  BY Zenon DEF IInv, TypeOK, TableInv, Making
<1>3. at[np[p]] = "user" /\ \A s \in Slots : parent[s] # np[p]
  BY <1>1, Zenon DEF IInv, TableInv, Alive
<1> QED
  BY <1>1, <1>2, <1>3, Zenon DEF IInv, InitInv, Alive

\* A fork or clone that runs out of memory gives the slot back.
LEMMA AllocFailsStep ==
    ASSUME IInv, NEW p \in Slots, AllocFails(p), UNCHANGED program
    PROVE  IInv'
<1> DEFINE n == np[p]
<1>1. Making(p)
  BY Zenon DEF AllocFails, Making
<1>2. /\ n \in Slots /\ n # p /\ n # initproc /\ state[p] = "RUNNABLE" /\ state[n] = "EMBRYO"
      /\ parent[n] = None /\ ~stack[n] /\ at[n] = "user" /\ \A s \in Slots : parent[s] # n
  BY <1>1, MakingFacts, Zenon
<1>3. /\ state' = [state EXCEPT ![n] = "UNUSED"] /\ at' = [at EXCEPT ![p] = "user"]
      /\ np' = [np EXCEPT ![p] = None] /\ (pgdir' = pgdir \/ pgdir' = [pgdir EXCEPT ![n] = None])
      /\ UNCHANGED <<parent, killed, stack, sz, newsz, live, pages, panic>>
  BY Zenon DEF AllocFails, memVars
<1> HIDE DEF n
<1>4. /\ state'[n] = "UNUSED" /\ \A s \in Slots \ {n} : state'[s] = state[s]
      /\ at'[p] = "user" /\ \A s \in Slots \ {p} : at'[s] = at[s] /\ np'[s] = np[s]
      /\ \A s \in Slots \ {n} : pgdir'[s] = pgdir[s]
  BY <1>2, <1>3, Zenon DEF IInv, TypeOK
<1>5. TypeOK'
  BY <1>2, <1>3, <1>4, Zenon DEF IInv, TypeOK
<1>6. \A s \in Slots : InTable(s)' <=> InTable(s)
  BY <1>2, <1>4, Zenon DEF InTable
<1>7. TableInv' /\ InitInv'
  BY <1>2, <1>3, <1>4, <1>6, SlotFacts DEF IInv, TableInv, InitInv, Alive
<1>8. MakingInv'
  <2>1. \A q \in Slots \ {p} : Making(q)' <=> Making(q)
    BY <1>4, Zenon DEF Making
  <2>2. ~Making(p)' /\ \A q \in Slots \ {p} : Making(q) => np[q] # n
    BY <1>1, <1>4, Zenon DEF IInv, MakingInv, Making, n
  <2> QED
    BY <1>3, <1>4, <2>1, <2>2 DEF IInv, TypeOK, MakingInv, Making
<1>9. NoMissedExit'
  BY <1>2, <1>3, <1>4, SlotFacts DEF IInv, NoMissedExit, WaitKids, ThreadsOf, Children
<1>10. WaitingInv'
  BY <1>2, <1>3, <1>4, <1>6, SlotFacts DEF IInv, WaitingInv, Children, Avoid
<1>11. DirsInv'
  BY <1>2, <1>3, <1>4, <1>6 DEF IInv, DirsInv, InTable
<1>12. ThreadsInv'
  <2>1. \A s \in Slots : InTable(s) /\ stack[s] => s # n /\ parent[s] \in Slots \ {n}
    BY <1>2, Zenon DEF IInv, TableInv, InitInv
  <2> QED
    BY <1>3, <1>4, <1>6, <2>1, Zenon DEF IInv, ThreadsInv, Disciplined, Avoid
<1>13. OwnersInv'
  <2>1. \A s \in Slots : Owns(s)' <=> Owns(s)
    BY <1>3, <1>6, Zenon DEF Owns
  <2>2. \A s \in Slots : (at'[s] = "grow" <=> at[s] = "grow") /\ (Making(s)' => Making(s))
    BY <1>1, <1>4, Zenon DEF Making
  <2>3. \A s \in Slots : Owns(s) => pgdir'[s] = pgdir[s]
    BY <1>2, <1>4, Zenon DEF Owns, InTable
  <2>4. Avoid({"nested"}) =>
          /\ \A s \in Slots : parent'[s] \in Slots => ~stack'[parent'[s]]
          /\ \A s \in Slots : Making(s)' \/ at'[s] = "grow" => ~stack'[s]
          /\ panic' # "memory"
    BY <1>3, <2>2, OwnersCall, Zenon
  <2> QED
    BY <1>3, <2>1, <2>2, <2>3, <2>4, OwnersFrame, Zenon DEF IInv
<1> QED
  BY <1>5, <1>7, <1>8, <1>9, <1>10, <1>11, <1>12, <1>13, Zenon DEF IInv

\* A step that changes nothing but panic.
LEMMA FrozenStep ==
    ASSUME IInv, UNCHANGED program, panic' \in {"none", "memory", "init"},
           UNCHANGED <<state, parent, killed, stack, pgdir, sz, at, np, newsz, live, pages>>,
           Avoid({"nested"}) => panic' # "memory"
    PROVE  IInv'
<1>1. TypeOK'
  BY Zenon DEF IInv, TypeOK
<1>2. TableInv' /\ InitInv' /\ MakingInv' /\ NoMissedExit'
  BY DEF IInv, TableInv, InitInv, MakingInv, NoMissedExit, Alive, InTable, Making,
         WaitKids, ThreadsOf, Children
<1>3. WaitingInv' /\ DirsInv' /\ ThreadsInv'
  BY DEF IInv, WaitingInv, DirsInv, ThreadsInv, InTable, Children, Disciplined, Avoid
<1>4. OwnersInv'
  <2>1. \A s \in Slots : (Owns(s)' <=> Owns(s)) /\ (Making(s)' <=> Making(s))
    BY Zenon DEF Owns, InTable, Making
  <2> QED
    BY <2>1, OwnersFrame, Zenon DEF IInv, OwnersInv
<1> QED
  BY <1>1, <1>2, <1>3, <1>4, Zenon DEF IInv

\* init.c gives up.
LEMMA InitForkFailsStep ==
    ASSUME IInv, InitForkFails, UNCHANGED program
    PROVE  IInv'
<1>1. UNCHANGED <<state, parent, killed, stack, pgdir, sz, at, np, newsz, live, pages>>
      /\ panic' = "init"
  BY Zenon DEF InitForkFails, procVars, callVars, memVars
<1> QED
  BY <1>1, FrozenStep, Zenon

\* fork makes a process with a page directory of its own; copyuvm finds every page of
\* an owner.
LEMMA ForkStep ==
    ASSUME IInv, NEW p \in Slots, ForkFinish(p), UNCHANGED program
    PROVE  IInv'
<1> DEFINE n == np[p]
<1> DEFINE d == NewDir
<1>1. Making(p) /\ at[p] = "fork" /\ panic = "none"
  BY Zenon DEF ForkFinish, Making, Up
<1>2. /\ n \in Slots /\ n # p /\ n # initproc /\ state[p] = "RUNNABLE" /\ state[n] = "EMBRYO"
      /\ parent[n] = None /\ ~stack[n] /\ at[n] = "user" /\ \A s \in Slots : parent[s] # n
  BY <1>1, MakingFacts, Zenon
<1>3. Avoid({"nested"}) =>
          Owns(p) /\ pages[pgdir[p]] = 0 .. sz[p] - 1 /\ sz[p] > 0 /\ ~stack[p]
  BY <1>1, <1>2, Zenon DEF IInv, OwnersInv, Owns, InTable
<1>4. CASE ~(0 .. sz[p] - 1 \subseteq pages[pgdir[p]])
  <2>1. UNCHANGED <<state, parent, killed, stack, pgdir, sz, at, np, newsz, live, pages>>
        /\ panic' = "memory"
    BY <1>4, Zenon DEF ForkFinish, procVars, callVars, memVars
  <2> QED
    BY <1>3, <1>4, <2>1, FrozenStep, Zenon
<1>5. CASE 0 .. sz[p] - 1 \subseteq pages[pgdir[p]]
  <2>1. d \in Dirs /\ d \notin live
    BY NewDirFree, Zenon
  <2>2. /\ live' = live \cup {d} /\ pages' = [pages EXCEPT ![d] = 0 .. sz[p] - 1]
        /\ pgdir' = [pgdir EXCEPT ![n] = d] /\ sz' = [sz EXCEPT ![n] = sz[p]]
        /\ parent' = [parent EXCEPT ![n] = p] /\ state' = [state EXCEPT ![n] = "RUNNABLE"]
        /\ at' = [at EXCEPT ![p] = "user"]
        /\ np' = [np EXCEPT ![p] = IF p = initproc THEN np[p] ELSE None]
        /\ UNCHANGED <<killed, stack, newsz, panic>>
    BY <1>5, Zenon DEF ForkFinish
  <2> HIDE DEF n, d
  <2>3. /\ pages'[d] = 0 .. sz[p] - 1 /\ \A e \in Dirs \ {d} : pages'[e] = pages[e]
        /\ pgdir'[n] = d /\ sz'[n] = sz[p] /\ parent'[n] = p /\ state'[n] = "RUNNABLE"
        /\ \A s \in Slots \ {n} : /\ pgdir'[s] = pgdir[s] /\ sz'[s] = sz[s]
                                  /\ parent'[s] = parent[s] /\ state'[s] = state[s]
        /\ at'[p] = "user" /\ \A s \in Slots \ {p} : at'[s] = at[s] /\ np'[s] = np[s]
    BY <1>2, <2>1, <2>2, Zenon DEF IInv, TypeOK
  <2>4. TypeOK'
    <3>1. 0 .. sz[p] - 1 \in SUBSET (0 .. MaxPages - 1)
      BY SlotFacts DEF IInv, TypeOK
    <3>2. np' \in [Slots -> Slots \cup {None}]
      BY <2>2, Zenon DEF IInv, TypeOK
    <3> QED
      BY <1>2, <2>1, <2>2, <2>3, <3>1, <3>2, Zenon DEF IInv, TypeOK
  <2>5. \A s \in Slots : InTable(s)' <=> InTable(s) \/ s = n
    BY <1>2, <2>3, Zenon DEF InTable
  <2>6. TableInv' /\ InitInv'
    BY <1>2, <2>2, <2>3, <2>5, SlotFacts DEF IInv, TableInv, InitInv, Alive
  <2>7. MakingInv'
    <3>1. \A q \in Slots \ {p} : Making(q)' <=> Making(q)
      BY <2>3, Zenon DEF Making
    <3>2. ~Making(p)' /\ \A q \in Slots \ {p} : Making(q) => np[q] # n
      BY <1>1, <2>3, Zenon DEF IInv, MakingInv, Making, n
    <3> QED
      BY <2>2, <2>3, <3>1, <3>2 DEF IInv, TypeOK, MakingInv, Making
  <2>8. NoMissedExit'
    BY <1>2, <2>2, <2>3, SlotFacts DEF IInv, NoMissedExit, WaitKids, ThreadsOf, Children
  <2>9. WaitingInv'
    BY <1>2, <2>2, <2>3, <2>5, SlotFacts DEF IInv, WaitingInv, Children, Avoid
  <2>10. DirsInv'
    BY <1>2, <2>2, <2>3, <2>5 DEF IInv, DirsInv, InTable
  <2>11. ThreadsInv'
    BY <1>2, <2>2, <2>3, <2>5, SlotFacts
       DEF IInv, TableInv, InitInv, ThreadsInv, Disciplined, Avoid
  <2>12. OwnersInv'
    <3> SUFFICES ASSUME Avoid({"nested"})' PROVE OwnersInv'
      BY Zenon DEF OwnersInv
    <3>1. Avoid({"nested"})
      BY Zenon DEF Avoid
    <3>2. \A s \in Slots : Owns(s)' <=> Owns(s) \/ s = n
      BY <1>2, <2>2, <2>5, Zenon DEF Owns
    <3>3. ~Owns(n) /\ \A s \in Slots : Owns(s) => pgdir[s] \in live /\ pgdir[s] # d
      BY <1>2, <2>1, <3>1 DEF IInv, OwnersInv, Owns, InTable
    <3>4. \A e \in live' : \E s \in Slots : Owns(s)' /\ pgdir'[s] = e
      BY <1>2, <2>2, <2>3, <3>1, <3>2, <3>3 DEF IInv, OwnersInv
    <3>5. \A s \in Slots : Owns(s)' =>
              /\ pgdir'[s] \in live'
              /\ sz'[s] > 0
              /\ pages'[pgdir'[s]] = 0 .. (IF at'[s] = "grow" THEN newsz'[s] ELSE sz'[s]) - 1
              /\ at'[s] = "grow" => newsz'[s] > 0
      <4>1. pgdir'[n] \in live' /\ sz'[n] > 0 /\ pages'[pgdir'[n]] = 0 .. sz'[n] - 1
            /\ at'[n] = "user"
        BY <1>2, <1>3, <2>2, <2>3, <3>1
      <4>2. ASSUME NEW s \in Slots, Owns(s)
            PROVE  /\ s # n /\ pgdir'[s] \in live' /\ pgdir'[s] = pgdir[s]
                   /\ sz'[s] = sz[s] /\ newsz'[s] = newsz[s]
                   /\ pages'[pgdir[s]] = pages[pgdir[s]] /\ (at'[s] = "grow" <=> at[s] = "grow")
        BY <4>2, <1>1, <2>2, <2>3, <3>3 DEF IInv, TypeOK
      <4> QED
        BY <4>1, <4>2, <3>1, <3>2 DEF IInv, OwnersInv
    <3>6. \A s, t \in Slots : Owns(s)' /\ Owns(t)' /\ pgdir'[s] = pgdir'[t] => s = t
      <4>1. \A s, t \in Slots : Owns(s) /\ Owns(t) /\ pgdir[s] = pgdir[t] => s = t
        BY <3>1, OwnersDiffer, Zenon
      <4> QED
        BY <2>3, <3>2, <3>3, <4>1
    <3>7. /\ \A s \in Slots : parent'[s] \in Slots => ~stack'[parent'[s]]
          /\ \A s \in Slots : Making(s)' \/ at'[s] = "grow" => ~stack'[s]
          /\ panic' # "memory"
      BY <1>1, <1>3, <2>2, <2>3, <3>1, OwnersCall DEF Making
    <3> QED
      BY <3>4, <3>5, <3>6, <3>7, Zenon DEF OwnersInv
  <2> QED
    BY <2>4, <2>6, <2>7, <2>8, <2>9, <2>10, <2>11, <2>12, Zenon DEF IInv
<1> QED
  BY <1>4, <1>5, Zenon

\* clone makes a thread, or leaves a slot that never runs.
LEMMA CloneStep ==
    ASSUME IInv, NEW p \in Slots, CloneFinish(p), UNCHANGED program
    PROVE  IInv'
<1> DEFINE n == np[p]
<1>1. Making(p) /\ at[p] = "clone" /\ panic = "none"
  BY Zenon DEF CloneFinish, Making, Up
<1>2. /\ n \in Slots /\ n # p /\ n # initproc /\ state[p] = "RUNNABLE" /\ state[n] = "EMBRYO"
      /\ parent[n] = None /\ ~stack[n] /\ at[n] = "user" /\ \A s \in Slots : parent[s] # n
  BY <1>1, MakingFacts, Zenon
<1>3. /\ pgdir' = [pgdir EXCEPT ![n] = pgdir[p]] /\ sz' = [sz EXCEPT ![n] = sz[p]]
      /\ parent' = [parent EXCEPT ![n] = p] /\ at' = [at EXCEPT ![p] = "user"]
      /\ np' = [np EXCEPT ![p] = None]
      /\ \/ state' = [state EXCEPT ![n] = "RUNNABLE"] /\ stack' = [stack EXCEPT ![n] = TRUE]
         \/ "badstack" \in program.does /\ UNCHANGED <<state, stack>>
      /\ UNCHANGED <<killed, newsz, live, pages, panic>>
  BY Zenon DEF CloneFinish, memVars
<1> HIDE DEF n
<1>4. /\ pgdir'[n] = pgdir[p] /\ sz'[n] = sz[p] /\ parent'[n] = p
      /\ \A s \in Slots \ {n} : /\ pgdir'[s] = pgdir[s] /\ sz'[s] = sz[s]
                                /\ parent'[s] = parent[s] /\ state'[s] = state[s]
                                /\ stack'[s] = stack[s]
      /\ \/ state'[n] = "RUNNABLE" /\ stack'[n] = TRUE
         \/ "badstack" \in program.does /\ state'[n] = "EMBRYO" /\ stack'[n] = stack[n]
      /\ at'[p] = "user" /\ \A s \in Slots \ {p} : at'[s] = at[s] /\ np'[s] = np[s]
  BY <1>2, <1>3, Zenon DEF IInv, TypeOK
<1>5. TypeOK'
  <2>1. /\ state' \in [Slots -> {"UNUSED", "EMBRYO", "SLEEPING", "RUNNABLE", "ZOMBIE"}]
        /\ stack' \in [Slots -> BOOLEAN]
    BY <1>3, Zenon DEF IInv, TypeOK
  <2> QED
    BY <1>2, <1>3, <1>4, <2>1, Zenon DEF IInv, TypeOK
<1>6. \A s \in Slots : InTable(s)' => InTable(s) \/ (s = n /\ stack'[n])
  BY <1>2, <1>4, Zenon DEF InTable
<1>7. \A s \in Slots : InTable(s) => InTable(s)' /\ s # n
  BY <1>2, <1>4, Zenon DEF InTable
<1>8. TableInv' /\ InitInv'
  BY <1>2, <1>3, <1>4, <1>6, SlotFacts DEF IInv, TableInv, InitInv, Alive
<1>9. MakingInv'
  <2>1. \A q \in Slots \ {p} : Making(q)' <=> Making(q)
    BY <1>4, Zenon DEF Making
  <2>2. ~Making(p)' /\ \A q \in Slots \ {p} : Making(q) => np[q] # n
    BY <1>1, <1>4, Zenon DEF IInv, MakingInv, Making, n
  <2> QED
    BY <1>3, <1>4, <2>1, <2>2 DEF IInv, TypeOK, MakingInv, Making
<1>10. NoMissedExit'
  BY <1>2, <1>3, <1>4, SlotFacts DEF IInv, NoMissedExit, WaitKids, ThreadsOf, Children
<1>11. WaitingInv'
  BY <1>2, <1>3, <1>4, <1>7, SlotFacts DEF IInv, WaitingInv, Children, Avoid
<1>12. DirsInv'
  BY <1>3, <1>4, <1>7 DEF IInv, DirsInv
<1>13. ThreadsInv'
  BY <1>2, <1>3, <1>4, <1>6, SlotFacts
     DEF IInv, TableInv, InitInv, ThreadsInv, Disciplined, Avoid
<1>14. OwnersInv'
  <2>1. \A s \in Slots : Owns(s)' <=> Owns(s)
    BY <1>4, <1>6, <1>7, Zenon DEF Owns
  <2>2. \A s \in Slots : (at'[s] = "grow" <=> at[s] = "grow") /\ (Making(s)' => Making(s))
    BY <1>1, <1>4, Zenon DEF Making
  <2>3. \A s \in Slots : Owns(s) => pgdir'[s] = pgdir[s] /\ sz'[s] = sz[s]
    BY <1>4, <1>7, Zenon DEF Owns
  <2>4. Avoid({"nested"}) => ~stack[p] /\ stack'[p] = stack[p]
    BY <1>1, <1>2, <1>4, Zenon DEF IInv, OwnersInv
  <2>5. Avoid({"nested"}) =>
          /\ \A s \in Slots : parent'[s] \in Slots => ~stack'[parent'[s]]
          /\ \A s \in Slots : Making(s)' \/ at'[s] = "grow" => ~stack'[s]
          /\ panic' # "memory"
    BY <1>1, <1>2, <1>3, <1>4, <2>2, <2>4, OwnersCall DEF Making
  <2> QED
    BY <1>3, <2>1, <2>2, <2>3, <2>5, OwnersFrame, Zenon DEF IInv
<1> QED
  BY <1>5, <1>8, <1>9, <1>10, <1>11, <1>12, <1>13, <1>14, Zenon DEF IInv

-----------------------------------------------------------------------------
\* exit wakes whoever may wait for the zombies, the inherited ones included.
LEMMA ExitStep ==
    ASSUME IInv, NEW p \in Slots, exit(p), UNCHANGED program
    PROVE  IInv'
<1> DEFINE inherited == {s \in Children(p) : state[s] = "ZOMBIE"}
<1> DEFINE chans == {parent[p]} \cup IF inherited = {} THEN {} ELSE {initproc}
<1>1. /\ state[p] = "RUNNABLE" /\ at[p] = "user" /\ p # initproc /\ panic = "none"
      /\ killed[p] \/ Abandons(p)
  BY Zenon DEF exit, AtUser, Up
<1>2. parent[p] \in Slots /\ parent[p] # p
  BY <1>1, Zenon DEF IInv, TableInv, InTable
<1>3. /\ parent' = [s \in Slots |-> IF parent[s] = p THEN initproc ELSE parent[s]]
      /\ state' = [wakeup1(state, chans) EXCEPT ![p] = "ZOMBIE"]
      /\ UNCHANGED <<killed, stack, pgdir, sz, at, np, newsz, live, pages, panic>>
  BY Zenon DEF exit, callVars, memVars
<1>4. /\ state'[p] = "ZOMBIE"
      /\ \A s \in Slots \ {p} : state'[s] = IF s \in chans /\ state[s] = "SLEEPING"
                                            THEN "RUNNABLE" ELSE state[s]
      /\ \A s \in Slots : parent'[s] = IF parent[s] = p THEN initproc ELSE parent[s]
  BY <1>3, Zenon DEF wakeup1
<1>5. parent[p] \in chans /\ (initproc \in chans \/ \A s \in Children(p) : state[s] # "ZOMBIE")
  BY Zenon
<1> HIDE DEF chans
<1>6. TypeOK'
  <2>1. state' \in [Slots -> {"UNUSED", "EMBRYO", "SLEEPING", "RUNNABLE", "ZOMBIE"}]
    BY <1>3, Zenon DEF IInv, TypeOK, wakeup1
  <2> QED
    BY <1>3, <2>1, SlotFacts DEF IInv, TypeOK
<1>7. \A s \in Slots : InTable(s)' <=> InTable(s)
  BY <1>1, <1>4, Zenon DEF InTable
<1>8. TableInv'
  <2>1. \A q \in Slots \ {p} : Alive(q) => Alive(q)'
    BY <1>4, Zenon DEF Alive
  <2>2. Alive(initproc)' /\ parent[initproc] = None
    BY <2>1, <1>1, SlotFacts, Zenon DEF IInv, InitInv
  <2>3. \A s \in Slots : parent'[s] \in Slots => parent'[s] # s /\ Alive(parent[s])'
    <3> SUFFICES ASSUME NEW s \in Slots, parent'[s] \in Slots
                 PROVE  parent'[s] # s /\ state'[parent'[s]] \in {"RUNNABLE", "SLEEPING"}
      BY Zenon DEF Alive
    <3>1. CASE parent[s] = p
      BY <3>1, <1>4, <2>2, SlotFacts, Zenon DEF Alive
    <3>2. CASE parent[s] # p
      <4>1. parent'[s] = parent[s] /\ parent[s] # s /\ Alive(parent[s])
        BY <3>2, <1>4, Zenon DEF IInv, TableInv
      <4> QED
        BY <3>2, <4>1, <2>1, Zenon DEF Alive
    <3> QED
      BY <3>1, <3>2, Zenon
  <2>4. \A s \in Slots : s # initproc /\ InTable(s)' => parent'[s] \in Slots
    BY <1>4, <1>7, SlotFacts, Zenon DEF IInv, TableInv
  <2>5. \A s \in Slots :
          /\ state'[s] \in {"UNUSED", "EMBRYO", "ZOMBIE"} => at'[s] = "user"
          /\ state'[s] = "SLEEPING" => at'[s] \in {"wait", "join"}
          /\ state'[s] = "UNUSED" => parent'[s] = None
    BY <1>1, <1>3, <1>4, SlotFacts DEF IInv, TableInv
  <2> QED
    BY <2>3, <2>4, <2>5, Zenon DEF TableInv, Alive
<1>9. InitInv'
  BY <1>1, <1>3, <1>4, SlotFacts, Zenon DEF IInv, InitInv, Alive
<1>10. MakingInv'
  <2>1. \A q \in Slots : Making(q)' <=> Making(q)
    BY <1>3, Zenon DEF Making
  <2>2. \A q \in Slots : Making(q) => state'[np[q]] = "EMBRYO" /\ parent'[np[q]] = None
    <3> SUFFICES ASSUME NEW q \in Slots, Making(q)
                 PROVE  state'[np[q]] = "EMBRYO" /\ parent'[np[q]] = None
      BY Zenon
    <3>1. np[q] \in Slots /\ state[np[q]] = "EMBRYO" /\ parent[np[q]] = None
      BY MakingFacts, Zenon
    <3> QED
      BY <3>1, <1>1, <1>4, SlotFacts, Zenon
  <2> QED
    BY <1>3, <2>1, <2>2, Zenon DEF IInv, MakingInv
<1>11. NoMissedExit'
  <2> SUFFICES ASSUME NEW q \in Slots, state'[q] = "SLEEPING",
                      NEW s \in Slots,
                      s \in IF at[q] = "wait" THEN WaitKids(q)' ELSE ThreadsOf(q)'
               PROVE  state'[s] # "ZOMBIE"
    BY <1>3, Zenon DEF NoMissedExit, WaitKids, ThreadsOf, Children
  <2>1. s \in Slots /\ parent'[s] = q /\ q # p /\ q \notin chans /\ state[q] = "SLEEPING"
    BY <1>4, Zenon DEF WaitKids, ThreadsOf, Children
  <2>2. CASE parent[s] = q
    BY <1>3, <1>4, <1>5, <2>1, <2>2 DEF IInv, NoMissedExit, WaitKids, ThreadsOf, Children
  <2>3. CASE parent[s] = p
    BY <1>1, <1>2, <1>4, <1>5, <2>1, <2>3, Zenon DEF Children
  <2> QED
    BY <1>4, <2>1, <2>2, <2>3, Zenon
<1>12. WaitingInv'
  <2>1. \A q, s \in Slots : s \in Children(q) /\ state[q] = "SLEEPING" => s \in Children(q)'
    BY <1>1, <1>4, Zenon DEF Children
  <2>2. \A q \in Slots : state'[q] = "SLEEPING" => state[q] = "SLEEPING"
    BY <1>4, Zenon
  <2>3. \A s \in Slots : state'[s] = "EMBRYO" => state[s] = "EMBRYO"
    BY <1>4, Zenon
  <2> QED
    BY <1>1, <1>3, <1>4, <1>7, <2>1, <2>2, <2>3, SlotFacts DEF IInv, WaitingInv, Children, Avoid
<1>13. DirsInv'
  BY <1>3, <1>7, Zenon DEF IInv, DirsInv
<1>14. ThreadsInv'
  <2> SUFFICES ASSUME Disciplined,
                      NEW s \in Slots, InTable(s), stack[s]
               PROVE  parent[s] # p
    BY <1>3, <1>4, <1>7, Zenon DEF IInv, ThreadsInv, Disciplined, Avoid
  <2>1. ThreadsOf(p) = {}
    BY <1>1, Zenon DEF IInv, ThreadsInv, Disciplined, Avoid, Abandons
  <2> QED
    BY <2>1 DEF IInv, ThreadsInv, ThreadsOf, Children
<1>15. OwnersInv'
  <2>1. \A s \in Slots : (Owns(s)' <=> Owns(s)) /\ (Making(s)' <=> Making(s))
    BY <1>3, <1>7, Zenon DEF Owns, Making
  <2>2. Avoid({"nested"}) =>
          /\ \A s \in Slots : parent'[s] \in Slots => ~stack'[parent'[s]]
          /\ \A s \in Slots : Making(s)' \/ at'[s] = "grow" => ~stack'[s]
          /\ panic' # "memory"
    BY <1>3, <1>4, <2>1, OwnersCall, Zenon DEF IInv, InitInv
  <2> QED
    BY <1>3, <2>1, <2>2, OwnersFrame, Zenon DEF IInv
<1> QED
  BY <1>6, <1>8, <1>9, <1>10, <1>11, <1>12, <1>13, <1>14, <1>15, Zenon DEF IInv

\* What a running process does to itself outside fork and clone: it stays where it is
\* or falls asleep, in wait only over a child.
OwnMove(p) ==
    /\ state[p] = "RUNNABLE" /\ ~Making(p)
    /\ UNCHANGED <<parent, killed, stack, program>>
    /\ \A s \in Slots \ {p} : at'[s] = at[s] /\ np'[s] = np[s] /\ state'[s] = state[s]
    /\ \/ at'[p] \in {"user", "grow"} /\ state'[p] = "RUNNABLE"
       \/ /\ at'[p] \in {"wait", "join"} /\ state'[p] = "SLEEPING"
          /\ at'[p] = "wait" => WaitKids(p) # {}

\* It keeps the family tree.
LEMMA OwnStep ==
    ASSUME IInv, NEW p \in Slots, OwnMove(p)
    PROVE  /\ TableInv' /\ InitInv' /\ MakingInv' /\ WaitingInv'
           /\ \A s \in Slots : (InTable(s)' <=> InTable(s)) /\ (Making(s)' <=> Making(s))
<1>1. \A s \in Slots : /\ InTable(s)' <=> InTable(s)
                       /\ Alive(s)' <=> Alive(s)
                       /\ Making(s)' <=> Making(s)
  BY Zenon DEF OwnMove, InTable, Alive, Making
<1>2. /\ parent' = parent /\ killed' = killed /\ stack' = stack /\ program' = program
      /\ \A s \in Slots \ {p} : at'[s] = at[s] /\ np'[s] = np[s] /\ state'[s] = state[s]
  BY Zenon DEF OwnMove
<1>3. TableInv'
  <2>1. /\ state'[p] \in {"RUNNABLE", "SLEEPING"}
        /\ state'[p] = "SLEEPING" => at'[p] \in {"wait", "join"}
    BY Zenon DEF OwnMove
  <2> QED
    BY <1>1, <1>2, <2>1, Zenon DEF IInv, TableInv
<1>4. InitInv'
  BY <1>1, <1>2, SlotFacts, Zenon DEF IInv, InitInv
<1>5. MakingInv'
  <2>1. ~Making(p) /\ state[p] # "EMBRYO"
    BY Zenon DEF OwnMove
  <2> SUFFICES ASSUME NEW q \in Slots, Making(q)
               PROVE  /\ state'[np'[q]] = "EMBRYO" /\ parent'[np'[q]] = None
                      /\ ~stack'[np'[q]]
                      /\ \A r \in Slots \ {q} : Making(r)' => np'[r] # np'[q]
    BY <1>1, Zenon DEF MakingInv
  <2>2. np[q] \in Slots /\ state[np[q]] = "EMBRYO" /\ parent[np[q]] = None /\ ~stack[np[q]]
    BY MakingFacts, Zenon
  <2>3. \A r \in Slots \ {q} : Making(r) => np[r] # np[q]
    BY Zenon DEF IInv, MakingInv
  <2> QED
    BY <1>1, <1>2, <2>1, <2>2, <2>3, Zenon
<1>6. WaitingInv'
  <2> SUFFICES ASSUME Avoid({"badstack"}) PROVE WaitingInv'
    BY <1>2, Zenon DEF WaitingInv, Avoid
  <2>1. \A q \in Slots : Children(q)' = Children(q) /\ Children(q) \subseteq Slots
    BY <1>2, Zenon DEF Children
  <2>2. /\ \A s \in Slots : state[s] = "EMBRYO" => parent[s] = None
        /\ \A q \in Slots : state[q] = "SLEEPING" /\ at[q] = "wait" =>
              \E s \in Children(q) : ~stack[s] /\ InTable(s)
    BY Zenon DEF IInv, WaitingInv
  <2>3. state'[p] # "EMBRYO" /\ (state'[p] = "SLEEPING" /\ at'[p] = "wait" =>
                                   \E s \in Slots : parent[s] = p /\ ~stack[s])
    BY Zenon DEF OwnMove, WaitKids, Children
  <2>4. \A s \in Slots : parent[s] = p => InTable(s)
    BY <2>2, SlotFacts DEF IInv, TableInv, InTable, TypeOK
  <2>5. \A q \in Slots : state'[q] = "SLEEPING" /\ at'[q] = "wait" =>
            \E s \in Children(q) : ~stack[s] /\ InTable(s)
    BY <1>2, <2>2, <2>3, <2>4 DEF Children
  <2> QED
    BY <1>1, <1>2, <2>1, <2>2, <2>3, <2>5 DEF WaitingInv
<1> QED
  BY <1>1, <1>3, <1>4, <1>5, <1>6, Zenon

\* A scan of wait or join that frees nobody: whoever goes to sleep has someone to wait
\* for and no zombie among them.
LEMMA ScanEndsStep ==
    ASSUME IInv, NEW p \in Slots, NEW call \in {"wait", "join"}, NEW kids,
           kids = IF call = "wait" THEN WaitKids(p) ELSE ThreadsOf(p),
           \A s \in kids : state[s] # "ZOMBIE",
           state[p] = "RUNNABLE", at[p] \in {call, "user"}, Up,
           GiveUpOrSleep(p, call, kids), UNCHANGED program
    PROVE  IInv'
<1>1. /\ UNCHANGED <<parent, killed, stack, pgdir, sz, newsz, live, pages, panic>>
      /\ \/ /\ at' = [at EXCEPT ![p] = "user"] /\ np' = [np EXCEPT ![p] = None]
            /\ state' = state
         \/ /\ kids # {} /\ at' = [at EXCEPT ![p] = call]
            /\ state' = [state EXCEPT ![p] = "SLEEPING"] /\ np' = np
  BY Zenon DEF GiveUpOrSleep, memVars
<1>2. /\ \A s \in Slots \ {p} : at'[s] = at[s] /\ np'[s] = np[s] /\ state'[s] = state[s]
      /\ \/ at'[p] = "user" /\ state'[p] = "RUNNABLE"
         \/ kids # {} /\ at'[p] = call /\ state'[p] = "SLEEPING"
  BY <1>1, Zenon DEF IInv, TypeOK
<1>3. TypeOK'
  <2>1. /\ state' \in [Slots -> {"UNUSED", "EMBRYO", "SLEEPING", "RUNNABLE", "ZOMBIE"}]
        /\ np' \in [Slots -> Slots \cup {None}]
        /\ at' \in [Slots -> {"user", "fork", "clone", "wait", "join", "grow"}]
    BY <1>1 DEF IInv, TypeOK
  <2>2. \A q \in Slots : at'[q] \in {"fork", "clone"} => np'[q] \in Slots
    BY <1>2, Zenon DEF IInv, TypeOK
  <2> QED
    BY <1>1, <2>1, <2>2, Zenon DEF IInv, TypeOK
<1>4. /\ TableInv' /\ InitInv' /\ MakingInv' /\ WaitingInv'
      /\ \A s \in Slots : (InTable(s)' <=> InTable(s)) /\ (Making(s)' <=> Making(s))
  <2>1. OwnMove(p)
    BY <1>1, <1>2, Zenon DEF OwnMove, Making
  <2> QED
    BY <2>1, OwnStep, Zenon
<1>5. NoMissedExit'
  <2>1. \A q \in Slots : WaitKids(q)' = WaitKids(q) /\ ThreadsOf(q)' = ThreadsOf(q)
    BY <1>1, Zenon DEF WaitKids, ThreadsOf, Children
  <2>2. \A s \in Slots : state'[s] = "ZOMBIE" => state[s] = "ZOMBIE"
    BY <1>2, Zenon
  <2>3. \A q \in Slots : WaitKids(q) \subseteq Slots /\ ThreadsOf(q) \subseteq Slots
    BY Zenon DEF WaitKids, ThreadsOf, Children
  <2> SUFFICES ASSUME NEW q \in Slots, state'[q] = "SLEEPING"
               PROVE  \A s \in IF at'[q] = "wait" THEN WaitKids(q) ELSE ThreadsOf(q) :
                          state'[s] # "ZOMBIE"
    BY <2>1, Zenon DEF NoMissedExit
  <2>4. CASE q = p
    BY <2>4, <1>2, <2>2, <2>3, Zenon
  <2>5. CASE q # p
    BY <2>5, <1>2, <2>2, <2>3, Zenon DEF IInv, NoMissedExit
  <2> QED
    BY <2>4, <2>5, Zenon
<1>6. DirsInv' /\ ThreadsInv'
  BY <1>1, <1>4, Zenon DEF IInv, DirsInv, ThreadsInv, Disciplined, Avoid
<1>7. OwnersInv'
  <2>1. \A s \in Slots : (Owns(s)' <=> Owns(s)) /\ (at'[s] = "grow" <=> at[s] = "grow")
    BY <1>1, <1>2, <1>4, Zenon DEF Owns
  <2>2. Avoid({"nested"}) =>
          /\ \A s \in Slots : parent'[s] \in Slots => ~stack'[parent'[s]]
          /\ \A s \in Slots : Making(s)' \/ at'[s] = "grow" => ~stack'[s]
          /\ panic' # "memory"
    BY <1>1, <1>4, <2>1, OwnersCall, Zenon
  <2> QED
    BY <1>1, <2>1, <2>2, OwnersFrame, Zenon DEF IInv
<1> QED
  BY <1>3, <1>4, <1>5, <1>6, <1>7, Zenon DEF IInv

-----------------------------------------------------------------------------
\* A zombie child given back by wait or join is nobody's parent, and nobody sleeps for it.
LEMMA FreeKeeps ==
    ASSUME IInv, NEW p \in Slots, NEW s \in Slots,
           state[p] = "RUNNABLE", at[p] \in {"wait", "join", "user"},
           parent[s] = p, state[s] = "ZOMBIE",
           FreeSlot(s), at' = [at EXCEPT ![p] = "user"],
           np' \in [Slots -> Slots \cup {None}], \A q \in Slots \ {p} : np'[q] = np[q],
           UNCHANGED <<stack, pgdir, sz, newsz, panic, program>>,
           live' \subseteq Dirs, pages' \in [Dirs -> SUBSET (0 .. MaxPages - 1)]
    PROVE  /\ TypeOK' /\ TableInv' /\ InitInv' /\ MakingInv' /\ NoMissedExit'
           /\ WaitingInv' /\ ThreadsInv'
           /\ s # initproc /\ s # p
           /\ \A t \in Slots : parent[t] # s
           /\ \A t \in Slots \ {s} : parent'[t] = parent[t]
           /\ \A t \in Slots : /\ InTable(t)' <=> InTable(t) /\ t # s
                               /\ Making(t)' <=> Making(t)
                               /\ at'[t] = "grow" <=> at[t] = "grow"
<1>2. s # p /\ s # initproc /\ \A t \in Slots : parent[t] # s
  BY SlotFacts, Zenon DEF IInv, TableInv, InitInv, Alive
<1>3. /\ state'[s] = "UNUSED" /\ parent'[s] = None /\ killed'[s] = FALSE /\ at'[p] = "user"
      /\ \A t \in Slots \ {s} : /\ state'[t] = state[t] /\ parent'[t] = parent[t]
                                /\ killed'[t] = killed[t]
      /\ \A t \in Slots \ {p} : at'[t] = at[t]
  BY Zenon DEF IInv, TypeOK, FreeSlot
<1>4. at[s] = "user"
  BY Zenon DEF IInv, TableInv
<1>5. TypeOK'
  <2>1. /\ state' \in [Slots -> {"UNUSED", "EMBRYO", "SLEEPING", "RUNNABLE", "ZOMBIE"}]
        /\ parent' \in [Slots -> Slots \cup {None}]
        /\ killed' \in [Slots -> BOOLEAN]
        /\ at' \in [Slots -> {"user", "fork", "clone", "wait", "join", "grow"}]
    BY Zenon DEF IInv, TypeOK, FreeSlot
  <2>2. \A q \in Slots : at'[q] \in {"fork", "clone"} => np'[q] \in Slots
    BY <1>3 DEF IInv, TypeOK
  <2> QED
    BY <2>1, <2>2, Zenon DEF IInv, TypeOK
<1>6. \A t \in Slots : /\ InTable(t)' <=> InTable(t) /\ t # s
                       /\ Making(t)' <=> Making(t)
                       /\ at'[t] = "grow" <=> at[t] = "grow"
  BY <1>3, Zenon DEF InTable, Making
<1>7. TableInv' /\ InitInv'
  <2>1. InitInv'
    BY <1>2, <1>3, SlotFacts, Zenon DEF IInv, InitInv, Alive
  <2>2. \A t \in Slots : parent'[t] \in Slots =>
            parent'[t] # t /\ state'[parent'[t]] \in {"RUNNABLE", "SLEEPING"}
    <3> SUFFICES ASSUME NEW t \in Slots, parent'[t] \in Slots
                 PROVE  parent'[t] # t /\ state'[parent'[t]] \in {"RUNNABLE", "SLEEPING"}
      BY Zenon
    <3>1. t # s /\ parent'[t] = parent[t] /\ parent[t] # s
      BY <1>2, <1>3, SlotFacts, Zenon
    <3>2. parent[t] # t /\ state[parent[t]] \in {"RUNNABLE", "SLEEPING"}
      BY <3>1, Zenon DEF IInv, TableInv, Alive
    <3> QED
      BY <1>3, <3>1, <3>2
  <2>3. \A t \in Slots : t # initproc /\ InTable(t)' => parent'[t] \in Slots
    BY <1>3, <1>6 DEF IInv, TableInv
  <2>4. \A t \in Slots :
          /\ state'[t] \in {"UNUSED", "EMBRYO", "ZOMBIE"} => at'[t] = "user"
          /\ state'[t] = "SLEEPING" => at'[t] \in {"wait", "join"}
          /\ state'[t] = "UNUSED" => parent'[t] = None
    BY <1>2, <1>3, <1>4 DEF IInv, TableInv
  <2> QED
    BY <2>1, <2>2, <2>3, <2>4, Zenon DEF TableInv, Alive
<1>8. ~Making(p)
  BY Zenon DEF Making
<1>9. MakingInv'
  <2> SUFFICES ASSUME NEW q \in Slots, Making(q), q # p
               PROVE  /\ state'[np'[q]] = "EMBRYO" /\ parent'[np'[q]] = None
                      /\ ~stack'[np'[q]]
                      /\ \A r \in Slots \ {q} : Making(r)' => np'[r] # np'[q]
    BY <1>6, <1>8 DEF MakingInv
  <2>1. np[q] \in Slots /\ state[np[q]] = "EMBRYO" /\ parent[np[q]] = None /\ ~stack[np[q]]
    BY MakingFacts, Zenon
  <2> QED
    BY <1>3, <1>6, <1>8, <2>1 DEF IInv, MakingInv
<1>10. NoMissedExit'
  BY <1>2, <1>3, SlotFacts DEF IInv, NoMissedExit, WaitKids, ThreadsOf, Children
<1>11. WaitingInv'
  <2>1. \A q \in Slots : state'[q] = "SLEEPING" => state[q] = "SLEEPING" /\ q # p /\ at'[q] = at[q]
    BY <1>2, <1>3
  <2>2. \A q \in Slots : \A t \in Children(q) : q # p => t \in Children(q)' /\ t # s
    BY <1>3, Zenon DEF Children
  <2>3. \A t \in Slots : state'[t] = "EMBRYO" => state[t] = "EMBRYO" /\ parent'[t] = parent[t]
    BY <1>3, Zenon
  <2>4. \A q \in Slots : Children(q) \subseteq Slots
    BY Zenon DEF Children
  <2> QED
    BY <1>6, <2>1, <2>2, <2>3, <2>4 DEF IInv, WaitingInv, Avoid
<1>12. ThreadsInv'
  BY <1>2, <1>3, <1>6 DEF IInv, ThreadsInv, Disciplined, Avoid
<1> QED
  BY <1>2, <1>3, <1>5, <1>6, <1>7, <1>9, <1>10, <1>11, <1>12, Zenon

\* wait frees an owner and its memory.
LEMMA WaitStep ==
    ASSUME IInv, NEW p \in Slots, wait(p), UNCHANGED program
    PROVE  IInv'
<1> DEFINE zombies == {t \in WaitKids(p) : state[t] = "ZOMBIE"}
<1>1. state[p] = "RUNNABLE" /\ at[p] \in {"wait", "user"} /\ Up
  BY Zenon DEF wait, Scans
<1>2. CASE zombies = {}
  <2>1. GiveUpOrSleep(p, "wait", WaitKids(p)) /\ \A t \in WaitKids(p) : state[t] # "ZOMBIE"
    BY <1>2, Zenon DEF wait
  <2> QED
    BY <1>1, <2>1, ScanEndsStep, Zenon
<1>3. CASE zombies # {}
  <2>0. PICK s \in zombies :
            /\ FreeSlot(s) /\ np' = [np EXCEPT ![p] = IF s = np[p] THEN None ELSE np[p]]
            /\ live' = live \ {pgdir[s]} /\ pages' = [pages EXCEPT ![pgdir[s]] = {}]
    BY <1>3, Zenon DEF wait
  <2>1. s \in Slots /\ parent[s] = p /\ ~stack[s] /\ state[s] = "ZOMBIE"
    BY Zenon DEF WaitKids, Children
  <2>2. /\ FreeSlot(s) /\ at' = [at EXCEPT ![p] = "user"]
        /\ np' = [np EXCEPT ![p] = IF s = np[p] THEN None ELSE np[p]]
        /\ live' = live \ {pgdir[s]} /\ pages' = [pages EXCEPT ![pgdir[s]] = {}]
        /\ UNCHANGED <<stack, pgdir, sz, newsz, panic>>
    BY <1>3, <2>0, Zenon DEF wait
  <2> HIDE DEF zombies
  <2>3. /\ np' \in [Slots -> Slots \cup {None}] /\ \A q \in Slots \ {p} : np'[q] = np[q]
        /\ live' \subseteq Dirs /\ pages' \in [Dirs -> SUBSET (0 .. MaxPages - 1)]
    <3>1. np' \in [Slots -> Slots \cup {None}] /\ \A q \in Slots \ {p} : np'[q] = np[q]
      BY <2>2, Zenon DEF IInv, TypeOK
    <3> QED
      BY <2>2, <3>1, Zenon DEF IInv, TypeOK
  <2>4. /\ TypeOK' /\ TableInv' /\ InitInv' /\ MakingInv' /\ NoMissedExit'
        /\ WaitingInv' /\ ThreadsInv'
        /\ s # initproc /\ s # p
        /\ \A t \in Slots : parent[t] # s
        /\ \A t \in Slots \ {s} : parent'[t] = parent[t]
        /\ \A t \in Slots : /\ InTable(t)' <=> InTable(t) /\ t # s
                            /\ Making(t)' <=> Making(t)
                            /\ at'[t] = "grow" <=> at[t] = "grow"
    BY <1>1, <2>1, <2>2, <2>3, FreeKeeps, Zenon
  <2>5. DirsInv'
    BY <2>2, <2>4, Zenon DEF IInv, DirsInv
  <2>6. OwnersInv'
    <3> SUFFICES ASSUME Avoid({"nested"})' PROVE OwnersInv'
      BY Zenon DEF OwnersInv
    <3>1. Avoid({"nested"})
      BY Zenon DEF Avoid
    <3>2. Owns(s) /\ \A t \in Slots : Owns(t)' <=> Owns(t) /\ t # s
      BY <2>1, <2>2, <2>4, Zenon DEF Owns, InTable
    <3>3. \A t \in Slots \ {s} : Owns(t) =>
              pgdir[t] # pgdir[s] /\ pgdir[t] \in Dirs /\ pages'[pgdir[t]] = pages[pgdir[t]]
      <4>1. \A t \in Slots \ {s} : Owns(t) => pgdir[t] # pgdir[s] /\ pgdir[t] \in Dirs
        <5>1. \A t \in Slots : Owns(t) => pgdir[t] \in live
          BY <3>1, Zenon DEF IInv, OwnersInv
        <5> QED
          BY <5>1, <2>1, <3>1, <3>2, OwnersDiffer, Zenon DEF IInv, TypeOK
      <4> QED
        BY <4>1, <2>2, Zenon DEF IInv, TypeOK
    <3>4. \A e \in live' : \E t \in Slots : Owns(t)' /\ pgdir'[t] = e
      BY <2>2, <3>1, <3>2, Zenon DEF IInv, OwnersInv
    <3>5. \A t \in Slots : Owns(t)' =>
              /\ pgdir'[t] \in live'
              /\ sz'[t] > 0
              /\ pages'[pgdir'[t]] = 0 .. (IF at'[t] = "grow" THEN newsz'[t] ELSE sz'[t]) - 1
              /\ at'[t] = "grow" => newsz'[t] > 0
      <4> SUFFICES ASSUME NEW t \in Slots, Owns(t), t # s
                   PROVE  /\ pgdir'[t] \in live'
                          /\ sz'[t] > 0
                          /\ pages'[pgdir'[t]] =
                                0 .. (IF at'[t] = "grow" THEN newsz'[t] ELSE sz'[t]) - 1
                          /\ at'[t] = "grow" => newsz'[t] > 0
        BY <3>2, Zenon
      <4>1. /\ pgdir[t] \in live
            /\ sz[t] > 0
            /\ pages[pgdir[t]] = 0 .. (IF at[t] = "grow" THEN newsz[t] ELSE sz[t]) - 1
            /\ at[t] = "grow" => newsz[t] > 0
        BY <3>1, Zenon DEF IInv, OwnersInv
      <4> QED
        BY <4>1, <2>2, <2>4, <3>3, Zenon
    <3>6. \A t, u \in Slots : Owns(t)' /\ Owns(u)' /\ pgdir'[t] = pgdir'[u] => t = u
      BY <2>2, <3>1, <3>2, OwnersDiffer, Zenon
    <3>7. \A t \in Slots : parent'[t] \in Slots => ~stack'[parent'[t]]
      <4>1. parent'[s] = None
        BY <2>1, <2>2, Zenon DEF FreeSlot, IInv, TypeOK
      <4> QED
        BY <4>1, <2>2, <2>4, <3>1, SlotFacts, OwnersCall, Zenon
    <3>8. /\ \A t \in Slots : Making(t)' \/ at'[t] = "grow" => ~stack'[t]
          /\ panic' # "memory"
      BY <2>2, <2>4, <3>1, OwnersCall, Zenon
    <3> QED
      BY <3>4, <3>5, <3>6, <3>7, <3>8, Zenon DEF OwnersInv
  <2> QED
    BY <2>4, <2>5, <2>6, Zenon DEF IInv
<1> QED
  BY <1>2, <1>3, Zenon

\* join frees a thread, whose memory belongs to the process that joins it.
LEMMA JoinStep ==
    ASSUME IInv, NEW p \in Slots, join(p), UNCHANGED program
    PROVE  IInv'
<1> DEFINE zombies == {t \in ThreadsOf(p) : state[t] = "ZOMBIE"}
<1>1. state[p] = "RUNNABLE" /\ at[p] \in {"join", "user"} /\ Up
  BY Zenon DEF join, Scans
<1>2. CASE zombies = {}
  <2>1. GiveUpOrSleep(p, "join", ThreadsOf(p)) /\ \A t \in ThreadsOf(p) : state[t] # "ZOMBIE"
    BY <1>2, Zenon DEF join
  <2> QED
    BY <1>1, <2>1, ScanEndsStep, Zenon
<1>3. CASE zombies # {}
  <2>0. PICK s \in zombies : FreeSlot(s)
    BY <1>3, Zenon DEF join
  <2>1. s \in Slots /\ parent[s] = p /\ pgdir[s] = pgdir[p] /\ state[s] = "ZOMBIE"
    BY Zenon DEF ThreadsOf, Children
  <2>2. /\ FreeSlot(s) /\ at' = [at EXCEPT ![p] = "user"]
        /\ UNCHANGED <<stack, pgdir, sz, np, newsz, live, pages, panic>>
    BY <1>3, <2>0, Zenon DEF join, memVars
  <2> HIDE DEF zombies
  <2>3. /\ np' \in [Slots -> Slots \cup {None}] /\ \A q \in Slots \ {p} : np'[q] = np[q]
        /\ live' \subseteq Dirs /\ pages' \in [Dirs -> SUBSET (0 .. MaxPages - 1)]
    BY <2>2, Zenon DEF IInv, TypeOK
  <2>4. /\ TypeOK' /\ TableInv' /\ InitInv' /\ MakingInv' /\ NoMissedExit'
        /\ WaitingInv' /\ ThreadsInv'
        /\ s # initproc /\ s # p
        /\ \A t \in Slots : parent[t] # s
        /\ \A t \in Slots \ {s} : parent'[t] = parent[t]
        /\ \A t \in Slots : /\ InTable(t)' <=> InTable(t) /\ t # s
                            /\ Making(t)' <=> Making(t)
                            /\ at'[t] = "grow" <=> at[t] = "grow"
    BY <1>1, <2>1, <2>2, <2>3, FreeKeeps, Zenon
  <2>5. InTable(p)
    BY <1>1, Zenon DEF InTable
  <2>6. DirsInv'
    BY <2>1, <2>2, <2>4, <2>5 DEF IInv, DirsInv
  <2>7. OwnersInv'
    <3>1. Avoid({"nested"}) => Owns(p) /\ ~Owns(s)
      BY <2>1, <2>4, <2>5, Zenon DEF IInv, OwnersInv, Owns
    <3>2. Avoid({"nested"}) => \A t \in Slots : Owns(t)' <=> Owns(t)
      BY <2>2, <2>4, <3>1, Zenon DEF Owns
    <3>3. parent'[s] = None
      BY <2>1, <2>2, Zenon DEF FreeSlot, IInv, TypeOK
    <3>4. Avoid({"nested"}) =>
            /\ \A t \in Slots : parent'[t] \in Slots => ~stack'[parent'[t]]
            /\ \A t \in Slots : Making(t)' \/ at'[t] = "grow" => ~stack'[t]
            /\ panic' # "memory"
      BY <2>2, <2>4, <3>3, SlotFacts, OwnersCall, Zenon
    <3> QED
      BY <2>2, <2>4, <3>2, <3>4, OwnersFrame, Zenon DEF IInv
  <2> QED
    BY <2>4, <2>6, <2>7, Zenon DEF IInv
<1> QED
  BY <1>2, <1>3, Zenon

\* kill marks a process and wakes it.
LEMMA KillStep ==
    ASSUME IInv, NEW p \in Slots, NEW s \in Slots, kill(p, s), UNCHANGED program
    PROVE  IInv'
<1>1. /\ "kill" \in program.does /\ s # initproc
      /\ killed' = [killed EXCEPT ![s] = TRUE] /\ state' = wakeup1(state, {s})
      /\ UNCHANGED <<parent, stack, pgdir, sz, at, np, newsz, live, pages, panic>>
  BY Zenon DEF kill, callVars, memVars
<1>2. /\ \A t \in Slots : state'[t] = IF t = s /\ state[t] = "SLEEPING" THEN "RUNNABLE"
                                      ELSE state[t]
      /\ \A t \in Slots \ {s} : killed'[t] = killed[t]
  BY <1>1, Zenon DEF wakeup1, IInv, TypeOK
<1>3. TypeOK'
  <2>1. state' \in [Slots -> {"UNUSED", "EMBRYO", "SLEEPING", "RUNNABLE", "ZOMBIE"}]
    BY <1>1, Zenon DEF wakeup1, IInv, TypeOK
  <2>2. killed' \in [Slots -> BOOLEAN]
    BY <1>1, Zenon DEF IInv, TypeOK
  <2> QED
    BY <1>1, <2>1, <2>2, Zenon DEF IInv, TypeOK
<1>4. \A t \in Slots : /\ InTable(t)' <=> InTable(t)
                       /\ Alive(t)' <=> Alive(t)
                       /\ Making(t)' <=> Making(t)
  BY <1>1, <1>2, Zenon DEF InTable, Alive, Making
<1>5. TableInv'
  BY <1>1, <1>2, <1>4 DEF IInv, TableInv, Alive
<1>6. InitInv'
  BY <1>1, <1>2, <1>4, SlotFacts, Zenon DEF IInv, InitInv
<1>7. MakingInv'
  <2> SUFFICES ASSUME NEW q \in Slots, Making(q)
               PROVE  /\ state'[np[q]] = "EMBRYO" /\ parent[np[q]] = None /\ ~stack[np[q]]
                      /\ \A r \in Slots \ {q} : Making(r) => np[r] # np[q]
    BY <1>1, <1>4, Zenon DEF MakingInv
  <2>1. np[q] \in Slots /\ state[np[q]] = "EMBRYO" /\ parent[np[q]] = None /\ ~stack[np[q]]
    BY MakingFacts, Zenon
  <2> QED
    BY <1>2, <2>1, Zenon DEF IInv, MakingInv
<1>8. NoMissedExit'
  BY <1>1, <1>2 DEF IInv, NoMissedExit, WaitKids, ThreadsOf, Children
<1>9. WaitingInv'
  BY <1>1, <1>2, <1>4, Zenon DEF IInv, WaitingInv, Children, Avoid
<1>10. DirsInv' /\ ThreadsInv'
  BY <1>1, <1>4, Zenon DEF IInv, DirsInv, ThreadsInv, Disciplined, Avoid
<1>11. OwnersInv'
  <2>1. \A t \in Slots : Owns(t)' <=> Owns(t)
    BY <1>1, <1>4, Zenon DEF Owns
  <2> QED
    BY <1>1, <1>4, <2>1, OwnersFrame, Zenon DEF IInv, OwnersInv
<1> QED
  BY <1>3, <1>5, <1>6, <1>7, <1>8, <1>9, <1>10, <1>11, Zenon DEF IInv

\* The first half of growproc: an owner's pages are the ones below its size, so that
\* mappages finds the next one free.
LEMMA GrowStartStep ==
    ASSUME IInv, NEW p \in Slots, NEW n \in {1, -1}, GrowStart(p, n), UNCHANGED program
    PROVE  IInv'
<1> DEFINE d == pgdir[p]
<1>1. /\ state[p] = "RUNNABLE" /\ at[p] = "user" /\ Nested(p) /\ panic = "none"
      /\ sz[p] + n \in 1 .. MaxPages
  BY Zenon DEF GrowStart, Calls, AtUser, Up
<1>2. Avoid({"nested"}) =>
          Owns(p) /\ pages[d] = 0 .. sz[p] - 1 /\ sz[p] > 0 /\ ~stack[p] /\ d \in live
  BY <1>1, Zenon DEF IInv, OwnersInv, Owns, InTable, Nested, Avoid
<1>3. CASE n > 0 /\ sz[p] \in pages[d]
  <2>1. UNCHANGED <<state, parent, killed, stack, pgdir, sz, at, np, newsz, live, pages>>
        /\ panic' = "memory"
    BY <1>3, Zenon DEF GrowStart, procVars, callVars, memVars
  <2>2. sz[p] \notin 0 .. sz[p] - 1
    BY DEF IInv, TypeOK
  <2> QED
    BY <1>2, <1>3, <2>1, <2>2, FrozenStep, Zenon
<1>4. CASE ~(n > 0 /\ sz[p] \in pages[d])
  <2>1. /\ pages' = [pages EXCEPT ![d] = IF n > 0 THEN pages[d] \cup {sz[p]}
                                         ELSE pages[d] \ {sz[p] - 1}]
        /\ newsz' = [newsz EXCEPT ![p] = sz[p] + n]
        /\ at' = [at EXCEPT ![p] = "grow"]
        /\ UNCHANGED <<state, parent, killed, stack, pgdir, sz, np, live, panic>>
    BY <1>4, Zenon DEF GrowStart, procVars
  <2> HIDE DEF d
  <2>2. /\ \A e \in Dirs \ {d} : pages'[e] = pages[e]
        /\ newsz'[p] = sz[p] + n /\ \A s \in Slots \ {p} : newsz'[s] = newsz[s]
        /\ at'[p] = "grow" /\ \A s \in Slots \ {p} : at'[s] = at[s]
    BY <2>1, Zenon DEF IInv, TypeOK
  <2>3. TypeOK'
    <3>1. newsz' \in [Slots -> 0 .. MaxPages]
      BY <1>1, <2>1 DEF IInv, TypeOK
    <3>2. at' \in [Slots -> {"user", "fork", "clone", "wait", "join", "grow"}]
          /\ \A q \in Slots : at'[q] \in {"fork", "clone"} => np'[q] \in Slots
      BY <2>1, <2>2, Zenon DEF IInv, TypeOK
    <3>3. d \in Dirs => pages'[d] \in SUBSET (0 .. MaxPages - 1)
      <4>1. n > 0 => sz[p] \in 0 .. MaxPages - 1
        BY <1>1, SlotFacts DEF IInv, TypeOK
      <4> QED
        BY <4>1, <2>1, Zenon DEF IInv, TypeOK
    <3>4. pages' \in [Dirs -> SUBSET (0 .. MaxPages - 1)]
      <4>1. \A e \in Dirs : pages'[e] \in SUBSET (0 .. MaxPages - 1)
        BY <2>2, <3>3, Zenon DEF IInv, TypeOK
      <4>2. pages' = [e \in Dirs |-> pages'[e]]
        BY <2>1, Zenon DEF IInv, TypeOK
      <4> QED
        BY <4>1, <4>2, Zenon
    <3> QED
      BY <2>1, <3>1, <3>2, <3>4, Zenon DEF IInv, TypeOK
  <2>4. /\ TableInv' /\ InitInv' /\ MakingInv' /\ WaitingInv'
        /\ \A s \in Slots : (InTable(s)' <=> InTable(s)) /\ (Making(s)' <=> Making(s))
    <3>1. OwnMove(p)
      BY <1>1, <2>1, <2>2, Zenon DEF OwnMove, Making
    <3> QED
      BY <3>1, OwnStep, Zenon
  <2>7. NoMissedExit'
    BY <1>1, <2>1, <2>2 DEF IInv, NoMissedExit, WaitKids, ThreadsOf, Children
  <2>9. DirsInv' /\ ThreadsInv'
    BY <2>1, <2>4, Zenon DEF IInv, DirsInv, ThreadsInv, Disciplined, Avoid
  <2>10. OwnersInv'
    <3> SUFFICES ASSUME Avoid({"nested"})' PROVE OwnersInv'
      BY Zenon DEF OwnersInv
    <3>1. Avoid({"nested"})
      BY Zenon DEF Avoid
    <3>2. Owns(p) /\ ~stack[p] /\ \A s \in Slots : Owns(s)' <=> Owns(s)
      BY <1>2, <2>1, <2>4, <3>1, Zenon DEF Owns
    <3>3. pages'[d] = 0 .. newsz'[p] - 1 /\ newsz'[p] > 0
      <4>1. d \in Dirs /\ sz[p] \in Nat /\ sz[p] > 0 /\ pages[d] = 0 .. sz[p] - 1
        BY <1>2, <3>1 DEF IInv, TypeOK
      <4>2. CASE n = 1
        <5>1. pages'[d] = 0 .. sz[p] - 1 \cup {sz[p]} /\ newsz'[p] = sz[p] + 1
          BY <4>1, <4>2, <2>1, <2>2 DEF IInv, TypeOK
        <5> QED
          BY <4>1, <5>1
      <4>3. CASE n = -1
        <5>1. pages'[d] = (0 .. sz[p] - 1) \ {sz[p] - 1} /\ newsz'[p] = sz[p] - 1
          BY <4>1, <4>3, <2>1, <2>2 DEF IInv, TypeOK
        <5>2. newsz'[p] > 0
          BY <1>1, <4>1, <4>3, <5>1
        <5> QED
          BY <4>1, <5>1, <5>2
      <4> QED
        BY <4>2, <4>3, Zenon
    <3>4. \A s \in Slots \ {p} : Owns(s) => pgdir[s] # d /\ pages'[pgdir[s]] = pages[pgdir[s]]
      BY <2>2, <3>1, <3>2, Zenon DEF IInv, TypeOK, OwnersInv, d
    <3>5. \A s \in Slots : Owns(s)' =>
              /\ pgdir'[s] \in live'
              /\ sz'[s] > 0
              /\ pages'[pgdir'[s]] = 0 .. (IF at'[s] = "grow" THEN newsz'[s] ELSE sz'[s]) - 1
              /\ at'[s] = "grow" => newsz'[s] > 0
      <4>1. pgdir'[p] \in live' /\ sz'[p] > 0 /\ pgdir'[p] = d
        BY <1>2, <2>1, <3>1, Zenon DEF d
      <4>2. ASSUME NEW s \in Slots, Owns(s), s # p
            PROVE  /\ pgdir'[s] \in live'
                   /\ sz'[s] > 0
                   /\ pages'[pgdir'[s]] = 0 .. (IF at'[s] = "grow" THEN newsz'[s] ELSE sz'[s]) - 1
                   /\ at'[s] = "grow" => newsz'[s] > 0
        BY <4>2, <2>1, <2>2, <3>1, <3>4 DEF IInv, OwnersInv
      <4> QED
        BY <4>1, <4>2, <2>2, <3>2, <3>3, Zenon
    <3>6. /\ \A e \in live' : \E s \in Slots : Owns(s)' /\ pgdir'[s] = e
          /\ \A s, t \in Slots : Owns(s)' /\ Owns(t)' /\ pgdir'[s] = pgdir'[t] => s = t
      BY <2>1, <3>1, <3>2, Zenon DEF IInv, OwnersInv
    <3>7. /\ \A s \in Slots : parent'[s] \in Slots => ~stack'[parent'[s]]
          /\ \A s \in Slots : Making(s)' \/ at'[s] = "grow" => ~stack'[s]
          /\ panic' # "memory"
      BY <1>1, <2>1, <2>2, <2>4, <3>1, <3>2, OwnersCall, Zenon
    <3> QED
      BY <3>5, <3>6, <3>7, Zenon DEF OwnersInv
  <2> QED
    BY <2>3, <2>4, <2>7, <2>9, <2>10, Zenon DEF IInv
<1> QED
  BY <1>3, <1>4, Zenon

\* The second half of growproc: the threads of an owner own nothing, and get its size.
LEMMA GrowFinishStep ==
    ASSUME IInv, NEW p \in Slots, GrowFinish(p), UNCHANGED program
    PROVE  IInv'
<1>1. at[p] = "grow" /\ panic = "none" /\ state[p] = "RUNNABLE"
  BY Zenon DEF GrowFinish, Up, IInv, TableInv, TypeOK
<1>2. /\ sz' = [s \in Slots |-> IF s = p \/ s \in ThreadsOf(p) THEN newsz[p] ELSE sz[s]]
      /\ at' = [at EXCEPT ![p] = "user"] /\ newsz' = [newsz EXCEPT ![p] = 0]
      /\ UNCHANGED <<state, parent, killed, stack, pgdir, np, live, pages, panic>>
  BY Zenon DEF GrowFinish, memVars
<1>3. /\ at'[p] = "user" /\ \A s \in Slots \ {p} : at'[s] = at[s] /\ newsz'[s] = newsz[s]
      /\ sz'[p] = newsz[p]
      /\ \A s \in Slots : s \in ThreadsOf(p) => sz'[s] = newsz[p]
      /\ \A s \in Slots \ {p} : s \notin ThreadsOf(p) => sz'[s] = sz[s]
  BY <1>2, Zenon DEF IInv, TypeOK
<1>4. TypeOK'
  <2>1. sz' \in [Slots -> 0 .. MaxPages]
    BY <1>2, Zenon DEF IInv, TypeOK
  <2>2. newsz' \in [Slots -> 0 .. MaxPages]
    BY <1>2, SlotFacts DEF IInv, TypeOK
  <2> QED
    BY <1>2, <1>3, <2>1, <2>2, Zenon DEF IInv, TypeOK
<1>5. /\ TableInv' /\ InitInv' /\ MakingInv' /\ WaitingInv'
      /\ \A s \in Slots : (InTable(s)' <=> InTable(s)) /\ (Making(s)' <=> Making(s))
  <2>1. OwnMove(p)
    BY <1>1, <1>2, <1>3, Zenon DEF OwnMove, Making
  <2> QED
    BY <2>1, OwnStep, Zenon
<1>8. NoMissedExit'
  BY <1>1, <1>2, <1>3 DEF IInv, NoMissedExit, WaitKids, ThreadsOf, Children
<1>10. DirsInv'
  BY <1>2, <1>5, Zenon DEF IInv, DirsInv
<1>11. Avoid({"nested"}) => Owns(p) /\ \A s \in ThreadsOf(p) : ~Owns(s)
  <2>1. Avoid({"nested"}) => Owns(p)
    BY <1>1, OwnersCall, Zenon DEF Owns, InTable
  <2>2. \A s \in ThreadsOf(p) : s \in Slots \ {p} /\ pgdir[s] = pgdir[p]
    BY Zenon DEF IInv, TableInv, ThreadsOf, Children
  <2> QED
    BY <2>1, <2>2, OwnersDiffer, Zenon
<1>12. ThreadsInv'
  <2> SUFFICES ASSUME Disciplined, NEW s \in Slots, InTable(s), stack[s]
               PROVE  sz'[s] = sz'[parent[s]]
    BY <1>2, <1>5, Zenon DEF IInv, ThreadsInv, Disciplined, Avoid
  <2>1. Avoid({"nested"}) /\ s # p
    BY <1>11, Zenon DEF Disciplined, Avoid, Owns
  <2>2. pgdir[s] = pgdir[parent[s]] /\ sz[s] = sz[parent[s]]
    BY Zenon DEF IInv, ThreadsInv
  <2>3. parent[s] \in Slots /\ Owns(parent[s])
    <3>1. parent[s] \in Slots /\ Alive(parent[s])
      BY Zenon DEF IInv, TableInv, InitInv
    <3> QED
      BY <2>1, <3>1, OwnersCall, Zenon DEF Owns, InTable, Alive
  <2>4. CASE parent[s] = p
    BY <2>4, <2>2, <1>3, Zenon DEF ThreadsOf, Children
  <2>5. CASE parent[s] # p
    BY <2>1, <2>2, <2>3, <2>5, <1>3, <1>11, Zenon DEF ThreadsOf, Children
  <2> QED
    BY <2>4, <2>5, Zenon
<1>13. OwnersInv'
  <2> SUFFICES ASSUME Avoid({"nested"})' PROVE OwnersInv'
    BY Zenon DEF OwnersInv
  <2>1. Avoid({"nested"})
    BY Zenon DEF Avoid
  <2>2. \A s \in Slots : Owns(s)' <=> Owns(s)
    BY <1>2, <1>5, Zenon DEF Owns
  <2>3. \A s \in Slots : Owns(s)' =>
            /\ pgdir'[s] \in live'
            /\ sz'[s] > 0
            /\ pages'[pgdir'[s]] = 0 .. (IF at'[s] = "grow" THEN newsz'[s] ELSE sz'[s]) - 1
            /\ at'[s] = "grow" => newsz'[s] > 0
    <3> SUFFICES ASSUME NEW s \in Slots, Owns(s)
                 PROVE  /\ pgdir'[s] \in live'
                        /\ sz'[s] > 0
                        /\ pages'[pgdir'[s]] =
                              0 .. (IF at'[s] = "grow" THEN newsz'[s] ELSE sz'[s]) - 1
                        /\ at'[s] = "grow" => newsz'[s] > 0
      BY <2>2, Zenon
    <3>1. CASE s = p
      BY <3>1, <1>1, <1>2, <1>3, <2>1, Zenon DEF IInv, OwnersInv
    <3>2. CASE s # p
      BY <3>2, <1>2, <1>3, <1>11, <2>1 DEF IInv, OwnersInv
    <3> QED
      BY <3>1, <3>2, Zenon
  <2>4. /\ \A e \in live' : \E s \in Slots : Owns(s)' /\ pgdir'[s] = e
        /\ \A s, t \in Slots : Owns(s)' /\ Owns(t)' /\ pgdir'[s] = pgdir'[t] => s = t
    BY <1>2, <2>1, <2>2, Zenon DEF IInv, OwnersInv
  <2>5. /\ \A s \in Slots : parent'[s] \in Slots => ~stack'[parent'[s]]
        /\ \A s \in Slots : Making(s)' \/ at'[s] = "grow" => ~stack'[s]
        /\ panic' # "memory"
    BY <1>1, <1>2, <1>3, <1>5, <2>1, OwnersCall, Zenon
  <2> QED
    BY <2>3, <2>4, <2>5, Zenon DEF OwnersInv
<1> QED
  BY <1>4, <1>5, <1>8, <1>10, <1>12, <1>13, Zenon DEF IInv

\* exec gives an owner another page directory; nobody else used the old one.
LEMMA ExecStep ==
    ASSUME IInv, NEW p \in Slots, exec(p), UNCHANGED program
    PROVE  IInv'
<1> DEFINE d == NewDir
<1>1. state[p] = "RUNNABLE" /\ at[p] = "user" /\ Nested(p) /\ Abandons(p) /\ panic = "none"
  BY Zenon DEF exec, Calls, AtUser, Up
<1>2. d \in Dirs /\ d \notin live
  BY NewDirFree, Zenon
<1>3. /\ live' = (live \cup {d}) \ {pgdir[p]}
      /\ pages' = [pages EXCEPT ![d] = {0}, ![pgdir[p]] = {}]
      /\ pgdir' = [pgdir EXCEPT ![p] = d] /\ sz' = [sz EXCEPT ![p] = 1]
      /\ UNCHANGED <<state, parent, killed, stack, at, np, newsz, panic>>
  BY Zenon DEF exec, callVars
<1> HIDE DEF d
<1>4. /\ \A e \in Dirs \ {d, pgdir[p]} : pages'[e] = pages[e]
      /\ d # pgdir[p] => pages'[d] = {0}
      /\ pgdir'[p] = d /\ sz'[p] = 1
      /\ \A s \in Slots \ {p} : pgdir'[s] = pgdir[s] /\ sz'[s] = sz[s]
  BY <1>2, <1>3, Zenon DEF IInv, TypeOK
<1>5. TypeOK'
  <2>1. sz' \in [Slots -> 0 .. MaxPages]
    BY <1>3, SlotFacts DEF IInv, TypeOK
  <2>2. pages' \in [Dirs -> SUBSET (0 .. MaxPages - 1)]
    <3>1. {0} \in SUBSET (0 .. MaxPages - 1) /\ {} \in SUBSET (0 .. MaxPages - 1)
      BY SlotFacts
    <3> QED
      BY <1>3, <3>1, Zenon DEF IInv, TypeOK
  <2> QED
    BY <1>2, <1>3, <2>1, <2>2, Zenon DEF IInv, TypeOK
<1>6. /\ TableInv' /\ InitInv' /\ MakingInv' /\ WaitingInv'
      /\ \A s \in Slots : (InTable(s)' <=> InTable(s)) /\ (Making(s)' <=> Making(s))
  <2>1. OwnMove(p)
    BY <1>1, <1>3, Zenon DEF OwnMove, Making
  <2> QED
    BY <2>1, OwnStep, Zenon
<1>9. NoMissedExit'
  BY <1>1, <1>3, <1>4 DEF IInv, NoMissedExit, WaitKids, ThreadsOf, Children
<1>11. DirsInv'
  <2>1. InTable(p)
    BY <1>1, Zenon DEF InTable
  <2> QED
    BY <1>3, <1>4, <1>6, <2>1 DEF IInv, DirsInv
<1>12. Avoid({"nested"}) => Owns(p) /\ pgdir[p] \in live /\ pgdir[p] # d /\ ~stack[p]
  BY <1>1, <1>2, Zenon DEF IInv, OwnersInv, Owns, InTable, Nested, Avoid
<1>13. ThreadsInv'
  <2> SUFFICES ASSUME Disciplined, NEW s \in Slots, InTable(s), stack[s]
               PROVE  s # p /\ parent[s] # p
    <3>1. \A s \in Slots : InTable(s) /\ stack[s] => parent[s] \in Slots
      BY Zenon DEF IInv, TableInv, InitInv
    <3> QED
      BY <1>3, <1>4, <1>6, <3>1 DEF IInv, ThreadsInv, Disciplined, Avoid
  <2>1. ThreadsOf(p) = {} /\ ~stack[p]
    BY <1>1, <1>12, Zenon DEF Disciplined, Avoid, Abandons
  <2> QED
    BY <2>1 DEF IInv, ThreadsInv, ThreadsOf, Children
<1>14. OwnersInv'
  <2> SUFFICES ASSUME Avoid({"nested"})' PROVE OwnersInv'
    BY Zenon DEF OwnersInv
  <2>1. Avoid({"nested"})
    BY Zenon DEF Avoid
  <2>2. Owns(p) /\ pgdir[p] # d /\ \A s \in Slots : Owns(s)' <=> Owns(s)
    BY <1>3, <1>6, <1>12, <2>1, Zenon DEF Owns
  <2>3. \A s \in Slots \ {p} : Owns(s) =>
            pgdir[s] \in live' /\ pgdir[s] # d /\ pages'[pgdir[s]] = pages[pgdir[s]]
    <3>1. \A s \in Slots \ {p} : Owns(s) => pgdir[s] \in live /\ pgdir[s] # d /\ pgdir[s] # pgdir[p]
      <4>1. \A s, t \in Slots : Owns(s) /\ Owns(t) /\ pgdir[s] = pgdir[t] => s = t
        BY <2>1, OwnersDiffer, Zenon
      <4>2. \A s \in Slots : Owns(s) => pgdir[s] \in live
        BY <2>1, Zenon DEF IInv, OwnersInv
      <4> QED
        BY <4>1, <4>2, <1>2, <2>2, Zenon
    <3> QED
      BY <1>3, <1>4, <3>1, Zenon DEF IInv, TypeOK
  <2>4. \A s \in Slots : Owns(s)' =>
            /\ pgdir'[s] \in live'
            /\ sz'[s] > 0
            /\ pages'[pgdir'[s]] = 0 .. (IF at'[s] = "grow" THEN newsz'[s] ELSE sz'[s]) - 1
            /\ at'[s] = "grow" => newsz'[s] > 0
    <3>1. 0 .. 1 - 1 = {0}
      OBVIOUS
    <3>2. /\ pgdir'[p] \in live' /\ sz'[p] = 1 /\ at'[p] # "grow" /\ pages'[pgdir'[p]] = {0}
      <4>1. d \in live'
        BY <1>3, <2>2, Zenon
      <4>2. at'[p] # "grow"
        BY <1>1, <1>3, Zenon
      <4> QED
        BY <1>4, <2>2, <4>1, <4>2, Zenon
    <3>3. ASSUME NEW s \in Slots, Owns(s), s # p
          PROVE  /\ pgdir'[s] \in live'
                 /\ sz'[s] > 0
                 /\ pages'[pgdir'[s]] = 0 .. (IF at'[s] = "grow" THEN newsz'[s] ELSE sz'[s]) - 1
                 /\ at'[s] = "grow" => newsz'[s] > 0
      <4>1. /\ pgdir'[s] = pgdir[s] /\ sz'[s] = sz[s] /\ newsz'[s] = newsz[s] /\ at'[s] = at[s]
            /\ pages'[pgdir[s]] = pages[pgdir[s]] /\ pgdir[s] \in live'
        BY <3>3, <1>3, <1>4, <2>3, Zenon
      <4> QED
        BY <3>3, <4>1, <2>1, Zenon DEF IInv, OwnersInv
    <3>4. (IF at'[p] = "grow" THEN newsz'[p] ELSE sz'[p]) - 1 = 1 - 1 /\ sz'[p] > 0
      BY <3>2
    <3> QED
      BY <3>1, <3>2, <3>3, <3>4, <2>2, Zenon
  <2>5. \A e \in live' : \E s \in Slots : Owns(s)' /\ pgdir'[s] = e
    <3>1. \A e \in live : \E s \in Slots : Owns(s) /\ pgdir[s] = e
      BY <2>1, Zenon DEF IInv, OwnersInv
    <3> QED
      BY <1>3, <1>4, <2>2, <3>1
  <2>6. \A s, t \in Slots : Owns(s)' /\ Owns(t)' /\ pgdir'[s] = pgdir'[t] => s = t
    <3>1. \A s, t \in Slots : Owns(s) /\ Owns(t) /\ pgdir[s] = pgdir[t] => s = t
      BY <2>1, OwnersDiffer, Zenon
    <3> QED
      BY <1>4, <2>2, <2>3, <3>1
  <2>7. /\ \A s \in Slots : parent'[s] \in Slots => ~stack'[parent'[s]]
        /\ \A s \in Slots : Making(s)' \/ at'[s] = "grow" => ~stack'[s]
        /\ panic' # "memory"
    BY <1>1, <1>3, <1>6, <2>1, OwnersCall, Zenon
  <2> QED
    BY <2>4, <2>5, <2>6, <2>7, Zenon DEF OwnersInv
<1> QED
  BY <1>5, <1>6, <1>9, <1>11, <1>13, <1>14, Zenon DEF IInv

-----------------------------------------------------------------------------
\* Every step keeps the invariant.
LEMMA StepIInv == IInv /\ [Next]_vars => IInv'
<1> SUFFICES ASSUME IInv, [Next]_vars PROVE IInv'
  BY Zenon
<1>1. CASE UNCHANGED vars
  <2>1. UNCHANGED <<state, parent, killed, stack, pgdir, sz, at, np, newsz, live, pages,
                    program, panic>>
    BY <1>1, Zenon DEF vars, procVars, callVars, memVars
  <2>2. panic' \in {"none", "memory", "init"} /\ (Avoid({"nested"}) => panic' # "memory")
    BY <2>1, OwnersCall, Zenon DEF IInv, TypeOK
  <2> QED
    BY <2>1, <2>2, FrozenStep, Zenon
<1>2. CASE InitForkFails /\ UNCHANGED program
  BY <1>2, InitForkFailsStep, Zenon
<1>3. ASSUME NEW p \in Slots, UNCHANGED program,
             \/ allocproc(p, "fork") \/ allocproc(p, "clone")
             \/ ForkFinish(p) \/ CloneFinish(p) \/ AllocFails(p)
             \/ exit(p) \/ wait(p) \/ join(p) \/ exec(p)
             \/ GrowStart(p, 1) \/ GrowStart(p, -1) \/ GrowFinish(p)
             \/ \E s \in Slots : kill(p, s)
      PROVE  IInv'
  <2>1. CASE allocproc(p, "fork")
    BY <1>3, <2>1, AllocStep, Zenon
  <2>2. CASE allocproc(p, "clone")
    BY <1>3, <2>2, AllocStep, Zenon
  <2>3. CASE ForkFinish(p)
    BY <1>3, <2>3, ForkStep, Zenon
  <2>4. CASE CloneFinish(p)
    BY <1>3, <2>4, CloneStep, Zenon
  <2>5. CASE AllocFails(p)
    BY <1>3, <2>5, AllocFailsStep, Zenon
  <2>6. CASE exit(p)
    BY <1>3, <2>6, ExitStep, Zenon
  <2>7. CASE wait(p)
    BY <1>3, <2>7, WaitStep, Zenon
  <2>8. CASE join(p)
    BY <1>3, <2>8, JoinStep, Zenon
  <2>9. CASE exec(p)
    BY <1>3, <2>9, ExecStep, Zenon
  <2>10. CASE GrowStart(p, 1)
    BY <1>3, <2>10, GrowStartStep, Zenon
  <2>11. CASE GrowStart(p, -1)
    BY <1>3, <2>11, GrowStartStep, Zenon
  <2>12. CASE GrowFinish(p)
    BY <1>3, <2>12, GrowFinishStep, Zenon
  <2>13. CASE \E s \in Slots : kill(p, s)
    BY <1>3, <2>13, KillStep, Zenon
  <2> QED
    BY <1>3, <2>1, <2>2, <2>3, <2>4, <2>5, <2>6, <2>7, <2>8, <2>9, <2>10, <2>11, <2>12, <2>13, Zenon
<1> QED
  BY <1>1, <1>2, <1>3, Zenon DEF Next, Step

\* The inductive invariant holds in every state of the process table.
THEOREM Invariance == Spec => []IInv
BY InitIInv, StepIInv, PTL DEF Spec

\* exit and the scans of wait and join, each under ptable.lock, lose no exit: for any
\* number of slots and whatever the programs do, nobody sleeps in wait or join with a
\* zombie to collect, not even init when it inherits one.
THEOREM ExitsNoticed == Spec => []NoMissedExit
<1>1. IInv => NoMissedExit
  BY Zenon DEF IInv
<1> QED
  BY <1>1, Invariance, PTL

\* exit passes the children on before the process becomes a zombie, so whoever is in
\* the table has a living parent, whatever the programs do.
THEOREM NobodyOrphaned == Spec => []ParentsAlive
<1>1. IInv => ParentsAlive
  BY Zenon DEF IInv, ParentsAlive, TableInv, InTable
<1> QED
  BY <1>1, Invariance, PTL

\* wait sleeps only while there is a child whose exit ends the sleep, unless some clone
\* has left a slot half made.
THEOREM WaitersServed == Spec => []WaitersHaveChildren
<1>1. IInv => WaitersHaveChildren
  BY Zenon DEF IInv, WaitersHaveChildren, WaitingInv, InTable, Alive
<1> QED
  BY <1>1, Invariance, PTL

\* In a disciplined program a thread lives in the memory of its parent, which owns it.
LEMMA OwnerOf ==
    ASSUME IInv, Disciplined, NEW s \in Slots, Alive(s)
    PROVE  \E o \in Slots : Owns(o) /\ pgdir[o] = pgdir[s] /\ sz[o] = sz[s]
<1>1. InTable(s) /\ Avoid({"nested"})
  BY Zenon DEF Alive, InTable, Disciplined, Avoid
<1>2. CASE ~stack[s]
  BY <1>1, <1>2, Zenon DEF Owns
<1>3. CASE stack[s]
  <2>1. parent[s] \in Slots /\ Alive(parent[s]) /\ ~stack[parent[s]]
    BY <1>1, <1>3, Zenon DEF IInv, TableInv, InitInv, OwnersInv
  <2>2. pgdir[s] = pgdir[parent[s]] /\ sz[s] = sz[parent[s]]
    BY <1>1, <1>3, Zenon DEF IInv, ThreadsInv
  <2> QED
    BY <2>1, <2>2, Zenon DEF Owns, InTable, Alive
<1> QED
  BY <1>2, <1>3, Zenon

\* fork, clone, exec, wait and join between them free every page directory once and
\* none that is in use, for any number of processes and threads that keep to the
\* discipline.
THEOREM OneOwner == Spec => []MemoryOwned
<1>1. ASSUME IInv PROVE MemoryOwned
  <2> SUFFICES ASSUME Disciplined
               PROVE  /\ \A s \in Slots : Alive(s) => pgdir[s] \in live
                      /\ \A d \in live :
                            \E p \in Slots : {s \in Slots : pgdir[s] = d /\ ~stack[s]
                                                 /\ (Alive(s) \/ state[s] = "ZOMBIE")} = {p}
    BY Zenon DEF MemoryOwned, Disciplined
  <2>1. Avoid({"nested"})
    BY Zenon DEF Disciplined, Avoid
  <2>2. \A s \in Slots : Owns(s) => pgdir[s] \in live
    BY <1>1, <2>1, Zenon DEF IInv, OwnersInv
  <2>3. ASSUME NEW s \in Slots, Alive(s) PROVE pgdir[s] \in live
    BY <1>1, <2>2, <2>3, OwnerOf, Zenon
  <2>4. ASSUME NEW d \in live
        PROVE  \E p \in Slots : {s \in Slots : pgdir[s] = d /\ ~stack[s]
                                    /\ (Alive(s) \/ state[s] = "ZOMBIE")} = {p}
    <3>1. PICK o \in Slots : Owns(o) /\ pgdir[o] = d
      BY <1>1, <2>1, <2>4, Zenon DEF IInv, OwnersInv
    <3>2. \A s \in Slots : Owns(s) /\ pgdir[s] = d => s = o
      BY <1>1, <2>1, <3>1, OwnersDiffer, Zenon
    <3>3. {s \in Slots : pgdir[s] = d /\ ~stack[s] /\ (Alive(s) \/ state[s] = "ZOMBIE")} = {o}
      BY <3>1, <3>2, Zenon DEF Owns, InTable, Alive
    <3> QED
      BY <3>3, Zenon
  <2> QED
    BY <2>3, <2>4, Zenon
<1> QED
  BY <1>1, Invariance, PTL

\* growproc tells every process that shares the memory of its new size, and the pages
\* mapped are the ones below it, so neither mappages nor copyuvm panics.
THEOREM SizesKept == Spec => []SizesAgree
<1>1. ASSUME IInv PROVE SizesAgree
  <2>1. Avoid({"nested"}) => panic # "memory"
    BY <1>1, Zenon DEF IInv, OwnersInv
  <2>2. ASSUME Disciplined, NEW s \in Slots, NEW t \in Slots,
               Alive(s), Alive(t), pgdir[s] = pgdir[t]
        PROVE  sz[s] = sz[t]
    <3>1. PICK o \in Slots : Owns(o) /\ pgdir[o] = pgdir[s] /\ sz[o] = sz[s]
      BY <1>1, <2>2, OwnerOf, Zenon
    <3>2. PICK q \in Slots : Owns(q) /\ pgdir[q] = pgdir[t] /\ sz[q] = sz[t]
      BY <1>1, <2>2, OwnerOf, Zenon
    <3>3. Avoid({"nested"})
      BY <2>2, Zenon DEF Disciplined, Avoid
    <3>4. o = q
      BY <1>1, <2>2, <3>1, <3>2, <3>3, Zenon DEF IInv, OwnersInv
    <3> QED
      BY <3>1, <3>2, <3>4, Zenon
  <2> QED
    BY <2>1, <2>2, Zenon DEF SizesAgree, Disciplined
<1> QED
  BY <1>1, Invariance, PTL
=============================================================================
