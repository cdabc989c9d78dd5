---------------------------- MODULE ReducePhase ----------------------------
(***************************************************************************)
(* The reduce phase of p3a/mapreduce.c: MR_Run sorts the list of every     *)
(* partition, creates the reducer threads, walks the lists to push one     *)
(* task per key on rQueue, pushes a task without a key, and joins.         *)
(*                                                                         *)
(* A node of a partition's list is named by its key; keys are numbered in  *)
(* strcmp order.  The list is the one of the code: arr_part[p] is its head *)
(* and next_key[k] the node behind k; a node that is unlinked keeps its    *)
(* next_key.  values[k] counts the values a node still holds (its own and  *)
(* the next_val chain).                                                    *)
(*                                                                         *)
(* rQueue and reduceTaskCount are used with mutexQueue held, the lists by  *)
(* mappers and reducers with pLocks[p] held; MR_Run walks the lists with   *)
(* no lock at all, one pointer per step.                                   *)
(*                                                                         *)
(* search walks with the global current, which no lock covers when there   *)
(* are several partitions.  What that comes to depends on the build:       *)
(* without optimisation every use of current is a load from memory, with   *)
(* -O the walk of a call stays in a register.  A build has either one      *)
(* partition (NUM_REDUCERS is not defined) or is optimised (the commands   *)
(* of test-mapreduce.sh that define it); SearchPrivate says so.            *)
(***************************************************************************)
EXTENDS Naturals, SequencesExt

CONSTANTS Reducers,      \* as many as num_reducers may be
          Threads,       \* all threads that call search
          NumKeys,
          Builds,        \* ways mapreduce.c is compiled: see build
          RQueueSize,    \* entries of rQueue: 1000 in the code
          RSpuriousWakeups   \* may pthread_cond_wait return without a signal

Keys == 1 .. NumKeys

ASSUME ReduceConstants ==
    /\ NumKeys \in Nat
    /\ RQueueSize \in Nat /\ NumKeys + 2 <= RQueueSize
    /\ Reducers \subseteq Threads
    /\ \A b \in Builds :
          /\ b.partitions \in Nat \ {0}
          /\ b.partOf \in [Keys -> 0 .. b.partitions - 1]
          /\ b.rereads \in BOOLEAN
    /\ RSpuriousWakeups \in BOOLEAN

\* A build that walks with the current in memory has one partition.
ASSUME SearchPrivate == \A b \in Builds : b.rereads => b.partitions = 1

VARIABLES build,            \* never changes: PARTITIONS, the partition function on the
                            \* keys, and whether search rereads current from memory
          rmain,            \* where MR_Run is
          part, curr,       \* its loop variables i and curr
          arr_part, next_key, values,
          current,          \* the walk of search: in memory, and in each thread's register
          pLocks,           \* pLocks[p]: the thread holding it, or FreeLock
          rQueue, reduceTaskCount,
          rpc, key, count,  \* per reducer: program point, task.key, values read
          emitted,          \* history: emitted[k] is the number of values of k
          reduced           \* history: reduced[k] lists the counts reported for k

mainVars  == <<rmain, part, curr>>
storeVars == <<arr_part, next_key, values, current, emitted>>
queueVars == <<rQueue, reduceTaskCount>>
rVars     == <<build, mainVars, storeVars, queueVars, pLocks, rpc, key, count, reduced>>

Partitions == 0 .. build.partitions - 1
PartOf == build.partOf

NoKey == 0
FreeLock == "free"
Memory == "memory"
RSlots == 0 .. RQueueSize - 1

\* The keys of partition p's list, from its head.
KeyList(p) ==
    LET node[i \in 1 .. NumKeys] ==
            IF i = 1 THEN arr_part[p]
            ELSE IF node[i - 1] = NoKey THEN NoKey ELSE next_key[node[i - 1]]
    IN SelectSeq(node, LAMBDA k : k # NoKey)

\* What pointers a list given as a sequence is made of.
HeadOf(s) == IF s = <<>> THEN NoKey ELSE s[1]
Behind(s, k) ==
    LET i == CHOOSE i \in DOMAIN s : s[i] = k
    IN IF i = Len(s) THEN NoKey ELSE s[i + 1]

\* Everything but the lists, as it is when the last mapper has been joined.  MR_Run
\* is called with any positive num_reducers; a reducer beyond it counts as gone.
IdleReducers ==
    /\ build \in Builds
    /\ rmain = "sort" /\ part = 0 /\ curr = NoKey
    /\ current = [c \in {Memory} \cup Threads |-> NoKey]
    /\ pLocks = [p \in Partitions |-> FreeLock]
    /\ rQueue = [i \in RSlots |-> NoKey] /\ reduceTaskCount = 0
    /\ \E num_reducers \in 1 .. Cardinality(Reducers) :
          LET used == CHOOSE S \in SUBSET Reducers : Cardinality(S) = num_reducers IN
          rpc = [r \in Reducers |-> IF r \in used THEN "none" ELSE "exit"]
    /\ key = [r \in Reducers |-> NoKey]
    /\ count = [r \in Reducers |-> 0]
    /\ reduced = [k \in Keys |-> <<>>]

-----------------------------------------------------------------------------
(* search, one turn of its loop per step.  Its other global, head, is read *)
(* back in the statements behind the store and nowhere else; a head that   *)
(* is NULL returns before the loop, as a current that is NULL would in it. *)

\* MUTANT of Cell: every build walks with the current in memory.
CellShared(t) == Memory

\* Where thread t keeps current during a call of search.
Cell(t) == IF build.rereads THEN Memory ELSE t

StartSearch(t, p) == current' = [current EXCEPT ![Cell(t)] = arr_part[p]]

\* The loop ends at the node of key k or at the end of the list.
AtNode(t, k) == current[Cell(t)] = k
AtEnd(t) == current[Cell(t)] = NoKey

SearchTurn(t, k) ==
    /\ ~AtNode(t, k) /\ ~AtEnd(t)
    /\ current' = [current EXCEPT ![Cell(t)] = next_key[@]]

-----------------------------------------------------------------------------
\* insertHelper: k becomes the head, or goes behind the node where the search
\* for a node that is not before it stops.
insertHelper(sorted, k) ==
    IF sorted = <<>> \/ (sorted # <<>> /\ sorted[1] > k)
    THEN <<k>> \o sorted
    ELSE LET stops == {i \in 2 .. Len(sorted) : sorted[i] >= k}
         IN InsertAt(sorted, IF stops = {} THEN Len(sorted) + 1 ELSE Min(stops), k)

\* insertionSort, on partition p.
insertionSort(p) == FoldLeft(insertHelper, <<>>, KeyList(p))

SortPartitions ==
    /\ rmain = "sort"
    /\ LET sorted == [p \in Partitions |-> insertionSort(p)] IN
       /\ arr_part' = [p \in Partitions |-> HeadOf(sorted[p])]
       /\ next_key' = [k \in Keys |->
             IF values[k] > 0 THEN Behind(sorted[PartOf[k]], k) ELSE NoKey]
    /\ rmain' = "create"
    /\ UNCHANGED <<part, curr, values, current, emitted, queueVars, pLocks, rpc, key, count, reduced>>

CreateReducer(r) ==
    /\ rmain = "create"
    /\ rpc[r] = "none"
    /\ rpc' = [rpc EXCEPT ![r] = "lock"]
    /\ UNCHANGED <<mainVars, storeVars, queueVars, pLocks, key, count, reduced>>

\* pthread_cond_signal on condQueue.
SignalReducers ==
    LET waiting == {r \in Reducers : rpc[r] = "wait"} IN
    IF waiting = {} THEN rpc' = rpc
                    ELSE \E r \in waiting : rpc' = [rpc EXCEPT ![r] = "woken"]

\* MR_Run, curr = arr_part[i] for the next partition, or the end of the loop.
EnterPartition ==
    /\ \/ rmain = "create" /\ \A r \in Reducers : rpc[r] # "none"
       \/ rmain = "walk" /\ curr = NoKey
    /\ IF part \in Partitions
       THEN rmain' = "walk" /\ curr' = arr_part[part] /\ part' = part + 1
       ELSE rmain' = "final" /\ UNCHANGED <<curr, part>>
    /\ UNCHANGED <<storeVars, queueVars, pLocks, rpc, key, count, reduced>>

\* submitReduceTask up to the unlock, for the key curr points at or, after the
\* loop, for the task without a key.
submitReduceTask ==
    /\ \/ rmain = "walk" /\ curr # NoKey /\ rmain' = "signal"
       \/ rmain = "final" /\ rmain' = "signal_final"
    /\ rQueue' = [rQueue EXCEPT ![reduceTaskCount] =
                     IF rmain = "final" THEN NoKey ELSE curr]
    /\ reduceTaskCount' = reduceTaskCount + 1
    /\ UNCHANGED <<part, curr, storeVars, pLocks, rpc, key, count, reduced>>

\* submitReduceTask, the signal behind the unlock.
SignalReduceTask ==
    /\ \/ rmain = "signal" /\ rmain' = "advance"
       \/ rmain = "signal_final" /\ rmain' = "join"
    /\ SignalReducers
    /\ UNCHANGED <<part, curr, storeVars, queueVars, pLocks, key, count, reduced>>

\* MUTANT of Advance: the walk looks the next node up from the head again.
AdvanceFromHead ==
    /\ rmain = "advance"
    /\ curr' = LET s == KeyList(part - 1)
                   i == SelectInSeq(s, LAMBDA k : k = curr)
               IN IF i = Len(s) THEN NoKey ELSE s[i + 1]
    /\ rmain' = "walk"
    /\ UNCHANGED <<part, storeVars, queueVars, pLocks, rpc, key, count, reduced>>

\* MR_Run, curr = curr->next_key, without a lock; the node may be unlinked.
Advance ==
    /\ rmain = "advance"
    /\ curr' = next_key[curr]
    /\ rmain' = "walk"
    /\ UNCHANGED <<part, storeVars, queueVars, pLocks, rpc, key, count, reduced>>

JoinReducers ==
    /\ rmain = "join"
    /\ \A r \in Reducers : rpc[r] = "exit"
    /\ rmain' = "returned"
    /\ UNCHANGED <<part, curr, storeVars, queueVars, pLocks, rpc, key, count, reduced>>

-----------------------------------------------------------------------------
\* startReduceThread finds no task and calls pthread_cond_wait.
WaitForKey(r) ==
    /\ rpc[r] = "lock"
    /\ reduceTaskCount = 0
    /\ rpc' = [rpc EXCEPT ![r] = "wait"]
    /\ UNCHANGED <<mainVars, storeVars, queueVars, pLocks, key, count, reduced>>

\* pthread_cond_wait returns although nobody signalled.
WakeReducer(r) ==
    /\ RSpuriousWakeups
    /\ rpc[r] = "wait"
    /\ rpc' = [rpc EXCEPT ![r] = "woken"]
    /\ UNCHANGED <<mainVars, storeVars, queueVars, pLocks, key, count, reduced>>

\* Reducer r holds the mutex and is about to read rQueue[0].
AtQueue(r) == rpc[r] = "woken" \/ (rpc[r] = "lock" /\ reduceTaskCount # 0)

\* startReduceThread takes the first task and shifts the others forward.
TakeKey(r) ==
    /\ AtQueue(r)
    /\ rQueue[0] # NoKey
    /\ key' = [key EXCEPT ![r] = rQueue[0]]
    /\ rQueue' = [i \in RSlots |->
                     IF i < reduceTaskCount THEN rQueue[i + 1] ELSE rQueue[i]]
    /\ reduceTaskCount' = reduceTaskCount - 1
    /\ rpc' = [rpc EXCEPT ![r] = "plock"]
    /\ UNCHANGED <<mainVars, storeVars, pLocks, count, reduced>>

\* startReduceThread reads a task without a key: unlock and return, with no
\* signal to the next reducer.
QuitReducer(r) ==
    /\ AtQueue(r)
    /\ rQueue[0] = NoKey
    /\ rpc' = [rpc EXCEPT ![r] = "exit"]
    /\ UNCHANGED <<mainVars, storeVars, queueVars, pLocks, key, count, reduced>>

LockPartition(r) ==
    /\ rpc[r] = "plock"
    /\ pLocks[PartOf[key[r]]] = FreeLock
    /\ pLocks' = [pLocks EXCEPT ![PartOf[key[r]]] = r]
    /\ count' = [count EXCEPT ![r] = 0]
    /\ rpc' = [rpc EXCEPT ![r] = "reduce"]
    /\ UNCHANGED <<mainVars, storeVars, queueVars, key, reduced>>

\* findPrev: the node in front of the first one that is not before k.
findPrev(k) ==
    LET s == KeyList(PartOf[k])
        i == SelectInSeq(s, LAMBDA n : n >= k)
    IN IF i = 1 THEN NoKey ELSE IF i = 0 THEN Last(s) ELSE s[i - 1]

\* Get calls search.
StartGet(r) ==
    /\ rpc[r] = "reduce"
    /\ StartSearch(r, PartOf[key[r]])
    /\ rpc' = [rpc EXCEPT ![r] = "search"]
    /\ UNCHANGED <<mainVars, arr_part, next_key, values, emitted, queueVars, pLocks,
                   key, count, reduced>>

\* A turn of the loop of search in Get.
WalkInGet(r) ==
    /\ rpc[r] = "search"
    /\ SearchTurn(r, key[r])
    /\ UNCHANGED <<mainVars, arr_part, next_key, values, emitted, queueVars, pLocks,
                   rpc, key, count, reduced>>

\* MUTANT of GetValue: a node is unlinked with one value of its chain left.
GetValueUnlinkEarly(r) ==
    LET k == key[r]
        p == PartOf[k]
        prev == findPrev(k)
    IN /\ rpc[r] = "search" /\ AtNode(r, k)
       /\ values' = [values EXCEPT ![k] = @ - 1]
       /\ count' = [count EXCEPT ![r] = @ + 1]
       /\ IF values[k] > 2
          THEN UNCHANGED <<arr_part, next_key>>
          ELSE IF prev = NoKey
               THEN /\ arr_part' = [arr_part EXCEPT ![p] = next_key[k]]
                    /\ UNCHANGED next_key
               ELSE /\ next_key' = [next_key EXCEPT ![prev] = next_key[k]]
                    /\ UNCHANGED arr_part
       /\ rpc' = [rpc EXCEPT ![r] = "reduce"]
       /\ UNCHANGED <<mainVars, current, emitted, queueVars, pLocks, key, reduced>>

\* Get once search has returned a node: hand out the first value of the chain;
\* with none but the node's own left, unlink the node and hand out that.
GetValue(r) ==
    LET k == key[r]
        p == PartOf[k]
        prev == findPrev(k)
    IN /\ rpc[r] = "search" /\ AtNode(r, k)
       /\ values' = [values EXCEPT ![k] = @ - 1]
       /\ count' = [count EXCEPT ![r] = @ + 1]
       /\ IF values[k] > 1
          THEN UNCHANGED <<arr_part, next_key>>
          ELSE IF prev = NoKey
               THEN /\ arr_part' = [arr_part EXCEPT ![p] = next_key[k]]
                    /\ UNCHANGED next_key
               ELSE /\ next_key' = [next_key EXCEPT ![prev] = next_key[k]]
                    /\ UNCHANGED arr_part
       /\ rpc' = [rpc EXCEPT ![r] = "reduce"]
       /\ UNCHANGED <<mainVars, current, emitted, queueVars, pLocks, key, reduced>>

\* search, and with it Get, returns NULL: the reduce function reports its count and
\* returns, and startReduceThread unlocks the partition.
FinishKey(r) ==
    /\ rpc[r] = "search" /\ AtEnd(r)
    /\ reduced' = [reduced EXCEPT ![key[r]] = Append(@, count[r])]
    /\ pLocks' = [pLocks EXCEPT ![PartOf[key[r]]] = FreeLock]
    /\ rpc' = [rpc EXCEPT ![r] = "lock"]
    /\ UNCHANGED <<mainVars, storeVars, queueVars, key, count>>

ReduceMain ==
    \/ SortPartitions \/ EnterPartition \/ submitReduceTask
    \/ SignalReduceTask \/ Advance \/ JoinReducers

Reducer(r) ==
    \/ CreateReducer(r) \/ WaitForKey(r) \/ TakeKey(r) \/ QuitReducer(r)
    \/ LockPartition(r) \/ StartGet(r) \/ WalkInGet(r) \/ GetValue(r) \/ FinishKey(r)

-----------------------------------------------------------------------------
\* Types of the lists, the queue, the locks and the threads' locals.
RTypeOK ==
    /\ rmain \in {"sort", "create", "walk", "signal", "advance", "final",
                  "signal_final", "join", "returned"}
    /\ part \in 0 .. Cardinality(Partitions)
    /\ curr \in {NoKey} \cup Keys
    /\ arr_part \in [Partitions -> {NoKey} \cup Keys]
    /\ next_key \in [Keys -> {NoKey} \cup Keys]
    /\ values \in [Keys -> Nat]
    /\ current \in [{Memory} \cup Threads -> {NoKey} \cup Keys]
    /\ pLocks \in [Partitions -> {FreeLock} \cup Threads]
    /\ rQueue \in [RSlots -> {NoKey} \cup Keys]
    /\ reduceTaskCount \in 0 .. NumKeys + 1
    /\ rpc \in [Reducers -> {"none", "lock", "wait", "woken", "plock", "reduce", "search", "exit"}]
    /\ key \in [Reducers -> {NoKey} \cup Keys]
    /\ count \in [Reducers -> Nat]

\* Where key k is as a task: queued, with a reducer, or reported.
Places(k) ==
    Cardinality({i \in RSlots : i < reduceTaskCount /\ rQueue[i] = k})
    + Cardinality({r \in Reducers : rpc[r] \in {"plock", "reduce", "search"} /\ key[r] = k})
    + Len(reduced[k])

\* MR_Run's walk, which holds no lock while reducers unlink the nodes it is
\* standing on, pushes no key twice and misses none (for the builds of SearchPrivate,
\* in which no search is led astray by another one).
WalkPushesEachKeyOnce ==
    /\ RTypeOK
    /\ \A k \in Keys :
          /\ Places(k) <= 1
          /\ rmain \in {"final", "signal_final", "join", "returned"} =>
                 Places(k) = IF emitted[k] > 0 THEN 1 ELSE 0

=============================================================================
