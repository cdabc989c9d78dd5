------------------------------ MODULE MapPool ------------------------------
(***************************************************************************)
(* The map phase of p3a/mapreduce.c: MR_Run creates the mapper threads,    *)
(* pushes one task per input file and a task without a file name on        *)
(* mQueue, and joins the mappers.  A task is the position of its file in   *)
(* argv; NULL is the task without a file name, and also what the zeroed    *)
(* array holds where nothing was ever pushed.                              *)
(*                                                                         *)
(* mQueue and mapTaskCount are only used with mutexQueue held, so each     *)
(* critical section is one step.  pthread_cond_signal is called after the  *)
(* unlock in submitMapTask and is a step of its own; a thread that leaves  *)
(* pthread_cond_wait takes the mutex again in another step and, the test   *)
(* being an "if", goes on without looking at mapTaskCount.                 *)
(***************************************************************************)
EXTENDS Naturals

CONSTANTS Mappers,          \* the num_mappers threads
          NumFiles,         \* argc - 1
          QueueSize,        \* entries of mQueue: 1000 in the code
          SpuriousWakeups   \* may pthread_cond_wait return without a signal

\* A shift reads the entry behind the last task, so the array has room for
\* the files, the final task and one more.  The code does not check it.
ASSUME MapConstants ==
    /\ NumFiles \in Nat
    /\ QueueSize \in Nat
    /\ NumFiles + 2 <= QueueSize
    /\ SpuriousWakeups \in BOOLEAN

VARIABLES mainpc,        \* where MR_Run is
          submitted,     \* tasks pushed so far, the final one included
          pner,          \* has MR_Run stored the partition function
          mQueue,
          mapTaskCount,
          mpc,           \* mpc[m]: where mapper m is in startMapThread
          task,          \* task[m]: its local variable
          mapped         \* history: the files whose map function has returned

mapVars == <<mainpc, submitted, pner, mQueue, mapTaskCount, mpc, task, mapped>>

NULL == 0
Files == 1 .. NumFiles
Slots == 0 .. QueueSize - 1

MapInit ==
    /\ mainpc = "create"
    /\ submitted = 0
    /\ pner = FALSE
    /\ mQueue = [i \in Slots |-> NULL]
    /\ mapTaskCount = 0
    /\ mpc = [m \in Mappers |-> "none"]
    /\ task = [m \in Mappers |-> NULL]
    /\ mapped = {}

-----------------------------------------------------------------------------
\* pthread_cond_signal on condQueue, by a thread that leaves the mappers at f:
\* one waiting mapper, if there is any, gets to reacquire the mutex.
SignalFrom(f) ==
    LET waiting == {m \in Mappers : f[m] = "wait"} IN
    IF waiting = {} THEN mpc' = f
                    ELSE \E m \in waiting : mpc' = [f EXCEPT ![m] = "woken"]

\* MR_Run, pthread_create of one mapper.
CreateMapper(m) ==
    /\ mainpc = "create"
    /\ mpc[m] = "none"
    /\ mpc' = [mpc EXCEPT ![m] = "lock"]
    /\ UNCHANGED <<mainpc, submitted, pner, mQueue, mapTaskCount, task, mapped>>

\* MUTANT of SetPartitioner: the assignment of pner is forgotten.
SetPartitionerLost ==
    /\ mainpc = "create"
    /\ \A m \in Mappers : mpc[m] # "none"
    /\ mainpc' = "submit"
    /\ UNCHANGED <<submitted, pner, mQueue, mapTaskCount, mpc, task, mapped>>

\* MR_Run, pner = partition, once every mapper is running.
SetPartitioner ==
    /\ mainpc = "create"
    /\ \A m \in Mappers : mpc[m] # "none"
    /\ pner' = TRUE
    /\ mainpc' = "submit"
    /\ UNCHANGED <<submitted, mQueue, mapTaskCount, mpc, task, mapped>>

\* submitMapTask up to the unlock, for the next file or the final task.
SubmitMapTask ==
    /\ mainpc = "submit"
    /\ mQueue' = [mQueue EXCEPT ![mapTaskCount] =
                     IF submitted < NumFiles THEN submitted + 1 ELSE NULL]
    /\ mapTaskCount' = mapTaskCount + 1
    /\ submitted' = submitted + 1
    /\ mainpc' = "signal"
    /\ UNCHANGED <<pner, mpc, task, mapped>>

\* submitMapTask, the signal after the unlock; then the next task or the joins.
SignalMapTask ==
    /\ mainpc = "signal"
    /\ SignalFrom(mpc)
    /\ mainpc' = IF submitted > NumFiles THEN "join" ELSE "submit"
    /\ UNCHANGED <<submitted, pner, mQueue, mapTaskCount, task, mapped>>

\* MR_Run, pthread_join of every mapper.
JoinMappers ==
    /\ mainpc = "join"
    /\ \A m \in Mappers : mpc[m] = "exit"
    /\ mainpc' = "joined"
    /\ UNCHANGED <<submitted, pner, mQueue, mapTaskCount, mpc, task, mapped>>

\* startMapThread finds no task and calls pthread_cond_wait.
WaitForTask(m) ==
    /\ mpc[m] = "lock"
    /\ mapTaskCount = 0
    /\ mpc' = [mpc EXCEPT ![m] = "wait"]
    /\ UNCHANGED <<mainpc, submitted, pner, mQueue, mapTaskCount, task, mapped>>

\* pthread_cond_wait returns although nobody signalled (POSIX allows it).
WakeSpuriously(m) ==
    /\ SpuriousWakeups
    /\ mpc[m] = "wait"
    /\ mpc' = [mpc EXCEPT ![m] = "woken"]
    /\ UNCHANGED <<mainpc, submitted, pner, mQueue, mapTaskCount, task, mapped>>

\* Mapper m holds the mutex and is about to read mQueue[0].
AtHead(m) == mpc[m] = "woken" \/ (mpc[m] = "lock" /\ mapTaskCount # 0)

\* MUTANT of TakeTask: the loop that shifts the queue is missing.
TakeTaskNoShift(m) ==
    /\ AtHead(m)
    /\ mQueue[0] # NULL
    /\ task' = [task EXCEPT ![m] = mQueue[0]]
    /\ mapTaskCount' = mapTaskCount - 1
    /\ mpc' = [mpc EXCEPT ![m] = "map"]
    /\ UNCHANGED <<mainpc, submitted, pner, mQueue, mapped>>

\* MUTANT of TakeTask: the shift stops one entry early.
TakeTaskShortShift(m) ==
    /\ AtHead(m)
    /\ mQueue[0] # NULL
    /\ task' = [task EXCEPT ![m] = mQueue[0]]
    /\ mQueue' = [i \in Slots |->
                     IF i < mapTaskCount - 1 THEN mQueue[i + 1] ELSE mQueue[i]]
    /\ mapTaskCount' = mapTaskCount - 1
    /\ mpc' = [mpc EXCEPT ![m] = "map"]
    /\ UNCHANGED <<mainpc, submitted, pner, mapped>>

\* startMapThread takes the first task and shifts the others forward.
TakeTask(m) ==
    /\ AtHead(m)
    /\ mQueue[0] # NULL
    /\ task' = [task EXCEPT ![m] = mQueue[0]]
    /\ mQueue' = [i \in Slots |->
                     IF i < mapTaskCount THEN mQueue[i + 1] ELSE mQueue[i]]
    /\ mapTaskCount' = mapTaskCount - 1
    /\ mpc' = [mpc EXCEPT ![m] = "map"]
    /\ UNCHANGED <<mainpc, submitted, pner, mapped>>

\* MUTANT of Quit: the mapper leaves without waking the next one.
QuitSilently(m) ==
    /\ AtHead(m)
    /\ mQueue[0] = NULL
    /\ mpc' = [mpc EXCEPT ![m] = "exit"]
    /\ UNCHANGED <<mainpc, submitted, pner, mQueue, mapTaskCount, task, mapped>>

\* startMapThread reads a task without a file name: signal, unlock, return.
Quit(m) ==
    /\ AtHead(m)
    /\ mQueue[0] = NULL
    /\ SignalFrom([mpc EXCEPT ![m] = "exit"])
    /\ UNCHANGED <<mainpc, submitted, pner, mQueue, mapTaskCount, task, mapped>>

\* task.map(task.filename) returns.
MapFile(m) ==
    /\ mpc[m] = "map"
    /\ mapped' = mapped \cup {task[m]}
    /\ mpc' = [mpc EXCEPT ![m] = "lock"]
    /\ UNCHANGED <<mainpc, submitted, pner, mQueue, mapTaskCount, task>>

MapMain == SetPartitioner \/ SubmitMapTask \/ SignalMapTask \/ JoinMappers

Mapper(m) ==
    \/ CreateMapper(m) \/ WaitForTask(m) \/ TakeTask(m) \/ Quit(m) \/ MapFile(m)

MapNext ==
    \/ MapMain
    \/ \E m \in Mappers : Mapper(m) \/ WakeSpuriously(m)

MapSpec == MapInit /\ [][MapNext]_mapVars

-----------------------------------------------------------------------------
\* Types of the queue and of the threads' locals; mapTaskCount never exceeds
\* the number of tasks pushed.
MapTypeOK ==
    /\ mainpc \in {"create", "submit", "signal", "join", "joined"}
    /\ submitted \in 0 .. NumFiles + 1
    /\ pner \in BOOLEAN
    /\ mQueue \in [Slots -> {NULL} \cup Files]
    /\ mapTaskCount \in 0 .. submitted
    /\ mpc \in [Mappers ->
                   {"none", "lock", "wait", "woken", "map", "exit"}]
    /\ task \in [Mappers -> {NULL} \cup Files]
    /\ mapped \subseteq Files

\* The tasks that have left the queue: the first submitted - mapTaskCount.
Taken == 1 .. submitted - mapTaskCount

Busy == {m \in Mappers : mpc[m] = "map"}

\* mQueue holds the files nobody has taken, in the order of argv, then the
\* final task, and only NULL behind them: this is why a mapper that wakes up
\* to an empty queue reads NULL and not a task taken before.
QueueIsRest ==
    \A i \in Slots :
        mQueue[i] = LET file == submitted - mapTaskCount + 1 + i IN
                    IF i < mapTaskCount /\ file <= NumFiles THEN file ELSE NULL

\* No file is given to two mappers or mapped again after its map function has
\* returned, and no task that left the queue is dropped.
FilesTakenOnce ==
    /\ \A m, n \in Busy : task[m] = task[n] => m = n
    /\ \A m \in Busy : task[m] \notin mapped
    /\ mapped \cup {task[m] : m \in Busy} = Taken

\* MR_Run stores pner after it has created the mappers; no mapper gets to
\* MR_Emit, which calls pner, before that.
PartitionerReady == Busy # {} => pner

\* What the callers of MR_Run expect of it (hashmap_test.c: "accepts a list of
\* files and stores their words"): when the mappers are joined, every file of
\* argv has been mapped.
AllFilesMapped == mainpc = "joined" => mapped = Files

=============================================================================
