--------------------------- MODULE MapPoolProofs ---------------------------
(***************************************************************************)
(* Proofs about MapPool, for every number of mappers and files.            *)
(***************************************************************************)
EXTENDS MapPool, TLAPS

\* How far MR_Run is decides what it has submitted, and the final task, which
\* no mapper takes off the queue, is there once it has been pushed.
PhaseInv ==
    /\ mainpc = "create" => submitted = 0
    /\ mainpc = "submit" => submitted <= NumFiles
    /\ mainpc # "create" => pner
    /\ submitted - mapTaskCount <= NumFiles

\* The inductive invariant: the queue alone says which file TakeTask hands out,
\* the phase that it is a file, and FilesTakenOnce that it is a new one.
MInv == MapTypeOK /\ PhaseInv /\ QueueIsRest /\ FilesTakenOnce

USE DEF NULL, Files, Slots

-----------------------------------------------------------------------------
\* What a mapper reads from mQueue[0]: the file after the ones taken, and only
\* from a queue that is not empty.
LEMMA HeadIsNext ==
    ASSUME MInv, mQueue[0] # NULL
    PROVE  /\ mapTaskCount > 0
           /\ mQueue[0] = submitted - mapTaskCount + 1
           /\ mQueue[0] \in Files
<1>1. 0 \in Slots
  BY MapConstants
<1> QED
  BY <1>1 DEF MInv, MapTypeOK, QueueIsRest

\* MR_Run's push of the next task keeps the queue in order.
LEMMA SubmitKeeps ==
    ASSUME MInv, SubmitMapTask
    PROVE  MInv'
<1>1. /\ submitted \in 0 .. NumFiles /\ NumFiles \in Nat /\ QueueSize \in Nat
      /\ NumFiles + 2 <= QueueSize
      /\ mapTaskCount \in 0 .. submitted
      /\ mapTaskCount \in Slots
  BY MapConstants DEF MInv, MapTypeOK, PhaseInv, SubmitMapTask
<1>2. submitted' - mapTaskCount' = submitted - mapTaskCount
  BY <1>1 DEF SubmitMapTask
<1>3. MapTypeOK'
  BY <1>1 DEF MInv, MapTypeOK, SubmitMapTask
<1>4. PhaseInv'
  BY <1>1, <1>2 DEF MInv, PhaseInv, SubmitMapTask
<1>5. QueueIsRest'
  <2> SUFFICES ASSUME NEW i \in Slots
               PROVE  mQueue'[i] = LET file == submitted' - mapTaskCount' + 1 + i IN
                          IF i < mapTaskCount' /\ file <= NumFiles THEN file ELSE NULL
    BY DEF QueueIsRest
  <2>1. CASE i = mapTaskCount
    BY <1>1, <2>1 DEF MInv, MapTypeOK, SubmitMapTask
  <2>2. CASE i # mapTaskCount
    <3>1. mQueue'[i] = mQueue[i]
      BY <2>2 DEF MInv, MapTypeOK, SubmitMapTask
    <3>2. i < mapTaskCount' <=> i < mapTaskCount
      BY <1>1, <2>2 DEF SubmitMapTask
    <3> QED
      BY <1>1, <1>2, <3>1, <3>2 DEF MInv, QueueIsRest
  <2> QED
    BY <2>1, <2>2
<1>6. FilesTakenOnce'
  BY <1>2 DEF MInv, FilesTakenOnce, Taken, Busy, SubmitMapTask
<1> QED
  BY <1>3, <1>4, <1>5, <1>6 DEF MInv

\* A mapper that takes a file gets one nobody had, and the rest moves up.
LEMMA TakeKeeps ==
    ASSUME MInv, NEW m \in Mappers, TakeTask(m)
    PROVE  MInv'
<1> DEFINE f == mQueue[0]
<1>1. mapTaskCount > 0 /\ f = submitted - mapTaskCount + 1 /\ f \in Files
  BY HeadIsNext DEF TakeTask
<1>2. /\ submitted \in 0 .. NumFiles + 1 /\ NumFiles \in Nat /\ QueueSize \in Nat
      /\ NumFiles + 2 <= QueueSize
      /\ mapTaskCount \in 1 .. submitted
  BY <1>1, MapConstants DEF MInv, MapTypeOK
<1>3. /\ mapTaskCount' = mapTaskCount - 1 /\ submitted' = submitted
      /\ submitted' - mapTaskCount' = submitted - mapTaskCount + 1
  BY <1>2 DEF TakeTask
<1>4. mQueue' \in [Slots -> {NULL} \cup Files]
  <2> SUFFICES ASSUME NEW i \in Slots
               PROVE  (IF i < mapTaskCount THEN mQueue[i + 1] ELSE mQueue[i])
                          \in {NULL} \cup Files
    BY DEF TakeTask
  <2>1. i < mapTaskCount => i + 1 \in Slots
    BY <1>2
  <2> QED
    BY <2>1 DEF MInv, MapTypeOK
<1>5. MapTypeOK'
  BY <1>1, <1>2, <1>3, <1>4 DEF MInv, MapTypeOK, TakeTask
<1>6. PhaseInv'
  BY <1>1, <1>2, <1>3 DEF MInv, PhaseInv, TakeTask
<1>7. QueueIsRest'
  <2> SUFFICES ASSUME NEW i \in Slots
               PROVE  mQueue'[i] = LET file == submitted' - mapTaskCount' + 1 + i IN
                          IF i < mapTaskCount' /\ file <= NumFiles THEN file ELSE NULL
    BY DEF QueueIsRest
  <2>1. CASE i < mapTaskCount
    <3>1. i + 1 \in Slots /\ mQueue'[i] = mQueue[i + 1]
      BY <1>2, <2>1 DEF TakeTask
    <3>2. mQueue[i + 1] = LET file == submitted - mapTaskCount + 1 + (i + 1) IN
              IF i + 1 < mapTaskCount /\ file <= NumFiles THEN file ELSE NULL
      BY <3>1 DEF MInv, QueueIsRest
    <3> QED
      BY <1>2, <1>3, <3>1, <3>2
  <2>2. CASE ~ (i < mapTaskCount)
    <3>1. mQueue'[i] = mQueue[i] /\ mQueue[i] = NULL
      BY <2>2 DEF MInv, QueueIsRest, TakeTask
    <3> QED
      BY <1>2, <1>3, <2>2, <3>1
  <2> QED
    BY <2>1, <2>2
<1>8. FilesTakenOnce'
  <2>1. Taken' = Taken \cup {f}
    BY <1>1, <1>2, <1>3 DEF Taken
  <2>2. f \notin Taken
    BY <1>1, <1>2 DEF Taken
  <2>3. /\ mpc' = [mpc EXCEPT ![m] = "map"] /\ task' = [task EXCEPT ![m] = f]
        /\ mapped' = mapped /\ mpc[m] # "map"
    BY DEF TakeTask, AtHead
  <2>4. /\ Busy' = Busy \cup {m} /\ m \notin Busy
        /\ task'[m] = f /\ \A n \in Busy : task'[n] = task[n]
    BY <2>3 DEF MInv, MapTypeOK, Busy
  <2>5. mapped \cup {task[n] : n \in Busy} = Taken
    BY DEF MInv, FilesTakenOnce
  <2>6. \A n \in Busy : task[n] # f
    BY <2>2, <2>5
  <2>7. (\A n, o \in Busy : task[n] = task[o] => n = o) /\ (\A n \in Busy : task[n] \notin mapped)
    BY DEF MInv, FilesTakenOnce
  <2>8. \A n, o \in Busy' : task'[n] = task'[o] => n = o
    BY <2>4, <2>6, <2>7
  <2>9. \A n \in Busy' : task'[n] \notin mapped'
    BY <2>2, <2>3, <2>4, <2>5, <2>7
  <2>10. mapped' \cup {task'[n] : n \in Busy'} = Taken'
    BY <2>1, <2>3, <2>4, <2>5
  <2> QED
    BY <2>8, <2>9, <2>10 DEF FilesTakenOnce
<1> QED
  BY <1>5, <1>6, <1>7, <1>8 DEF MInv

\* The return of a map function moves its file from the busy to the mapped ones.
LEMMA MapFileKeeps ==
    ASSUME MInv, NEW m \in Mappers, MapFile(m)
    PROVE  MInv'
<1>1. m \in Busy /\ Busy' = Busy \ {m} /\ Taken' = Taken
  BY DEF MInv, MapTypeOK, MapFile, Busy, Taken
<1>2. /\ mapped \cup {task[n] : n \in Busy} = Taken
      /\ \A n, o \in Busy : task[n] = task[o] => n = o
      /\ \A n \in Busy : task[n] \notin mapped
  BY DEF MInv, FilesTakenOnce
<1>3. Taken \subseteq Files
  BY MapConstants DEF MInv, MapTypeOK, PhaseInv, Taken
<1>4. MapTypeOK'
  BY <1>1, <1>2, <1>3 DEF MInv, MapTypeOK, MapFile
<1>5. PhaseInv' /\ QueueIsRest'
  BY DEF MInv, PhaseInv, QueueIsRest, MapFile
<1>6. FilesTakenOnce'
  BY <1>1, <1>2 DEF MapFile, FilesTakenOnce
<1> QED
  BY <1>4, <1>5, <1>6 DEF MInv

\* Every other step leaves the queue, the tasks and the busy mappers alone.
LEMMA QuietKeeps ==
    ASSUME MInv,
           UNCHANGED <<submitted, mQueue, mapTaskCount, task, mapped>>,
           MapTypeOK', PhaseInv', Busy' = Busy
    PROVE  MInv'
BY DEF MInv, QueueIsRest, FilesTakenOnce, Taken

\* pthread_cond_signal moves a mapper from waiting to woken and touches no
\* other.
LEMMA SignalKeepsBusy ==
    ASSUME NEW f \in [Mappers -> {"none", "lock", "wait", "woken", "map", "exit"}],
           SignalFrom(f)
    PROVE  /\ mpc' \in [Mappers -> {"none", "lock", "wait", "woken", "map", "exit"}]
           /\ Busy' = {m \in Mappers : f[m] = "map"}
<1> DEFINE waiting == {m \in Mappers : f[m] = "wait"}
<1>1. CASE waiting = {}
  BY <1>1 DEF SignalFrom, Busy
<1>2. CASE waiting # {}
  <2>1. PICK m \in waiting : mpc' = [f EXCEPT ![m] = "woken"]
    BY <1>2 DEF SignalFrom
  <2> QED
    BY <2>1 DEF Busy
<1> QED
  BY <1>1, <1>2

-----------------------------------------------------------------------------
\* The inductive step, action by action.
LEMMA StepKeeps ==
    ASSUME MInv, [MapNext]_mapVars
    PROVE  MInv'
<1> USE DEF MInv
<1>1. CASE SetPartitioner
  <2>1. MapTypeOK' /\ PhaseInv' /\ Busy' = Busy
    BY <1>1, MapConstants DEF SetPartitioner, MapTypeOK, PhaseInv, Busy
  <2> QED
    BY <1>1, <2>1, QuietKeeps DEF SetPartitioner
<1>2. CASE SubmitMapTask
  BY <1>2, SubmitKeeps
<1>3. CASE SignalMapTask
  <2>1. Busy' = Busy /\ MapTypeOK'
    BY <1>3, SignalKeepsBusy DEF SignalMapTask, MapTypeOK, Busy
  <2>2. PhaseInv'
    BY <1>3, MapConstants DEF SignalMapTask, MapTypeOK, PhaseInv
  <2> QED
    BY <1>3, <2>1, <2>2, QuietKeeps DEF SignalMapTask
<1>4. CASE JoinMappers
  <2>1. MapTypeOK' /\ PhaseInv' /\ Busy' = Busy
    BY <1>4 DEF JoinMappers, MapTypeOK, PhaseInv, Busy
  <2> QED
    BY <1>4, <2>1, QuietKeeps DEF JoinMappers
<1>5. ASSUME NEW m \in Mappers, CreateMapper(m) \/ WaitForTask(m) \/ WakeSpuriously(m)
      PROVE  MInv'
  <2>1. MapTypeOK' /\ PhaseInv' /\ Busy' = Busy
    BY <1>5 DEF CreateMapper, WaitForTask, WakeSpuriously, MapTypeOK, PhaseInv, Busy
  <2> QED
    BY <1>5, <2>1, QuietKeeps DEF CreateMapper, WaitForTask, WakeSpuriously
<1>6. ASSUME NEW m \in Mappers, Quit(m)
      PROVE  MInv'
  <2> DEFINE f == [mpc EXCEPT ![m] = "exit"]
  <2>1. f \in [Mappers -> {"none", "lock", "wait", "woken", "map", "exit"}]
    BY DEF MapTypeOK
  <2>2. Busy = {n \in Mappers : f[n] = "map"}
    BY <1>6 DEF MapTypeOK, Busy, Quit, AtHead
  <2>3. Busy' = Busy /\ MapTypeOK'
    BY <1>6, <2>1, <2>2, SignalKeepsBusy DEF Quit, MapTypeOK
  <2>4. PhaseInv'
    BY <1>6 DEF Quit, PhaseInv
  <2> QED
    BY <1>6, <2>3, <2>4, QuietKeeps DEF Quit
<1>7. CASE UNCHANGED mapVars
  <2>1. MapTypeOK' /\ PhaseInv' /\ Busy' = Busy
    BY <1>7 DEF mapVars, MapTypeOK, PhaseInv, Busy
  <2> QED
    BY <1>7, <2>1, QuietKeeps DEF mapVars
<1> QED
  BY <1>1, <1>2, <1>3, <1>4, <1>5, <1>6, <1>7, TakeKeeps, MapFileKeeps
     DEF MapNext, MapMain, Mapper

\* The three parts of the invariant hold in every reachable state of the map
\* phase, for any number of mappers and files and with or without wake-ups
\* nobody asked for.
THEOREM Invariance == MapSpec => []MInv
<1>1. MapInit => MInv
  <2> SUFFICES ASSUME MapInit
               PROVE  MInv
    OBVIOUS
  <2>1. submitted \in 0 .. NumFiles + 1 /\ mapTaskCount \in 0 .. submitted
    BY MapConstants DEF MapInit
  <2>2. MapTypeOK
    BY <2>1, Zenon DEF MapInit, MapTypeOK
  <2>3. PhaseInv
    BY MapConstants DEF MapInit, PhaseInv
  <2>4. QueueIsRest
    BY MapConstants DEF MapInit, QueueIsRest
  <2>5. Busy = {} /\ Taken = {} /\ mapped = {}
    BY DEF MapInit, Busy, Taken
  <2>6. FilesTakenOnce
    BY <2>5 DEF FilesTakenOnce
  <2> QED
    BY <2>2, <2>3, <2>4, <2>6 DEF MInv
<1> QED
  BY <1>1, StepKeeps, PTL DEF MapSpec

\* Type correctness of the map phase: in particular mapTaskCount, which a
\* mapper decrements without having tested it again, never goes below zero.
THEOREM TypeCorrect == MapSpec => []MapTypeOK
BY Invariance, PTL DEF MInv

\* mQueue always holds the files not taken yet in the order of argv, the final
\* task behind them, and NULL in the rest of the array.
THEOREM QueueInOrder == MapSpec => []QueueIsRest
BY Invariance, PTL DEF MInv

\* No file is handed to two mappers and none that left the queue is dropped.
THEOREM TakenOnce == MapSpec => []FilesTakenOnce
BY Invariance, PTL DEF MInv

\* A mapper that runs its map function runs it after MR_Run has stored pner.
THEOREM PartitionerInTime == MapSpec => []PartitionerReady
<1>1. MInv => PartitionerReady
  <2> SUFFICES ASSUME MInv, NEW m \in Busy
               PROVE  pner
    BY DEF PartitionerReady
  <2>1. task[m] \in Taken
    BY DEF MInv, FilesTakenOnce
  <2>2. submitted # 0
    BY <2>1 DEF MInv, MapTypeOK, Taken
  <2> QED
    BY <2>2 DEF MInv, PhaseInv
<1> QED
  BY <1>1, Invariance, PTL
=============================================================================
