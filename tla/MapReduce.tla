----------------------------- MODULE MapReduce -----------------------------
(***************************************************************************)
(* A whole MR_Run of p3a/mapreduce.c: the map phase (MapPool), whose       *)
(* mappers emit the words of their files into the partition lists, and the *)
(* reduce phase (ReducePhase), which starts from those lists.              *)
(*                                                                         *)
(* The client's Map function emits the words of a file one MR_Emit at a    *)
(* time; its Reduce function reads values until get_next returns NULL, as  *)
(* wordcount.c and hashmap_test.c do.  MR_Emit holds pLocks[p] around add, *)
(* which walks through the list before it changes it.                      *)
(***************************************************************************)
EXTENDS MapPool, ReducePhase

CONSTANT Content       \* Content[f]: the words of file f

VARIABLES position,    \* position[m]: words of its file mapper m has emitted
          adding       \* the mappers inside add

ASSUME ContentType == Content \in [Files -> Seq(Keys)] /\ Mappers \subseteq Threads

vars == <<mapVars, rVars, position, adding>>

Init ==
    /\ MapInit
    /\ IdleReducers
    /\ arr_part = [p \in Partitions |-> NoKey]
    /\ next_key = [k \in Keys |-> NoKey]
    /\ values = [k \in Keys |-> 0]
    /\ emitted = [k \in Keys |-> 0]
    /\ position = [m \in Mappers |-> 0]
    /\ adding = {}

\* What add does with the node of k that search returned, or NoKey: the value joins
\* its chain, or a new node becomes the head of the list.
add(k, result) ==
    /\ values' = [values EXCEPT ![k] = @ + 1]
    /\ IF result # NoKey
       THEN UNCHANGED <<arr_part, next_key>>
       ELSE /\ arr_part' = [arr_part EXCEPT ![PartOf[k]] = k]
            /\ next_key' = [next_key EXCEPT ![k] = arr_part[PartOf[k]]]

\* The next word of mapper m's file.
Word(m) == Content[task[m]][position[m] + 1]

\* MR_Emit locks the partition, and add calls search.
MR_Emit(m) ==
    /\ mpc[m] = "map" /\ m \notin adding
    /\ position[m] < Len(Content[task[m]])
    /\ pLocks[PartOf[Word(m)]] = FreeLock
    /\ pLocks' = [pLocks EXCEPT ![PartOf[Word(m)]] = m]
    /\ StartSearch(m, PartOf[Word(m)])
    /\ adding' = adding \cup {m}
    /\ UNCHANGED <<build, mapVars, mainVars, arr_part, next_key, values, emitted, queueVars,
                   rpc, key, count, reduced, position>>

\* A turn of the loop of search in add.
WalkInAdd(m) ==
    /\ m \in adding
    /\ SearchTurn(m, Word(m))
    /\ UNCHANGED <<build, mapVars, mainVars, arr_part, next_key, values, emitted, queueVars,
                   pLocks, rpc, key, count, reduced, position, adding>>

\* search has returned: the rest of add, and MR_Emit unlocks.
FinishEmit(m) ==
    LET k == Word(m) IN
    /\ m \in adding
    /\ AtNode(m, k) \/ AtEnd(m)
    /\ add(k, current[Cell(m)])
    /\ emitted' = [emitted EXCEPT ![k] = @ + 1]
    /\ pLocks' = [pLocks EXCEPT ![PartOf[k]] = FreeLock]
    /\ position' = [position EXCEPT ![m] = @ + 1]
    /\ adding' = adding \ {m}
    /\ UNCHANGED <<build, mapVars, mainVars, current, queueVars, rpc, key, count, reduced>>

\* The client's Map function returns at the end of the file.
FinishFile(m) ==
    /\ mpc[m] = "map"
    /\ position[m] = Len(Content[task[m]])
    /\ MapFile(m)
    /\ position' = [position EXCEPT ![m] = 0]
    /\ UNCHANGED <<rVars, adding>>

MapStep(m) ==
    /\ CreateMapper(m) \/ WaitForTask(m) \/ TakeTask(m) \/ Quit(m)
    /\ UNCHANGED <<rVars, position, adding>>

MainStep == MapMain /\ UNCHANGED <<rVars, position, adding>>

\* MR_Run goes on to the reduce phase once the mappers are joined.
ReduceStep ==
    /\ mainpc = "joined"
    /\ ReduceMain \/ \E r \in Reducers : Reducer(r)
    /\ UNCHANGED <<build, mapVars, position, adding>>

\* pthread_cond_wait returns to a thread nobody has signalled.
SpuriousStep ==
    \/ \E m \in Mappers : WakeSpuriously(m) /\ UNCHANGED <<rVars, position, adding>>
    \/ \E r \in Reducers : WakeReducer(r) /\ UNCHANGED <<build, mapVars, position, adding>>

Work ==
    \/ MainStep \/ ReduceStep
    \/ \E m \in Mappers : MapStep(m) \/ FinishFile(m)
                        \/ MR_Emit(m) \/ WalkInAdd(m) \/ FinishEmit(m)

Next == Work \/ SpuriousStep

\* Every thread that can run does; a wake-up nobody asked for is not owed.
\* No step can be taken for ever, so it is enough that the system as a whole
\* does not idle while a thread has work.
Spec == Init /\ [][Next]_vars /\ WF_vars(Work)

-----------------------------------------------------------------------------
\* How often word k occurs in the files of S.
Occurrences(k, S) ==
    FoldSet(LAMBDA f, n : n + Cardinality({i \in DOMAIN Content[f] : Content[f][i] = k}),
            0, S)

\* However the mappers' calls of MR_Emit and the turns of their searches interleave,
\* the lists the reduce phase starts from hold every word of the mapped files, once
\* per occurrence and in one node.  This is claimed for the builds of SearchPrivate:
\* searches in two partitions that share the current in memory break it.
ListsMatchFiles ==
    mainpc = "joined" /\ rmain = "sort" =>
        \A k \in Keys :
            /\ values[k] = Occurrences(k, mapped)
            /\ Contains(KeyList(PartOf[k]), k) <=> values[k] > 0
            /\ Cardinality({i \in DOMAIN KeyList(PartOf[k]) : KeyList(PartOf[k])[i] = k}) <= 1

\* A count the client's Reduce function reports is the number of times the
\* word occurs in the files that were mapped, however the mappers, MR_Run's
\* walk over the lists and the searches and unlinks of the reducers interleaved,
\* for the builds of SearchPrivate.
CountsMatchFiles ==
    \A k \in Keys : reduced[k] # <<>> => reduced[k] = <<Occurrences(k, mapped)>>

\* MR_Run called with a single reducer returns, however often its threads are woken:
\* nobody is left waiting on condQueue.  With two it need not: startReduceThread leaves
\* on the final task without the signal that startMapThread gives, and a second reducer
\* that is waiting waits for ever.
MR_RunReturns ==
    (\E r \in Reducers : \A q \in Reducers : rpc[q] = "none" <=> q = r)
        => <>(rmain = "returned")
=============================================================================
