----------------------------- MODULE FilesProofs ----------------------------
(***************************************************************************)
(* Open files and pipes for any number of processes, entries, descriptors  *)
(* and bytes: no pipe is used after it is freed, an end is open exactly    *)
(* while something refers to it, no process sleeps without a reason, and   *)
(* a ring whose counters wrap is a queue of the bytes between them.        *)
(***************************************************************************)
EXTENDS Files, FiniteSetTheorems, TLAPS

Closing(p) == pc[p] \in {"pipeclose", "pipeclose_exit"}

\* The struct file f is end e of pipe i.
IsEnd(f, i, e) == file[f].type = e /\ file[f].pipe = i

\* p is closing end e of pipe i.
Closes(p, i, e) == Closing(p) /\ at[p] = i /\ end[p] = e

Open(i, e) == IF e = "read" THEN pipe[i].readopen ELSE pipe[i].writeopen

\* The descriptors that refer to f, one token for each.
Refs(f) == {d \in Proc \X (1 .. NOFILE) : d[2] <= ofile[d[1]][f]}

\* ref counts the descriptors, and an entry is an end of a pipe in use while it has any.
FileInv ==
    \A f \in File :
        /\ file[f].ref = Cardinality(Refs(f))
        /\ file[f].ref = 0 => file[f] = FreeFile
        /\ file[f].ref > 0 => file[f].type \in Ends /\ file[f].pipe \in used

\* Each end of a pipe is one entry, or one pipeclose.
EndInv ==
    \A i \in Pipe, e \in Ends :
        /\ \A f, g \in File : IsEnd(f, i, e) /\ IsEnd(g, i, e) => f = g
        /\ \A p, q \in Proc : Closes(p, i, e) /\ Closes(q, i, e) => p = q
        /\ \A p \in Proc, f \in File : ~(Closes(p, i, e) /\ IsEnd(f, i, e))

OpenInv ==
    \A i \in used, e \in Ends :
        Open(i, e) <=> \/ \E f \in File : IsEnd(f, i, e)
                       \/ \E p \in Proc : Closes(p, i, e)

Place == {"unused", "user", "exit", "pipeclose", "pipeclose_exit"} \cup InRead \cup InWrite

\* Where a process is, and what it holds on to there.
CallInv ==
    /\ pc \in [Proc -> Place]
    /\ \A p \in Proc :
        /\ pc[p] = "unused" => \A f \in File : ofile[p][f] = 0
        /\ Closing(p) => at[p] \in used
        /\ pc[p] \in InRead => Holds(p, at[p], "read")
        /\ pc[p] \in InWrite => Holds(p, at[p], "write")

RingInv == \A i \in Pipe : Count(i) <= PIPESIZE

IInv == TypeOK /\ FileInv /\ EndInv /\ OpenInv /\ CallInv /\ RingInv /\ SleepersJustified

-----------------------------------------------------------------------------
\* The constants.
LEMMA Sizes ==
    /\ NFILE \in Nat /\ NOFILE \in Nat /\ PIPESIZE \in Nat /\ UWRAP \in Nat
    /\ NFILE > 0 /\ NOFILE > 0 /\ PIPESIZE > 0 /\ UWRAP > PIPESIZE
    /\ IsFiniteSet(Proc) /\ NoPipe \notin Pipe
    /\ "read" \in Ends /\ "write" \in Ends /\ "NONE" \notin Ends
BY FileConstants DEF Ends

\* An unsigned counter wraps at most once.
LEMMA WrapOnce ==
    ASSUME NEW x \in 0 .. 2 * UWRAP - 1
    PROVE  x % UWRAP = IF x < UWRAP THEN x ELSE x - UWRAP
BY Sizes

\* The difference of two unsigned counters.
LEMMA WrapBack ==
    ASSUME NEW x \in 0 .. UWRAP - 1, NEW y \in 0 .. UWRAP - 1
    PROVE  (x - y) % UWRAP = IF x >= y THEN x - y ELSE x - y + UWRAP
BY Sizes

\* What the counters of a pipe say about its contents.
LEMMA RingFacts ==
    ASSUME TypeOK, NEW i \in Pipe
    PROVE  /\ Count(i) \in Nat
           /\ Empty(i) <=> Count(i) = 0
           /\ Full(i) <=> Count(i) = PIPESIZE
<1>1. pipe[i].nread \in 0 .. UWRAP - 1 /\ pipe[i].nwrite \in 0 .. UWRAP - 1
  BY Zenon DEF TypeOK
<1>2. Count(i) = IF pipe[i].nwrite >= pipe[i].nread THEN pipe[i].nwrite - pipe[i].nread
                 ELSE pipe[i].nwrite - pipe[i].nread + UWRAP
  BY <1>1, WrapBack, Zenon DEF Count
<1>3. (pipe[i].nread + PIPESIZE) % UWRAP =
          IF pipe[i].nread + PIPESIZE < UWRAP THEN pipe[i].nread + PIPESIZE
          ELSE (pipe[i].nread + PIPESIZE) - UWRAP
  <2> DEFINE x == pipe[i].nread + PIPESIZE
  <2>1. x \in 0 .. 2 * UWRAP - 1
    BY <1>1, Sizes
  <2> HIDE DEF x
  <2>2. x % UWRAP = IF x < UWRAP THEN x ELSE x - UWRAP
    BY <2>1, WrapOnce, Zenon
  <2> QED
    BY <2>2, Zenon DEF x
<1>4. Count(i) \in Nat
  BY <1>1, <1>2, Sizes
<1>5. Empty(i) <=> Count(i) = 0
  BY <1>1, <1>2, Sizes DEF Empty
<1>6. Full(i) <=> Count(i) = PIPESIZE
  BY <1>1, <1>2, <1>3, Sizes DEF Full
<1> QED
  BY <1>4, <1>5, <1>6, Zenon

\* A step that leaves the ends and the pipes as they are.
LEMMA SameEnds ==
    ASSUME EndInv, OpenInv, RingInv, UNCHANGED <<pipe, used>>,
           \A f \in File, i \in Pipe, e \in Ends : IsEnd(f, i, e)' <=> IsEnd(f, i, e),
           \A p \in Proc, i \in Pipe, e \in Ends : Closes(p, i, e)' <=> Closes(p, i, e),
           used \subseteq Pipe
    PROVE  EndInv' /\ OpenInv' /\ RingInv'
<1>1. EndInv'
  BY Zenon DEF EndInv
<1>2. OpenInv'
  <2>1. \A i, e : Open(i, e)' <=> Open(i, e)
    BY Zenon DEF Open
  <2> QED
    BY <2>1, Zenon DEF OpenInv
<1>3. RingInv'
  BY Zenon DEF RingInv, Count
<1> QED
  BY <1>1, <1>2, <1>3, Zenon

\* A sleeper that keeps its place, in a pipe that does not change.
LEMMA SameSleepers ==
    ASSUME SleepersJustified, UNCHANGED pipe, unsung \subseteq unsung',
           \A p \in Proc : pc'[p] \in {"asleep_read", "asleep_write"} =>
                               pc'[p] = pc[p] /\ at'[p] = at[p]
    PROVE  SleepersJustified'
BY Zenon DEF SleepersJustified, Empty, Full

\* A process in a read or a write holds an end of a pipe in use.
LEMMA InUse ==
    ASSUME IInv, NEW p \in Proc
    PROVE  /\ pc[p] \in InRead => at[p] \in used /\ \E f \in File : IsEnd(f, at[p], "read")
           /\ pc[p] \in InWrite => at[p] \in used /\ \E f \in File : IsEnd(f, at[p], "write")
<1>1. \A f \in File : file[f].type \in Ends => file[f].pipe \in used
  BY Sizes DEF IInv, TypeOK, FileInv, FreeFile
<1>2. \A i : \A e \in Ends : Holds(p, i, e) => i \in used /\ \E f \in File : IsEnd(f, i, e)
  BY <1>1, Zenon DEF Holds, IsEnd
<1> QED
  BY <1>2, Sizes, Zenon DEF IInv, CallInv

\* What a step that goes on with a call may do: it leaves the descriptors, the ends and
\* the closers alone, and whoever is in a read or a write holds its end.
CallMove ==
    /\ UNCHANGED <<file, ofile, used>>
    /\ \A i \in Pipe : /\ pipe'[i].readopen = pipe[i].readopen
                       /\ pipe'[i].writeopen = pipe[i].writeopen
    /\ pc' \in [Proc -> Place]
    /\ \A q \in Proc :
        /\ Closing(q)' <=> Closing(q)
        /\ Closing(q) => at'[q] = at[q] /\ end'[q] = end[q]
        /\ pc'[q] \in InRead => Holds(q, at'[q], "read")
        /\ pc'[q] \in InWrite => Holds(q, at'[q], "write")
        /\ pc'[q] = "unused" => \A f \in File : ofile[q][f] = 0

LEMMA CallMoveKeeps ==
    ASSUME IInv, CallMove
    PROVE  FileInv' /\ EndInv' /\ OpenInv' /\ CallInv'
<1>1. UNCHANGED <<file, ofile, used>> /\ used \subseteq Pipe
  BY Zenon DEF CallMove, IInv, TypeOK
<1>2. \A q \in Proc, i \in Pipe, e \in Ends : Closes(q, i, e)' <=> Closes(q, i, e)
  BY Zenon DEF CallMove, Closes
<1>3. \A f \in File, i \in Pipe, e \in Ends : IsEnd(f, i, e)' <=> IsEnd(f, i, e)
  BY <1>1, Zenon DEF IsEnd
<1>4. FileInv'
  <2>1. \A f \in File : Refs(f)' = Refs(f)
    BY <1>1, Zenon DEF Refs
  <2> QED
    BY <1>1, <2>1, Zenon DEF IInv, FileInv
<1>5. EndInv'
  BY <1>2, <1>3, Zenon DEF IInv, EndInv
<1>6. OpenInv'
  <2>1. \A i \in used, e \in Ends : Open(i, e)' <=> Open(i, e)
    BY <1>1, Zenon DEF Open, CallMove
  <2> QED
    BY <1>1, <1>2, <1>3, <2>1, Zenon DEF IInv, OpenInv
<1>7. CallInv'
  <2>1. \A q \in Proc : \A i, e : Holds(q, i, e)' <=> Holds(q, i, e)
    BY <1>1, Zenon DEF Holds
  <2> QED
    BY <1>1, <2>1 DEF IInv, CallInv, CallMove
<1> QED
  BY <1>4, <1>5, <1>6, <1>7, Zenon

\* The places of a process that begins, ends or leaves a call.
LEMMA Places ==
    /\ {"unused", "user", "exit"} \cap (InRead \cup InWrite) = {}
    /\ InRead \cap InWrite = {}
    /\ {"pipeclose", "pipeclose_exit"} \cap (InRead \cup InWrite) = {}
    /\ InRead = {"piperead", "asleep_read"} /\ InWrite = {"pipewrite", "asleep_write"}
    /\ InRead \cup InWrite \subseteq Place
    /\ {"unused", "user", "exit", "pipeclose", "pipeclose_exit"} \subseteq Place
BY Zenon DEF InRead, InWrite, Place

\* A process that goes on with a read or a write, or returns from it, and leaves the others
\* where they are or only wakes them.
LEMMA CallerMoves ==
    ASSUME IInv, NEW p \in Proc,
           UNCHANGED <<file, ofile, used, end>>, pc' \in [Proc -> Place],
           \A j \in Pipe : /\ pipe'[j].readopen = pipe[j].readopen
                           /\ pipe'[j].writeopen = pipe[j].writeopen,
           \A q \in Proc \ {p} : /\ at'[q] = at[q]
                                 /\ pc'[q] \in InRead <=> pc[q] \in InRead
                                 /\ pc'[q] \in InWrite <=> pc[q] \in InWrite
                                 /\ Closing(q)' <=> Closing(q)
                                 /\ pc'[q] = "unused" <=> pc[q] = "unused",
           ~Closing(p), ~Closing(p)', pc'[p] # "unused",
           pc'[p] \in InRead => Holds(p, at'[p], "read"),
           pc'[p] \in InWrite => Holds(p, at'[p], "write")
    PROVE  CallMove
<1>1. \A q \in Proc : /\ pc[q] \in InRead => Holds(q, at[q], "read")
                      /\ pc[q] \in InWrite => Holds(q, at[q], "write")
                      /\ pc[q] = "unused" => \A f \in File : ofile[q][f] = 0
  BY Zenon DEF IInv, CallInv
<1> QED
  BY <1>1, Zenon DEF CallMove

\* A process that moves on its own, from user mode or to it.
LEMMA GotoFacts ==
    ASSUME IInv, NEW p \in Proc, NEW l \in Place, Goto(p, l)
    PROVE  /\ pc'[p] = l /\ (\A q \in Proc \ {p} : pc'[q] = pc[q])
           /\ pc' \in [Proc -> Place] /\ unsung' = unsung
BY Zenon DEF Goto, IInv, CallInv

\* A step that changes nothing.
LEMMA StutterStep ==
    ASSUME IInv, UNCHANGED vars
    PROVE  IInv'
<1>1. UNCHANGED <<file, ofile, pipe, used, pc, killed, at, end, left, want, unsung>>
  BY Zenon DEF vars
<1>2. CallMove
  BY <1>1, Zenon DEF CallMove, Closing, IInv, CallInv
<1>3. TypeOK' /\ RingInv'
  BY <1>1, Zenon DEF IInv, TypeOK, RingInv, Count
<1>4. SleepersJustified'
  BY <1>1, SameSleepers, Zenon DEF IInv
<1> QED
  BY <1>2, <1>3, <1>4, CallMoveKeeps, Zenon DEF IInv

-----------------------------------------------------------------------------
\* wakeup moves the sleepers of one side of a pipe back to their loops, and the caller
\* to l.
Woken(p, i, s, l) ==
    /\ pc'[p] = l /\ pc' \in [Proc -> Place]
    /\ \A q \in Proc \ {p} : /\ pc'[q] \in InRead <=> pc[q] \in InRead
                             /\ pc'[q] \in InWrite <=> pc[q] \in InWrite
                             /\ Closing(q)' <=> Closing(q)
                             /\ pc'[q] = "unused" <=> pc[q] = "unused"
                             /\ pc'[q] \in {"asleep_read", "asleep_write"} =>
                                   pc'[q] = pc[q] /\ ~(at[q] = i /\ pc[q] = s)
    /\ unsung' = IF s = "asleep_read" THEN unsung \ {i} ELSE unsung

LEMMA WakeFacts ==
    ASSUME IInv, NEW p \in Proc, NEW i, NEW s \in {"asleep_read", "asleep_write"},
           NEW l \in Place, wakeup(i, s, p, l)
    PROVE  Woken(p, i, s, l)
<1>1. pc \in [Proc -> Place]
  BY Zenon DEF IInv, CallInv
<1>2. /\ pc'[p] = l
      /\ \A q \in Proc \ {p} :
            \/ pc'[q] = pc[q] /\ ~(at[q] = i /\ pc[q] = s)
            \/ pc[q] = "asleep_read" /\ pc'[q] = "piperead"
            \/ pc[q] = "asleep_write" /\ pc'[q] = "pipewrite"
  BY Zenon DEF wakeup
<1>3. pc' \in [Proc -> Place]
  BY <1>1, Places, Zenon DEF wakeup
<1> QED
  BY <1>2, <1>3, Places, Zenon DEF Woken, wakeup, Closing

\* The record of a pipe.
PipeRecord == [nread : 0 .. UWRAP - 1, nwrite : 0 .. UWRAP - 1,
               readopen : BOOLEAN, writeopen : BOOLEAN,
               data : [0 .. PIPESIZE - 1 -> Byte]]

\* A pipe that pipealloc has just made, and an entry nobody uses.
LEMMA Fresh ==
    /\ NewPipe \in [nread : 0 .. UWRAP - 1, nwrite : 0 .. UWRAP - 1,
                    readopen : BOOLEAN, writeopen : BOOLEAN,
                    data : [0 .. PIPESIZE - 1 -> Byte]]
    /\ NewPipe.nread = 0 /\ NewPipe.nwrite = 0 /\ (0 - 0) % UWRAP = 0
    /\ NewPipe.readopen /\ NewPipe.writeopen
    /\ FreeFile \in [ref : Nat, type : Ends \cup {"NONE"}, pipe : Pipe \cup {NoPipe}]
    /\ FreeFile.ref = 0 /\ FreeFile.type = "NONE" /\ FreeFile.pipe = NoPipe
<1>1. (CHOOSE c \in Byte : TRUE) \in Byte
  BY FileConstants, Zenon
<1>2. (0 - 0) % UWRAP = 0
  BY Sizes
<1>3. 0 \in 0 .. UWRAP - 1
  BY Sizes
<1>4. [k \in 0 .. PIPESIZE - 1 |-> CHOOSE c \in Byte : TRUE] \in [0 .. PIPESIZE - 1 -> Byte]
  BY <1>1, Zenon
<1> QED
  BY <1>2, <1>3, <1>4, Zenon DEF NewPipe, FreeFile

\* Nobody is in a read or a write of an end that is being closed, and nothing else is or
\* closes that end.
LEMMA CloserAlone ==
    ASSUME IInv, NEW p \in Proc, NEW i \in Pipe, NEW e \in Ends, Closes(p, i, e)
    PROVE  /\ \A f \in File : ~IsEnd(f, i, e)
           /\ \A q \in Proc \ {p} : ~Closes(q, i, e)
           /\ e = "read" => \A q \in Proc : ~(pc[q] \in InRead /\ at[q] = i)
           /\ e = "write" => \A q \in Proc : ~(pc[q] \in InWrite /\ at[q] = i)
<1>1. \A f \in File : ~IsEnd(f, i, e)
  BY Zenon DEF IInv, EndInv
<1>2. \A q \in Proc \ {p} : ~Closes(q, i, e)
  BY Zenon DEF IInv, EndInv
<1> QED
  BY <1>1, <1>2, InUse, Zenon

\* pipeclose closes one end of the pipe, and frees the page when the other end is closed:
\* nobody is in the pipe any more then.
LEMMA PipeCloseStep ==
    ASSUME IInv, NEW p \in Proc, pipeclose(p)
    PROVE  IInv'
<1>0. PICK i, e : i = at[p] /\ e = end[p]
  BY Zenon
<1> DEFINE s == IF e = "write" THEN "asleep_read" ELSE "asleep_write"
<1> DEFINE l == IF pc[p] = "pipeclose" THEN "user" ELSE "exit"
<1>1. /\ pc[p] \in {"pipeclose", "pipeclose_exit"} /\ wakeup(i, s, p, l)
      /\ at' = [at EXCEPT ![p] = NoPipe] /\ end' = [end EXCEPT ![p] = "read"]
      /\ UNCHANGED <<file, ofile, killed, left, want>>
  BY <1>0, Zenon DEF pipeclose
<1>2. IF Unused(Closed(i, e))
      THEN pipe' = [pipe EXCEPT ![i] = NewPipe] /\ used' = used \ {i}
      ELSE pipe' = [pipe EXCEPT ![i] = Closed(i, e)] /\ UNCHANGED used
  BY <1>0, Zenon DEF pipeclose
<1>3. /\ i \in used /\ i \in Pipe /\ e \in Ends /\ Closes(p, i, e)
      /\ s \in {"asleep_read", "asleep_write"} /\ l \in {"user", "exit"}
      /\ used \subseteq Pipe
  BY <1>0, <1>1, Zenon DEF IInv, CallInv, TypeOK, Closes, Closing
<1>4. /\ \A f \in File : ~IsEnd(f, i, e)
      /\ \A q \in Proc \ {p} : ~Closes(q, i, e)
      /\ e = "read" => \A q \in Proc : ~(pc[q] \in InRead /\ at[q] = i)
      /\ e = "write" => \A q \in Proc : ~(pc[q] \in InWrite /\ at[q] = i)
  BY <1>3, CloserAlone, Zenon
<1>5. Woken(p, i, s, l)
  BY <1>1, <1>3, WakeFacts, Places, Zenon
<1> HIDE DEF s, l
<1>6. /\ pc' \in [Proc -> Place] /\ pc'[p] \in {"user", "exit"}
      /\ unsung \ {i} \subseteq unsung' /\ (e = "read" => unsung' = unsung)
      /\ \A q \in Proc \ {p} : /\ at'[q] = at[q] /\ end'[q] = end[q]
                               /\ pc'[q] \in InRead <=> pc[q] \in InRead
                               /\ pc'[q] \in InWrite <=> pc[q] \in InWrite
                               /\ Closing(q)' <=> Closing(q)
                               /\ pc'[q] = "unused" <=> pc[q] = "unused"
      /\ \A q \in Proc \ {p} : pc'[q] \in {"asleep_read", "asleep_write"} =>
                                  pc'[q] = pc[q] /\ ~(at[q] = i /\ pc[q] = s)
  BY <1>1, <1>3, <1>5, Zenon DEF Woken, IInv, TypeOK, s
<1>7. /\ pipe[i] \in PipeRecord /\ Closed(i, e) \in PipeRecord
      /\ Closed(i, e).nread = pipe[i].nread /\ Closed(i, e).nwrite = pipe[i].nwrite
      /\ Closed(i, e).readopen = (pipe[i].readopen /\ e # "read")
      /\ Closed(i, e).writeopen = (pipe[i].writeopen /\ e # "write")
  <2>1. pipe[i] \in PipeRecord
    BY <1>3, Zenon DEF IInv, TypeOK, PipeRecord
  <2>2. (pipe[i].readopen /\ e # "read") \in BOOLEAN /\ (pipe[i].writeopen /\ e # "write") \in BOOLEAN
    BY Zenon
  <2> QED
    BY <2>1, <2>2, Zenon DEF Closed, PipeRecord
<1>8. Unused(Closed(i, e)) => /\ \A f \in File, x \in Ends : ~IsEnd(f, i, x)
                              /\ \A q \in Proc \ {p}, x \in Ends : ~Closes(q, i, x)
  <2> SUFFICES ASSUME Unused(Closed(i, e)), NEW x \in Ends
               PROVE  /\ \A f \in File : ~IsEnd(f, i, x)
                      /\ \A q \in Proc \ {p} : ~Closes(q, i, x)
    BY Zenon
  <2>1. x # e => ~Open(i, x)
    BY <1>3, <1>7, Zenon DEF Unused, Open, Ends
  <2>2. x # e => /\ \A f \in File : ~IsEnd(f, i, x)
                 /\ \A q \in Proc : ~Closes(q, i, x)
    BY <1>3, <2>1, Zenon DEF IInv, OpenInv
  <2> QED
    BY <1>4, <2>2, Zenon
<1>9. /\ \A f \in File : \A j, x : IsEnd(f, j, x)' <=> IsEnd(f, j, x)
      /\ \A q \in Proc : \A j, x : Closes(q, j, x)' <=> q # p /\ Closes(q, j, x)
  BY <1>1, <1>6, Zenon DEF IsEnd, Closes, Closing
<1>10. /\ pipe' \in [Pipe -> PipeRecord] /\ used' \subseteq used
       /\ \A j \in Pipe \ {i} : pipe'[j] = pipe[j] /\ (j \in used' <=> j \in used)
       /\ i \in used' => ~Unused(Closed(i, e)) /\ pipe'[i] = Closed(i, e)
       /\ pipe'[i] \in {NewPipe, Closed(i, e)}
  <2>1. NewPipe \in PipeRecord /\ pipe \in [Pipe -> PipeRecord]
    BY Fresh, Zenon DEF IInv, TypeOK, PipeRecord
  <2> QED
    BY <1>2, <1>3, <1>7, <2>1, Zenon
<1>11. TypeOK'
  <2>1. at' \in [Proc -> Pipe \cup {NoPipe}] /\ end' \in [Proc -> Ends]
    BY <1>1, Sizes, Zenon DEF IInv, TypeOK
  <2> QED
    BY <1>1, <1>3, <1>10, <2>1, Zenon DEF IInv, TypeOK, PipeRecord
<1>12. RingInv'
  <2>1. Count(i)' <= PIPESIZE
    <3>1. CASE pipe'[i] = NewPipe
      BY <3>1, Fresh, Sizes DEF Count
    <3>2. CASE pipe'[i] = Closed(i, e)
      BY <1>3, <1>7, <3>2, Zenon DEF Count, IInv, RingInv
    <3> QED
      BY <1>10, <3>1, <3>2, Zenon
  <2> QED
    BY <1>10, <2>1, Zenon DEF IInv, RingInv, Count
<1>13. FileInv'
  <2>1. \A f \in File : Refs(f)' = Refs(f)
    BY <1>1, Zenon DEF Refs
  <2>2. \A f \in File : file[f].ref > 0 => file[f].type \in Ends /\ file[f].pipe \in used'
    <3> SUFFICES ASSUME NEW f \in File, file[f].ref > 0
                 PROVE  file[f].type \in Ends /\ file[f].pipe \in used'
      BY Zenon
    <3>1. file[f].type \in Ends /\ file[f].pipe \in used
      BY Zenon DEF IInv, FileInv
    <3>2. file[f].pipe = i => ~Unused(Closed(i, e))
      BY <1>8, <3>1, Zenon DEF IsEnd
    <3> QED
      BY <1>2, <3>1, <3>2, Zenon
  <2> QED
    BY <1>1, <2>1, <2>2, Zenon DEF IInv, FileInv
<1>14. EndInv'
  BY <1>9, Zenon DEF IInv, EndInv
<1>15. OpenInv'
  <2> SUFFICES ASSUME NEW j \in used', NEW x \in Ends
               PROVE  Open(j, x)' <=> \/ \E f \in File : IsEnd(f, j, x)'
                                      \/ \E q \in Proc : Closes(q, j, x)'
    BY Zenon DEF OpenInv
  <2>1. j \in used /\ j \in Pipe
    BY <1>3, <1>10, Zenon
  <2>2. Open(j, x) <=> \/ \E f \in File : IsEnd(f, j, x)
                       \/ \E q \in Proc : Closes(q, j, x)
    BY <2>1, Zenon DEF IInv, OpenInv
  <2>3. CASE j = i /\ x = e
    <3>1. ~Open(j, x)'
      BY <1>3, <1>7, <1>10, <2>3, Zenon DEF Open, Ends
    <3> QED
      BY <1>4, <1>9, <2>3, <3>1, Zenon
  <2>4. CASE ~(j = i /\ x = e)
    <3>1. ~Closes(p, j, x)
      BY <1>0, <2>4, Zenon DEF Closes
    <3>2. Open(j, x)' <=> Open(j, x)
      BY <1>3, <1>7, <1>10, <2>1, <2>4, Zenon DEF Open, Ends
    <3> QED
      BY <1>9, <2>2, <3>1, <3>2, Zenon
  <2> QED
    BY <2>3, <2>4, Zenon
<1>16. CallInv'
  <2>1. \A q \in Proc : \A j, x : Holds(q, j, x)' <=> Holds(q, j, x)
    BY <1>1, Zenon DEF Holds
  <2>2. \A q \in Proc \ {p} : Closing(q) => at[q] \in used'
    <3> SUFFICES ASSUME NEW q \in Proc \ {p}, Closing(q) PROVE at[q] \in used'
      BY Zenon
    <3>1. at[q] \in used /\ end[q] \in Ends
      BY Zenon DEF IInv, CallInv, TypeOK
    <3>2. at[q] = i => ~Unused(Closed(i, e))
      BY <1>8, <3>1, Zenon DEF Closes
    <3> QED
      BY <1>2, <3>1, <3>2, Zenon
  <2> QED
    BY <1>1, <1>6, <2>1, <2>2, Places DEF IInv, CallInv, Closing
<1>17. SleepersJustified'
  <2>1. ASSUME NEW q \in Proc, pc'[q] \in {"asleep_read", "asleep_write"}
        PROVE  /\ pc'[q] = pc[q] /\ at'[q] = at[q] /\ at[q] \in Pipe \ {i}
               /\ at[q] \in unsung => at[q] \in unsung'
    <3>1. q # p /\ pc'[q] = pc[q] /\ at'[q] = at[q] /\ ~(at[q] = i /\ pc[q] = s)
      BY <1>6, <2>1, Zenon
    <3>2. at[q] \in Pipe
      BY <2>1, <3>1, InUse, Places, Zenon DEF IInv, TypeOK
    <3>3. at[q] # i
      BY <1>3, <1>4, <2>1, <3>1, Places, Zenon DEF s, Ends
    <3> QED
      BY <1>6, <3>1, <3>2, <3>3, Zenon
  <2> QED
    BY <1>10, <2>1 DEF IInv, SleepersJustified, Empty, Full
<1> QED
  BY <1>11, <1>12, <1>13, <1>14, <1>15, <1>16, <1>17, Zenon DEF IInv

-----------------------------------------------------------------------------
\* A counter of a pipe after n more bytes.
LEMMA Advanced ==
    ASSUME NEW c \in 0 .. UWRAP - 1, NEW n \in 0 .. PIPESIZE
    PROVE  /\ (c + n) % UWRAP = IF c + n < UWRAP THEN c + n ELSE (c + n) - UWRAP
           /\ (c + n) % UWRAP \in 0 .. UWRAP - 1
<1> DEFINE x == c + n
<1>1. x \in 0 .. 2 * UWRAP - 1
  BY Sizes
<1> HIDE DEF x
<1>2. x % UWRAP = IF x < UWRAP THEN x ELSE x - UWRAP
  BY <1>1, WrapOnce, Zenon
<1>3. x % UWRAP \in 0 .. UWRAP - 1
  BY <1>1, <1>2, Sizes
<1> QED
  BY <1>2, <1>3, Zenon DEF x

\* An index of the ring.
LEMMA RingIndex ==
    ASSUME NEW a \in Int
    PROVE  a % PIPESIZE \in 0 .. PIPESIZE - 1
BY Sizes

\* The number of bytes between two counters after n more are written.
LEMMA Written ==
    ASSUME NEW r \in 0 .. UWRAP - 1, NEW v \in 0 .. UWRAP - 1, NEW n \in 0 .. PIPESIZE,
           ((v - r) % UWRAP) + n <= PIPESIZE
    PROVE  (((v + n) % UWRAP) - r) % UWRAP = ((v - r) % UWRAP) + n
<1> DEFINE w == (v + n) % UWRAP
<1> DEFINE c == (v - r) % UWRAP
<1>1. w = (IF v + n < UWRAP THEN v + n ELSE (v + n) - UWRAP) /\ w \in 0 .. UWRAP - 1
  BY Advanced, Zenon
<1>2. c = IF v >= r THEN v - r ELSE v - r + UWRAP
  BY WrapBack, Zenon
<1>3. c + n <= PIPESIZE
  BY Zenon
<1> HIDE DEF w, c
<1>4. (w - r) % UWRAP = IF w >= r THEN w - r ELSE w - r + UWRAP
  BY <1>1, WrapBack, Zenon
<1>5. (w - r) % UWRAP = c + n
  BY <1>1, <1>2, <1>3, <1>4, Sizes
<1> QED
  BY <1>5, Zenon DEF w, c

\* The same after n of them are read.
LEMMA Taken ==
    ASSUME NEW r \in 0 .. UWRAP - 1, NEW v \in 0 .. UWRAP - 1, NEW n \in 0 .. PIPESIZE,
           n <= (v - r) % UWRAP
    PROVE  (v - ((r + n) % UWRAP)) % UWRAP = ((v - r) % UWRAP) - n
<1> DEFINE w == (r + n) % UWRAP
<1> DEFINE c == (v - r) % UWRAP
<1>1. w = (IF r + n < UWRAP THEN r + n ELSE (r + n) - UWRAP) /\ w \in 0 .. UWRAP - 1
  BY Advanced, Zenon
<1>2. c = IF v >= r THEN v - r ELSE v - r + UWRAP
  BY WrapBack, Zenon
<1>3. n <= c
  BY Zenon
<1> HIDE DEF w, c
<1>4. (v - w) % UWRAP = IF v >= w THEN v - w ELSE v - w + UWRAP
  BY <1>1, WrapBack, Zenon
<1>5. (v - w) % UWRAP = c - n
  BY <1>1, <1>2, <1>3, <1>4, Sizes
<1> QED
  BY <1>5, Zenon DEF w, c

\* Writing the bytes s, for which there is room, adds them to the pipe's contents.
LEMMA PutFacts ==
    ASSUME TypeOK, RingInv, NEW i \in Pipe, NEW s \in Seq(Byte), Len(s) <= Room(i),
           pipe' = [pipe EXCEPT ![i] = Put(i, s)]
    PROVE  /\ pipe' \in [Pipe -> PipeRecord]
           /\ \A j \in Pipe \ {i} : pipe'[j] = pipe[j]
           /\ pipe'[i].readopen = pipe[i].readopen /\ pipe'[i].writeopen = pipe[i].writeopen
           /\ pipe'[i].nread = pipe[i].nread
           /\ Count(i)' = Count(i) + Len(s) /\ Count(i)' <= PIPESIZE
<1>1. /\ pipe[i] \in PipeRecord /\ pipe \in [Pipe -> PipeRecord] /\ Len(s) \in Nat
      /\ pipe[i].nread \in 0 .. UWRAP - 1 /\ pipe[i].nwrite \in 0 .. UWRAP - 1
  BY DEF TypeOK, PipeRecord
<1>2. Count(i) \in 0 .. PIPESIZE /\ Len(s) \in 0 .. PIPESIZE /\ Count(i) + Len(s) <= PIPESIZE
  BY <1>1, RingFacts, Sizes DEF RingInv, Room
<1> DEFINE w == (pipe[i].nwrite + Len(s)) % UWRAP
<1>3. /\ w = IF pipe[i].nwrite + Len(s) < UWRAP THEN pipe[i].nwrite + Len(s)
             ELSE (pipe[i].nwrite + Len(s)) - UWRAP
      /\ w \in 0 .. UWRAP - 1
  BY <1>1, <1>2, Advanced, Zenon
<1>4. Put(i, s).data \in [0 .. PIPESIZE - 1 -> Byte]
  <2>1. \A k \in 0 .. PIPESIZE - 1 : 1 + ((k - pipe[i].nwrite) % PIPESIZE) \in Nat \ {0}
    <3> SUFFICES ASSUME NEW k \in 0 .. PIPESIZE - 1
                 PROVE  1 + ((k - pipe[i].nwrite) % PIPESIZE) \in Nat \ {0}
      BY Zenon
    <3> DEFINE j == (k - pipe[i].nwrite) % PIPESIZE
    <3>1. k - pipe[i].nwrite \in Int
      BY <1>1, Sizes
    <3>2. j \in 0 .. PIPESIZE - 1
      BY <3>1, RingIndex, Zenon
    <3> HIDE DEF j
    <3>3. 1 + j \in Nat \ {0}
      BY <3>2, Sizes
    <3> QED
      BY <3>3, Zenon DEF j
  <2>2. \A k \in 0 .. PIPESIZE - 1 : pipe[i].data[k] \in Byte
    BY <1>1, Zenon DEF PipeRecord
  <2>3. \A j \in Nat \ {0} : j <= Len(s) => s[j] \in Byte
    BY <1>1
  <2>4. Put(i, s).data = [k \in 0 .. PIPESIZE - 1 |->
                            IF 1 + ((k - pipe[i].nwrite) % PIPESIZE) <= Len(s)
                            THEN s[1 + ((k - pipe[i].nwrite) % PIPESIZE)] ELSE pipe[i].data[k]]
    BY <1>1, Zenon DEF Put, PipeRecord
  <2> QED
    BY <2>1, <2>2, <2>3, <2>4, Zenon
<1>5. /\ Put(i, s).nwrite = w /\ Put(i, s).nread = pipe[i].nread
      /\ Put(i, s).readopen = pipe[i].readopen /\ Put(i, s).writeopen = pipe[i].writeopen
      /\ Put(i, s) \in PipeRecord
  BY <1>1, <1>3, <1>4, Zenon DEF Put, PipeRecord
<1> HIDE DEF w
<1>6. /\ pipe' \in [Pipe -> PipeRecord] /\ pipe'[i] = Put(i, s)
      /\ \A j \in Pipe \ {i} : pipe'[j] = pipe[j]
  BY <1>1, <1>5, Zenon
<1>7. Count(i)' = Count(i) + Len(s)
  <2>1. Count(i)' = (w - pipe[i].nread) % UWRAP
    BY <1>5, <1>6, Zenon DEF Count
  <2> QED
    BY <2>1, <1>1, <1>2, Written, Zenon DEF Count, w
<1> QED
  BY <1>2, <1>5, <1>6, <1>7, Zenon

\* Reading n of the bytes takes them off the pipe's contents.
LEMMA TakeFacts ==
    ASSUME TypeOK, RingInv, NEW i \in Pipe, NEW n \in Nat, n <= Count(i),
           pipe' = [pipe EXCEPT ![i].nread = (@ + n) % UWRAP]
    PROVE  /\ pipe' \in [Pipe -> PipeRecord]
           /\ \A j \in Pipe \ {i} : pipe'[j] = pipe[j]
           /\ pipe'[i].readopen = pipe[i].readopen /\ pipe'[i].writeopen = pipe[i].writeopen
           /\ pipe'[i].nwrite = pipe[i].nwrite /\ pipe'[i].data = pipe[i].data
           /\ Count(i)' = Count(i) - n /\ Count(i)' <= PIPESIZE
<1>1. /\ pipe[i] \in PipeRecord /\ pipe \in [Pipe -> PipeRecord]
      /\ pipe[i].nread \in 0 .. UWRAP - 1 /\ pipe[i].nwrite \in 0 .. UWRAP - 1
  BY Zenon DEF TypeOK, PipeRecord
<1>2. Count(i) \in 0 .. PIPESIZE /\ n \in 0 .. PIPESIZE
  BY RingFacts, Sizes DEF RingInv
<1> DEFINE r == (pipe[i].nread + n) % UWRAP
<1>3. r \in 0 .. UWRAP - 1
  BY <1>1, <1>2, Advanced, Zenon
<1>4. pipe' = [pipe EXCEPT ![i] = [pipe[i] EXCEPT !.nread = r]]
  BY <1>1, Zenon
<1> HIDE DEF r
<1>5. [pipe[i] EXCEPT !.nread = r] \in PipeRecord
  BY <1>1, <1>3, Zenon DEF PipeRecord
<1>6. /\ pipe' \in [Pipe -> PipeRecord] /\ pipe'[i] = [pipe[i] EXCEPT !.nread = r]
      /\ \A j \in Pipe \ {i} : pipe'[j] = pipe[j]
  BY <1>1, <1>4, <1>5, Zenon
<1>7. /\ pipe'[i].nread = r /\ pipe'[i].nwrite = pipe[i].nwrite
      /\ pipe'[i].readopen = pipe[i].readopen /\ pipe'[i].writeopen = pipe[i].writeopen
      /\ pipe'[i].data = pipe[i].data
  BY <1>1, <1>6, Zenon DEF PipeRecord
<1>8. Count(i)' = Count(i) - n
  <2>1. Count(i)' = (pipe[i].nwrite - r) % UWRAP
    BY <1>7, Zenon DEF Count
  <2> QED
    BY <2>1, <1>1, <1>2, Taken, Zenon DEF Count, r
<1>9. Count(i) - n <= PIPESIZE
  BY <1>2, Sizes
<1> QED
  BY <1>6, <1>7, <1>8, <1>9, Zenon

\* What is left of a write after its first n bytes.
LEMMA Split ==
    ASSUME NEW s \in Seq(Byte), NEW n \in 0 .. Len(s)
    PROVE  /\ SubSeq(s, 1, n) \in Seq(Byte) /\ Len(SubSeq(s, 1, n)) = n
           /\ SubSeq(s, n + 1, Len(s)) \in Seq(Byte)
           /\ n = Len(s) => SubSeq(s, n + 1, Len(s)) = <<>>
           /\ \A k \in 1 .. n : SubSeq(s, 1, n)[k] = s[k]
<1>1. Len(s) \in Nat
  OBVIOUS
<1>2. \A k \in 1 .. n : k \in 1 .. Len(s)
  BY <1>1
<1>3. SubSeq(s, 1, n) \in Seq(Byte) /\ Len(SubSeq(s, 1, n)) = n
      /\ \A k \in 1 .. n : SubSeq(s, 1, n)[k] = s[k]
  BY <1>1, <1>2
<1>4. SubSeq(s, n + 1, Len(s)) \in Seq(Byte)
  BY <1>1
<1>5. n = Len(s) => SubSeq(s, n + 1, Len(s)) = <<>>
  BY <1>1
<1> QED
  BY <1>3, <1>4, <1>5, Zenon

\* The tests of pipewrite and piperead, before a step and after it.
LEMMA RingTests ==
    TypeOK => \A j \in Pipe : /\ Count(j) \in Nat
                              /\ Empty(j) <=> Count(j) = 0
                              /\ Full(j) <=> Count(j) = PIPESIZE
BY RingFacts, Zenon

LEMMA RingTestsNext ==
    TypeOK' => \A j \in Pipe : /\ Count(j)' \in Nat
                               /\ Empty(j)' <=> Count(j)' = 0
                               /\ Full(j)' <=> Count(j)' = PIPESIZE
<1>1. (TypeOK => \A j \in Pipe : /\ Count(j) \in Nat
                                 /\ Empty(j) <=> Count(j) = 0
                                 /\ Full(j) <=> Count(j) = PIPESIZE)'
  BY RingTests, PTL
<1> QED
  BY <1>1, Zenon

\* The pipe of a write has room for what pipewrite puts into it, and when it sleeps the
\* pipe is full.
LEMMA WriteStep ==
    ASSUME IInv, NEW p \in Proc, pipewrite(p)
    PROVE  IInv'
<1>0. PICK i : i = at[p]
  BY Zenon
<1> DEFINE n == Lesser(Room(i), Len(left[p]))
<1> DEFINE rest == SubSeq(left[p], n + 1, Len(left[p]))
<1> DEFINE s == SubSeq(left[p], 1, n)
<1>1. /\ pc[p] = "pipewrite" /\ UNCHANGED <<file, ofile, used, killed, end, want>>
      /\ pipe' = [pipe EXCEPT ![i] = Put(i, s)]
      /\ left' = [left EXCEPT ![p] = <<>>] \/ left' = [left EXCEPT ![p] = rest]
      /\ at' = [at EXCEPT ![p] = NoPipe] \/ at' = at
  BY <1>0, Zenon DEF pipewrite
<1>2. \/ wakeup(i, "asleep_read", p, "user") /\ at' = [at EXCEPT ![p] = NoPipe]
      \/ /\ pc' = [pc EXCEPT ![p] = "user"] /\ at' = [at EXCEPT ![p] = NoPipe]
         /\ unsung' = unsung \cup {j \in {i} : \E q \in Proc : at[q] = j /\ pc[q] = "asleep_read"}
      \/ /\ rest # <<>> /\ pipe[i].readopen /\ wakeup(i, "asleep_read", p, "asleep_write")
         /\ UNCHANGED at
  BY <1>0, Zenon DEF pipewrite
<1>3. i \in Pipe /\ i \in used /\ Room(i) \in Nat /\ left[p] \in Seq(Byte) /\ Len(left[p]) \in Nat
      /\ Holds(p, i, "write")
  <2>1. i \in used /\ used \subseteq Pipe /\ left[p] \in Seq(Byte) /\ Holds(p, i, "write")
    BY <1>0, <1>1, InUse, Places, Zenon DEF IInv, CallInv, TypeOK
  <2>2. Count(i) \in Nat /\ Count(i) <= PIPESIZE
    BY <2>1, RingFacts, Zenon DEF IInv, RingInv
  <2> QED
    BY <2>1, <2>2, Sizes DEF Room
<1>4. /\ n \in Nat /\ n <= Room(i) /\ n <= Len(left[p])
      /\ n = Room(i) \/ n = Len(left[p])
  BY <1>3 DEF Lesser
<1> HIDE DEF n
<1>5. s \in Seq(Byte) /\ Len(s) = n /\ rest \in Seq(Byte) /\ (rest # <<>> => n = Room(i))
  BY <1>3, <1>4, Split
<1> HIDE DEF s, rest
<1>6. /\ pipe' \in [Pipe -> PipeRecord]
      /\ \A j \in Pipe \ {i} : pipe'[j] = pipe[j]
      /\ pipe'[i].readopen = pipe[i].readopen /\ pipe'[i].writeopen = pipe[i].writeopen
      /\ pipe'[i].nread = pipe[i].nread
      /\ Count(i)' = Count(i) + n /\ Count(i)' <= PIPESIZE
  BY <1>1, <1>3, <1>4, <1>5, PutFacts, Zenon DEF IInv
<1>7. TypeOK'
  <2>1. left' \in [Proc -> Seq(Byte)]
    <3>1. left \in [Proc -> Seq(Byte)] /\ <<>> \in Seq(Byte)
      BY DEF IInv, TypeOK
    <3> QED
      BY <1>1, <1>5, <3>1, Zenon
  <2>2. at' \in [Proc -> Pipe \cup {NoPipe}]
    BY <1>1, Zenon DEF IInv, TypeOK
  <2> QED
    BY <1>1, <1>6, <2>1, <2>2, Zenon DEF IInv, TypeOK, PipeRecord
<1>8. RingInv'
  BY <1>6, Zenon DEF IInv, RingInv, Count
<1>9. /\ pc' \in [Proc -> Place] /\ pc'[p] \in {"user", "asleep_write"}
      /\ pc'[p] = "asleep_write" => at'[p] = i /\ pipe[i].readopen /\ n = Room(i)
      /\ \A q \in Proc \ {p} : /\ at'[q] = at[q]
                               /\ pc'[q] \in InRead <=> pc[q] \in InRead
                               /\ pc'[q] \in InWrite <=> pc[q] \in InWrite
                               /\ Closing(q)' <=> Closing(q)
                               /\ pc'[q] = "unused" <=> pc[q] = "unused"
                               /\ pc'[q] \in {"asleep_read", "asleep_write"} => pc'[q] = pc[q]
      /\ \A q \in Proc \ {p} : pc'[q] = "asleep_read" /\ at[q] = i => i \in unsung'
      /\ unsung \ {i} \subseteq unsung'
  <2>1. pc \in [Proc -> Place] /\ at \in [Proc -> Pipe \cup {NoPipe}]
    BY Zenon DEF IInv, CallInv, TypeOK
  <2>2. CASE /\ pc' = [pc EXCEPT ![p] = "user"] /\ at' = [at EXCEPT ![p] = NoPipe]
             /\ unsung' = unsung \cup {j \in {i} : \E q \in Proc : at[q] = j /\ pc[q] = "asleep_read"}
    BY <2>1, <2>2, Places, Zenon DEF Closing
  <2>3. CASE wakeup(i, "asleep_read", p, "user") /\ at' = [at EXCEPT ![p] = NoPipe]
    <3>1. Woken(p, i, "asleep_read", "user")
      BY <2>3, Places, WakeFacts, Zenon
    <3> QED
      BY <2>1, <2>3, <3>1, Zenon DEF Woken
  <2>4. CASE /\ rest # <<>> /\ pipe[i].readopen /\ wakeup(i, "asleep_read", p, "asleep_write")
             /\ UNCHANGED at
    <3>1. Woken(p, i, "asleep_read", "asleep_write")
      BY <2>4, Places, WakeFacts, Zenon
    <3> QED
      BY <1>0, <1>5, <2>1, <2>4, <3>1, Zenon DEF Woken
  <2> QED
    BY <1>2, <2>2, <2>3, <2>4, Zenon
<1>10. CallMove
  <2>1. ~Closing(p) /\ ~Closing(p)'
    BY <1>1, <1>9, Zenon DEF Closing
  <2>2. \A j \in Pipe : /\ pipe'[j].readopen = pipe[j].readopen
                        /\ pipe'[j].writeopen = pipe[j].writeopen
    BY <1>6, Zenon
  <2>3. /\ pc'[p] # "unused" /\ pc'[p] \notin InRead
        /\ pc'[p] \in InWrite => Holds(p, at'[p], "write")
    BY <1>3, <1>9, Places, Zenon
  <2> QED
    BY <1>1, <1>9, <2>1, <2>2, <2>3, CallerMoves, Zenon
<1>11. SleepersJustified'
  <2>1. /\ \A j \in Pipe : (Empty(j)' <=> Count(j)' = 0) /\ (Full(j)' <=> Count(j)' = PIPESIZE)
        /\ \A j \in Pipe : (Empty(j) <=> Count(j) = 0) /\ (Full(j) <=> Count(j) = PIPESIZE)
        /\ \A j \in Pipe : Count(j) \in Nat
    BY <1>7, RingTests, RingTestsNext, Zenon DEF IInv
  <2>2. \A j \in Pipe \ {i} : Count(j)' = Count(j)
    BY <1>6, Zenon DEF Count
  <2>3. Full(i) => n = 0
    BY <1>3, <1>4, <2>1, Sizes DEF Room
  <2>4. n = Room(i) => Count(i)' = PIPESIZE
    BY <1>3, <1>6, RingFacts, Sizes DEF Room, IInv
  <2>5. ASSUME NEW q \in Proc \ {p}, pc'[q] \in {"asleep_read", "asleep_write"}
        PROVE  /\ pc'[q] = pc[q] /\ at'[q] = at[q] /\ at[q] \in Pipe
               /\ pc[q] = "asleep_read" => pipe[at[q]].writeopen
                                             /\ (Empty(at[q]) \/ at[q] \in unsung)
               /\ pc[q] = "asleep_write" => Full(at[q]) /\ pipe[at[q]].readopen
    <3>1. pc'[q] = pc[q] /\ at'[q] = at[q]
      BY <1>9, <2>5, Zenon
    <3>2. at[q] \in Pipe
      BY <2>5, <3>1, InUse, Places, Zenon DEF IInv, TypeOK
    <3> QED
      BY <3>1, <3>2, Zenon DEF IInv, SleepersJustified
  <2>6. \A q \in Proc \ {p} :
            /\ pc'[q] = "asleep_read" =>
                  pipe'[at'[q]].writeopen /\ (Empty(at[q])' \/ at'[q] \in unsung')
            /\ pc'[q] = "asleep_write" => Full(at[q])' /\ pipe'[at'[q]].readopen
    <3> SUFFICES ASSUME NEW q \in Proc \ {p}, pc'[q] \in {"asleep_read", "asleep_write"}
                 PROVE  /\ pc'[q] = "asleep_read" =>
                              pipe'[at'[q]].writeopen /\ (Empty(at[q])' \/ at'[q] \in unsung')
                        /\ pc'[q] = "asleep_write" => Full(at[q])' /\ pipe'[at'[q]].readopen
      BY Zenon
    <3>1. CASE at[q] = i
      BY <1>6, <1>9, <2>1, <2>3, <2>5, <3>1
    <3>2. CASE at[q] # i
      BY <1>6, <1>9, <2>1, <2>2, <2>5, <3>2
    <3> QED
      BY <3>1, <3>2, Zenon
  <2> QED
    BY <1>3, <1>6, <1>9, <2>1, <2>4, <2>6 DEF SleepersJustified
<1> QED
  BY <1>7, <1>8, <1>10, <1>11, CallMoveKeeps, Zenon DEF IInv

\* A read that finds nothing sleeps, or gives up because it was killed.
LEMMA ReadNothingStep ==
    ASSUME IInv, NEW p \in Proc, pc[p] = "piperead",
           Empty(at[p]), pipe[at[p]].writeopen,
           \/ /\ at' = [at EXCEPT ![p] = NoPipe] /\ want' = [want EXCEPT ![p] = 0]
              /\ Goto(p, "user")
           \/ Goto(p, "asleep_read") /\ UNCHANGED <<at, want>>,
           UNCHANGED <<file, ofile, pipe, used, killed, end, left>>
    PROVE  IInv'
<1>1. TypeOK'
  <2>1. at \in [Proc -> Pipe \cup {NoPipe}] /\ want \in [Proc -> Nat]
    BY Zenon DEF IInv, TypeOK
  <2>2. at' \in [Proc -> Pipe \cup {NoPipe}] /\ want' \in [Proc -> Nat]
    BY <2>1
  <2> QED
    BY <2>2, Zenon DEF IInv, TypeOK
<1>2. /\ \A q \in Proc \ {p} : pc'[q] = pc[q] /\ at'[q] = at[q]
      /\ pc' \in [Proc -> Place] /\ unsung' = unsung
      /\ pc'[p] \in {"user", "asleep_read"} /\ (pc'[p] = "asleep_read" => at'[p] = at[p])
  BY GotoFacts, Places, Zenon DEF IInv, TypeOK
<1>3. CallMove
  <2>1. ~Closing(p) /\ ~Closing(p)' /\ \A q \in Proc \ {p} : Closing(q)' <=> Closing(q)
    BY <1>2, Zenon DEF Closing
  <2>2. pc'[p] \in InRead => Holds(p, at'[p], "read")
    BY <1>2, Places, Zenon DEF IInv, CallInv
  <2>3. pc'[p] # "unused" /\ pc'[p] \notin InWrite
    BY <1>2, Places, Zenon
  <2> QED
    BY <1>2, <2>1, <2>2, <2>3, CallerMoves, Zenon
<1>4. RingInv'
  BY Zenon DEF IInv, RingInv, Count
<1>5. SleepersJustified'
  BY <1>2, SMTT(20) DEF IInv, SleepersJustified, Empty, Full
<1> QED
  BY <1>1, <1>3, <1>4, <1>5, CallMoveKeeps, Zenon DEF IInv

\* A read takes bytes, or finds the end of file, and wakes the writers.
LEMMA ReadStep ==
    ASSUME IInv, NEW p \in Proc, piperead(p)
    PROVE  IInv'
<1>0. PICK i : i = at[p]
  BY Zenon
<1>1. CASE Empty(i) /\ pipe[i].writeopen
  BY <1>0, <1>1, ReadNothingStep, Zenon DEF piperead
<1>2. SUFFICES ASSUME ~(Empty(i) /\ pipe[i].writeopen)
               PROVE  IInv'
  BY <1>1, Zenon
<1> DEFINE n == Lesser(Count(i), want[p])
<1>3. /\ pc[p] = "piperead" /\ UNCHANGED <<file, ofile, used, killed, end, left>>
      /\ pipe' = [pipe EXCEPT ![i].nread = (@ + n) % UWRAP]
      /\ at' = [at EXCEPT ![p] = NoPipe] /\ want' = [want EXCEPT ![p] = 0]
      /\ wakeup(i, "asleep_write", p, "user")
  BY <1>0, <1>2, Zenon DEF piperead
<1>4. i \in Pipe /\ i \in used /\ Count(i) \in Nat /\ want[p] \in Nat
  <2>1. i \in used /\ used \subseteq Pipe /\ want[p] \in Nat
    BY <1>0, <1>3, InUse, Places, Zenon DEF IInv, TypeOK
  <2> QED
    BY <2>1, RingTests, Zenon DEF IInv
<1>5. n \in Nat /\ n <= Count(i)
  BY <1>4 DEF Lesser
<1> HIDE DEF n
<1>6. /\ pipe' \in [Pipe -> PipeRecord]
      /\ \A j \in Pipe \ {i} : pipe'[j] = pipe[j]
      /\ pipe'[i].readopen = pipe[i].readopen /\ pipe'[i].writeopen = pipe[i].writeopen
      /\ Count(i)' = Count(i) - n /\ Count(i)' <= PIPESIZE
  BY <1>3, <1>4, <1>5, TakeFacts, Zenon DEF IInv
<1>7. TypeOK'
  <2>1. at' \in [Proc -> Pipe \cup {NoPipe}] /\ want' \in [Proc -> Nat]
    BY <1>3, Zenon DEF IInv, TypeOK
  <2> QED
    BY <1>3, <1>6, <2>1, Zenon DEF IInv, TypeOK, PipeRecord
<1>8. RingInv'
  BY <1>6, Zenon DEF IInv, RingInv, Count
<1>9. /\ pc' \in [Proc -> Place] /\ pc'[p] = "user" /\ unsung' = unsung
      /\ \A q \in Proc \ {p} : /\ at'[q] = at[q]
                               /\ pc'[q] \in InRead <=> pc[q] \in InRead
                               /\ pc'[q] \in InWrite <=> pc[q] \in InWrite
                               /\ Closing(q)' <=> Closing(q)
                               /\ pc'[q] = "unused" <=> pc[q] = "unused"
                               /\ pc'[q] \in {"asleep_read", "asleep_write"} =>
                                     pc'[q] = pc[q] /\ ~(at[q] = i /\ pc[q] = "asleep_write")
  <2>1. Woken(p, i, "asleep_write", "user")
    BY <1>3, Places, WakeFacts, Zenon
  <2> QED
    BY <1>3, <2>1, Zenon DEF Woken, IInv, TypeOK
<1>10. CallMove
  <2>1. ~Closing(p) /\ ~Closing(p)'
    BY <1>3, <1>9, Zenon DEF Closing
  <2>2. \A j \in Pipe : /\ pipe'[j].readopen = pipe[j].readopen
                        /\ pipe'[j].writeopen = pipe[j].writeopen
    BY <1>6, Zenon
  <2>3. pc'[p] # "unused" /\ pc'[p] \notin InRead /\ pc'[p] \notin InWrite
    BY <1>9, Places, Zenon
  <2> QED
    BY <1>3, <1>9, <2>1, <2>2, <2>3, CallerMoves, Zenon
<1>11. SleepersJustified'
  <2>1. /\ \A j \in Pipe : (Empty(j)' <=> Count(j)' = 0) /\ (Full(j)' <=> Count(j)' = PIPESIZE)
        /\ \A j \in Pipe : (Empty(j) <=> Count(j) = 0) /\ (Full(j) <=> Count(j) = PIPESIZE)
    BY <1>7, RingTests, RingTestsNext, Zenon DEF IInv
  <2>2. \A j \in Pipe \ {i} : Count(j)' = Count(j)
    BY <1>6, Zenon DEF Count
  <2>3. Empty(i) => Empty(i)'
    BY <1>4, <1>5, <1>6, <2>1
  <2>4. ASSUME NEW q \in Proc, pc'[q] \in {"asleep_read", "asleep_write"}
        PROVE  /\ pc'[q] = pc[q] /\ at'[q] = at[q] /\ at[q] \in Pipe /\ q # p
               /\ pc[q] = "asleep_read" => pipe[at[q]].writeopen
                                             /\ (Empty(at[q]) \/ at[q] \in unsung)
               /\ pc[q] = "asleep_write" => Full(at[q]) /\ pipe[at[q]].readopen /\ at[q] # i
    <3>1. pc'[q] = pc[q] /\ at'[q] = at[q] /\ q # p /\ ~(at[q] = i /\ pc[q] = "asleep_write")
      BY <1>9, <2>4, Zenon
    <3>2. at[q] \in Pipe
      BY <2>4, <3>1, InUse, Places, Zenon DEF IInv, TypeOK
    <3> QED
      BY <3>1, <3>2, Zenon DEF IInv, SleepersJustified
  <2>5. \A q \in Proc :
            /\ pc'[q] = "asleep_read" =>
                  pipe'[at'[q]].writeopen /\ (Empty(at[q])' \/ at'[q] \in unsung')
            /\ pc'[q] = "asleep_write" => Full(at[q])' /\ pipe'[at'[q]].readopen
    BY <1>6, <1>9, <2>1, <2>2, <2>3, <2>4
  <2> QED
    BY <2>5, Zenon DEF SleepersJustified
<1> QED
  BY <1>7, <1>8, <1>10, <1>11, CallMoveKeeps, Zenon DEF IInv

-----------------------------------------------------------------------------
\* kill moves a sleeper back to its loop, or leaves it where it is.
LEMMA KillStep ==
    ASSUME IInv, NEW p \in Proc, kill(p)
    PROVE  IInv'
<1>1. /\ UNCHANGED <<file, ofile, pipe, used, at, end, left, want, unsung>>
      /\ killed' = [killed EXCEPT ![p] = TRUE]
      /\ pc[p] \in InRead \cup InWrite
  BY Zenon DEF kill, call, Goto
<1>2. /\ pc' \in [Proc -> Place] /\ \A q \in Proc \ {p} : pc'[q] = pc[q]
      /\ \/ pc[p] = "asleep_read" /\ pc'[p] = "piperead"
         \/ pc[p] = "asleep_write" /\ pc'[p] = "pipewrite"
         \/ pc'[p] = pc[p]
  BY Places, Zenon DEF kill, Goto, IInv, CallInv
<1>3. \A q \in Proc : /\ pc'[q] \in InRead <=> pc[q] \in InRead
                      /\ pc'[q] \in InWrite <=> pc[q] \in InWrite
                      /\ Closing(q)' <=> Closing(q)
                      /\ pc'[q] = "unused" <=> pc[q] = "unused"
  BY <1>1, <1>2, Places, Zenon DEF Closing
<1>4. CallMove
  BY <1>1, <1>2, <1>3, Zenon DEF CallMove, IInv, CallInv
<1>5. TypeOK'
  BY <1>1, Zenon DEF IInv, TypeOK
<1>6. RingInv'
  BY <1>1, Zenon DEF IInv, RingInv, Count
<1>7. SleepersJustified'
  BY <1>1, <1>2, SameSleepers, Zenon DEF IInv
<1> QED
  BY <1>4, <1>5, <1>6, <1>7, CallMoveKeeps, Zenon DEF IInv

\* exit, and its end when every descriptor is closed.
LEMMA ExitStep ==
    ASSUME IInv, NEW p \in Proc,
           \/ exit(p)
           \/ /\ pc[p] = "exit" /\ (\A f \in File : ofile[p][f] = 0) /\ Goto(p, "unused")
              /\ UNCHANGED <<file, ofile, pipe, used, killed, call>>
    PROVE  IInv'
<1>1. /\ UNCHANGED <<file, ofile, pipe, used, at, end, left, want>>
      /\ killed' \in [Proc -> BOOLEAN] /\ pc[p] \in {"user", "exit"}
  BY Zenon DEF exit, call, IInv, TypeOK
<1>2. PICK l \in {"exit", "unused"} : /\ Goto(p, l)
                                      /\ l = "unused" => \A f \in File : ofile[p][f] = 0
  BY Zenon DEF exit
<1>3. /\ pc'[p] = l /\ (\A q \in Proc \ {p} : pc'[q] = pc[q])
      /\ pc' \in [Proc -> Place] /\ unsung' = unsung
  BY <1>2, GotoFacts, Places, Zenon
<1>4. ~Closing(p) /\ ~Closing(p)' /\ \A q \in Proc \ {p} : Closing(q)' <=> Closing(q)
  BY <1>1, <1>3, Zenon DEF Closing
<1>5. CallMove
  BY <1>1, <1>2, <1>3, <1>4, Places, Zenon DEF CallMove, IInv, CallInv
<1>6. TypeOK'
  BY <1>1, Zenon DEF IInv, TypeOK
<1>7. RingInv'
  BY <1>1, Zenon DEF IInv, RingInv, Count
<1>8. SleepersJustified'
  BY <1>1, <1>3, SameSleepers, Zenon DEF IInv
<1> QED
  BY <1>5, <1>6, <1>7, <1>8, CallMoveKeeps, Zenon DEF IInv

\* A read or a write begins, with a descriptor of the right end.
LEMMA StartStep ==
    ASSUME IInv, NEW p \in Proc, NEW f \in File,
           \/ \E m \in Messages : sys_write(p, f, m)
           \/ \E n \in ReadSizes : sys_read(p, f, n)
    PROVE  IInv'
<1>1. /\ UNCHANGED <<file, ofile, pipe, used, killed, end>>
      /\ at' = [at EXCEPT ![p] = file[f].pipe]
      /\ pc[p] = "user" /\ ofile[p][f] > 0
  BY Zenon DEF sys_write, sys_read, User
<1>2. left' \in [Proc -> Seq(Byte)] /\ want' \in [Proc -> Nat]
  BY FileConstants, Zenon DEF sys_write, sys_read, IInv, TypeOK
<1>3. \/ Goto(p, "pipewrite") /\ file[f].type = "write"
      \/ Goto(p, "piperead") /\ file[f].type = "read"
  BY Zenon DEF sys_write, sys_read
<1>4. /\ \A q \in Proc \ {p} : pc'[q] = pc[q] /\ at'[q] = at[q]
      /\ pc' \in [Proc -> Place] /\ unsung' = unsung
      /\ pc'[p] \in {"piperead", "pipewrite"} /\ at'[p] = file[f].pipe
      /\ pc'[p] = "piperead" => file[f].type = "read"
      /\ pc'[p] = "pipewrite" => file[f].type = "write"
  BY <1>1, <1>3, GotoFacts, Places, Zenon DEF IInv, TypeOK
<1>5. /\ pc'[p] \in InRead => Holds(p, at'[p], "read")
      /\ pc'[p] \in InWrite => Holds(p, at'[p], "write")
  BY <1>1, <1>4, Places, Zenon DEF Holds
<1>6. ~Closing(p) /\ ~Closing(p)' /\ \A q \in Proc \ {p} : Closing(q)' <=> Closing(q)
  BY <1>1, <1>4, Zenon DEF Closing
<1>7. CallMove
  BY <1>1, <1>4, <1>5, <1>6, Zenon DEF CallMove, IInv, CallInv
<1>8. TypeOK'
  BY <1>1, <1>2, Zenon DEF IInv, TypeOK
<1>9. RingInv'
  BY <1>1, Zenon DEF IInv, RingInv, Count
<1>10. SleepersJustified'
  BY <1>1, <1>4, SameSleepers, Zenon DEF IInv
<1> QED
  BY <1>7, <1>8, <1>9, <1>10, CallMoveKeeps, Zenon DEF IInv
-----------------------------------------------------------------------------
\* Indices of the ring.
LEMMA Multiples ==
    ASSUME NEW d \in Int, d >= 1
    PROVE  PIPESIZE * d >= PIPESIZE
BY Sizes

LEMMA Quotient ==
    ASSUME NEW a \in Int
    PROVE  \E q \in Int, r \in 0 .. PIPESIZE - 1 : a = PIPESIZE * q + r /\ a % PIPESIZE = r
<1>1. a \div PIPESIZE \in Int /\ a % PIPESIZE \in 0 .. PIPESIZE - 1
  BY Sizes
<1>2. a = PIPESIZE * (a \div PIPESIZE) + (a % PIPESIZE)
  BY Sizes
<1> QED
  BY <1>1, <1>2

LEMMA Remainder ==
    ASSUME NEW k \in Int, NEW r \in 0 .. PIPESIZE - 1
    PROVE  (PIPESIZE * k + r) % PIPESIZE = r
<1>1. PIPESIZE * k + r \in Int
  BY Sizes
<1>2. PICK q \in Int, s \in 0 .. PIPESIZE - 1 :
          PIPESIZE * k + r = PIPESIZE * q + s /\ (PIPESIZE * k + r) % PIPESIZE = s
  BY <1>1, Quotient
<1>3. PIPESIZE * (k - q) = s - r /\ PIPESIZE * (q - k) = r - s
  BY <1>2, Sizes
<1>4. ~(k - q >= 1)
  <2> SUFFICES ASSUME k - q >= 1 PROVE FALSE
    OBVIOUS
  <2>1. PIPESIZE * (k - q) >= PIPESIZE
    BY Multiples
  <2> QED
    BY <1>3, <2>1, Sizes
<1>5. ~(q - k >= 1)
  <2> SUFFICES ASSUME q - k >= 1 PROVE FALSE
    OBVIOUS
  <2>1. PIPESIZE * (q - k) >= PIPESIZE
    BY Multiples
  <2> QED
    BY <1>3, <2>1, Sizes
<1> QED
  BY <1>2, <1>4, <1>5, Sizes

\* Numbers that differ by a multiple of PIPESIZE have the same place in the ring.
LEMMA SamePlace ==
    ASSUME NEW a \in Int, NEW k \in Int
    PROVE  (a + PIPESIZE * k) % PIPESIZE = a % PIPESIZE
<1>1. PICK q \in Int, r \in 0 .. PIPESIZE - 1 : a = PIPESIZE * q + r /\ a % PIPESIZE = r
  BY Quotient, Zenon
<1>2. a + PIPESIZE * k = PIPESIZE * (q + k) + r
  BY <1>1, Sizes
<1> QED
  BY <1>1, <1>2, Remainder

\* The counters wrap at a multiple of PIPESIZE.
LEMMA WrapIsMultiple == \E q \in Int : UWRAP = PIPESIZE * q
<1>1. PICK q \in Int, r \in 0 .. PIPESIZE - 1 : UWRAP = PIPESIZE * q + r /\ UWRAP % PIPESIZE = r
  BY Quotient, Sizes
<1> QED
  BY <1>1, FileConstants, Sizes

\* Where a counter that has moved on by n, and perhaps wrapped around, is in the ring.
LEMMA PlaceAfter ==
    ASSUME NEW r \in 0 .. UWRAP - 1, NEW n \in 0 .. PIPESIZE, NEW k \in 1 .. PIPESIZE
    PROVE  (((r + n) % UWRAP) + k - 1) % PIPESIZE = (r + (n + k) - 1) % PIPESIZE
<1> DEFINE w == (r + n) % UWRAP
<1>1. w = (IF r + n < UWRAP THEN r + n ELSE (r + n) - UWRAP) /\ w \in 0 .. UWRAP - 1
  BY Advanced, Zenon
<1> HIDE DEF w
<1>2. PICK q \in Int : UWRAP = PIPESIZE * q
  BY WrapIsMultiple
<1>3. w + k - 1 \in Int /\ r + (n + k) - 1 \in Int
  BY <1>1, Sizes
<1>4. w + k - 1 = r + (n + k) - 1 \/ r + (n + k) - 1 = (w + k - 1) + PIPESIZE * q
  BY <1>1, <1>2, Sizes
<1>5. (w + k - 1) % PIPESIZE = (r + (n + k) - 1) % PIPESIZE
  BY <1>3, <1>4, SamePlace, Zenon
<1> QED
  BY <1>5, Zenon DEF w

\* The distance in the ring from nwrite to the k-th of the oldest bytes.
LEMMA PlaceOfByte ==
    ASSUME NEW r \in 0 .. UWRAP - 1, NEW v \in 0 .. UWRAP - 1, NEW k \in 1 .. PIPESIZE,
           (v - r) % UWRAP <= PIPESIZE
    PROVE  (((r + k - 1) % PIPESIZE) - v) % PIPESIZE =
               IF k > (v - r) % UWRAP THEN k - 1 - ((v - r) % UWRAP)
               ELSE k - 1 - ((v - r) % UWRAP) + PIPESIZE
<1> DEFINE c == (v - r) % UWRAP
<1> DEFINE x == (r + k - 1) % PIPESIZE
<1>1. c = (IF v >= r THEN v - r ELSE v - r + UWRAP) /\ c <= PIPESIZE
  BY WrapBack, Zenon
<1>2. PICK q \in Int : UWRAP = PIPESIZE * q
  BY WrapIsMultiple
<1>3. r + k - 1 \in Int
  BY Sizes
<1>4. PICK t \in Int : r + k - 1 = PIPESIZE * t + x /\ x \in 0 .. PIPESIZE - 1
  BY <1>3, Quotient
<1> HIDE DEF c, x
<1> DEFINE d == IF k > c THEN k - 1 - c ELSE k - 1 - c + PIPESIZE
<1>5. d \in 0 .. PIPESIZE - 1 /\ c \in Nat
  BY <1>1, Sizes
<1>6. \E m \in Int : x - v = PIPESIZE * m + d
  <2>1. r - v = (IF v >= r THEN 0 ELSE PIPESIZE * q) - c
    BY <1>1, <1>2, <1>5, Sizes
  <2>2. x - v = (r - v) + k - 1 - PIPESIZE * t
    BY <1>4, Sizes
  <2>3. PIPESIZE * (-t) = -(PIPESIZE * t) /\ PIPESIZE * (-1 - t) = -PIPESIZE - PIPESIZE * t
        /\ PIPESIZE * (q - t) = PIPESIZE * q - PIPESIZE * t
        /\ PIPESIZE * (q - 1 - t) = PIPESIZE * q - PIPESIZE - PIPESIZE * t
    BY <1>2, <1>4, Sizes
  <2>4. CASE v >= r /\ k > c
    <3>1. x - v = PIPESIZE * (-t) + d
      BY <1>4, <1>5, <2>1, <2>2, <2>3, <2>4, Sizes
    <3> QED
      BY <3>1, <1>4
  <2>5. CASE v >= r /\ ~(k > c)
    <3>1. x - v = PIPESIZE * (-1 - t) + d
      BY <1>4, <1>5, <2>1, <2>2, <2>3, <2>5, Sizes
    <3> QED
      BY <3>1, <1>4
  <2>6. CASE ~(v >= r) /\ k > c
    <3>1. x - v = PIPESIZE * (q - t) + d
      BY <1>2, <1>4, <1>5, <2>1, <2>2, <2>3, <2>6, Sizes
    <3> QED
      BY <3>1, <1>2, <1>4
  <2>7. CASE ~(v >= r) /\ ~(k > c)
    <3>1. x - v = PIPESIZE * (q - 1 - t) + d
      BY <1>2, <1>4, <1>5, <2>1, <2>2, <2>3, <2>7, Sizes
    <3> QED
      BY <3>1, <1>2, <1>4
  <2> QED
    BY <2>4, <2>5, <2>6, <2>7, Zenon
<1>7. (x - v) % PIPESIZE = d
  <2> HIDE DEF d
  <2> QED
    BY <1>5, <1>6, Remainder, Zenon
<1> QED
  BY <1>7, Zenon DEF c, x

-----------------------------------------------------------------------------
\* The contents of pipe i are Count(i) bytes, the first of them at nread.
Filled(i) ==
    /\ Contents[i] \in Seq(Byte)
    /\ i \in used => /\ Len(Contents[i]) = Count(i)
                     /\ \A k \in 1 .. Count(i) :
                          Contents[i][k] = pipe[i].data[(pipe[i].nread + k - 1) % PIPESIZE]
    /\ i \notin used => Contents[i] = <<>>

LEMMA ContentsFacts == TypeOK => \A i \in Pipe : Filled(i)
<1> SUFFICES ASSUME TypeOK, NEW i \in Pipe PROVE Filled(i)
  BY Zenon
<1>1. /\ pipe[i].nread \in 0 .. UWRAP - 1 /\ pipe[i].data \in [0 .. PIPESIZE - 1 -> Byte]
      /\ Count(i) \in Nat
  BY RingFacts, Zenon DEF TypeOK
<1>2. \A k \in 1 .. Count(i) : pipe[i].data[(pipe[i].nread + k - 1) % PIPESIZE] \in Byte
  <2> SUFFICES ASSUME NEW k \in 1 .. Count(i)
               PROVE  pipe[i].data[(pipe[i].nread + k - 1) % PIPESIZE] \in Byte
    BY Zenon
  <2>1. pipe[i].nread + k - 1 \in Int
    BY <1>1, Sizes
  <2> QED
    BY <1>1, <2>1, RingIndex, Zenon
<1>3. Contents[i] = IF i \in used THEN Oldest(i, Count(i)) ELSE <<>>
  BY Zenon DEF Contents
<1>4. Oldest(i, Count(i)) = [k \in 1 .. Count(i) |-> pipe[i].data[(pipe[i].nread + k - 1) % PIPESIZE]]
  BY Zenon DEF Oldest
<1>5. Oldest(i, Count(i)) \in Seq(Byte) /\ Len(Oldest(i, Count(i))) = Count(i)
  BY <1>1, <1>2, <1>4
<1>6. <<>> \in Seq(Byte)
  OBVIOUS
<1> QED
  BY <1>3, <1>4, <1>5, <1>6, Zenon DEF Filled

LEMMA ContentsNext == TypeOK' => \A i \in Pipe : Filled(i)'
<1>1. (TypeOK => \A i \in Pipe : Filled(i))'
  BY ContentsFacts, PTL
<1> QED
  BY <1>1, Zenon

\* Pipes that stay as they are keep their contents.
LEMMA ContentsKept ==
    ASSUME NEW i \in Pipe, pipe'[i].data = pipe[i].data, pipe'[i].nread = pipe[i].nread,
           pipe'[i].nwrite = pipe[i].nwrite, i \in used' <=> i \in used
    PROVE  Contents'[i] = Contents[i]
BY Zenon DEF Contents, Oldest, Count

LEMMA SameSeq ==
    ASSUME NEW a \in Seq(Byte), NEW b \in Seq(Byte), Len(a) = Len(b),
           \A k \in 1 .. Len(a) : a[k] = b[k]
    PROVE  a = b
OBVIOUS

\* pipewrite appends what it puts into the ring, and overwrites nothing that is unread.
LEMMA ContentsPut ==
    ASSUME TypeOK, TypeOK', RingInv, NEW i \in used, NEW s \in Seq(Byte), Len(s) <= Room(i),
           pipe' = [pipe EXCEPT ![i] = Put(i, s)], used' = used
    PROVE  Contents' = [Contents EXCEPT ![i] = @ \o s]
<1>1. /\ i \in Pipe /\ pipe[i] \in PipeRecord /\ pipe \in [Pipe -> PipeRecord] /\ Len(s) \in Nat
      /\ pipe[i].nread \in 0 .. UWRAP - 1 /\ pipe[i].nwrite \in 0 .. UWRAP - 1
  <2>1. i \in Pipe
    BY Zenon DEF TypeOK
  <2> QED
    BY <2>1 DEF TypeOK, PipeRecord
<1>2. Count(i) \in 0 .. PIPESIZE /\ Len(s) \in 0 .. PIPESIZE /\ Count(i) + Len(s) <= PIPESIZE
  BY <1>1, RingFacts, Sizes DEF RingInv, Room
<1>3. /\ \A j \in Pipe \ {i} : pipe'[j] = pipe[j]
      /\ pipe'[i].nread = pipe[i].nread /\ Count(i)' = Count(i) + Len(s)
  BY <1>1, PutFacts, Zenon
<1>4. pipe'[i].data = [k \in 0 .. PIPESIZE - 1 |->
                          IF 1 + ((k - pipe[i].nwrite) % PIPESIZE) <= Len(s)
                          THEN s[1 + ((k - pipe[i].nwrite) % PIPESIZE)] ELSE pipe[i].data[k]]
  <2>1. pipe'[i] = Put(i, s)
    BY <1>1, Zenon
  <2> QED
    BY <1>1, <2>1, Zenon DEF Put, PipeRecord
<1>5. /\ Contents[i] \in Seq(Byte) /\ Len(Contents[i]) = Count(i)
      /\ Contents'[i] \in Seq(Byte) /\ Len(Contents'[i]) = Count(i) + Len(s)
  BY <1>1, <1>3, ContentsFacts, ContentsNext, Zenon DEF Filled
<1>6. ASSUME NEW k \in 1 .. Count(i) + Len(s)
      PROVE  Contents'[i][k] = IF k <= Count(i) THEN Contents[i][k] ELSE s[k - Count(i)]
  <2> DEFINE x == (pipe[i].nread + k - 1) % PIPESIZE
  <2> DEFINE y == (x - pipe[i].nwrite) % PIPESIZE
  <2>1. Contents'[i][k] = pipe'[i].data[x]
    <3>1. \A m \in 1 .. Count(i)' :
              Contents'[i][m] = pipe'[i].data[(pipe'[i].nread + m - 1) % PIPESIZE]
      BY <1>1, ContentsNext, Zenon DEF Filled
    <3>2. k \in 1 .. Count(i)'
      BY <1>3, Zenon
    <3> QED
      BY <1>3, <3>1, <3>2, Zenon
  <2>2. x \in 0 .. PIPESIZE - 1
    <3>1. pipe[i].nread + k - 1 \in Int
      BY <1>1, <1>2
    <3> QED
      BY <3>1, RingIndex, Zenon
  <2>3. y = IF k > Count(i) THEN k - 1 - Count(i) ELSE k - 1 - Count(i) + PIPESIZE
    <3>1. k \in 1 .. PIPESIZE /\ Count(i) <= PIPESIZE
      BY <1>2, Sizes
    <3> QED
      BY <1>1, <3>1, PlaceOfByte, Zenon DEF Count
  <2>4. pipe'[i].data[x] = IF 1 + y <= Len(s) THEN s[1 + y] ELSE pipe[i].data[x]
    BY <1>4, <2>2, Zenon
  <2>5. k <= Count(i) => Contents[i][k] = pipe[i].data[x]
    <3> SUFFICES ASSUME k <= Count(i) PROVE Contents[i][k] = pipe[i].data[x]
      BY Zenon
    <3>1. k \in 1 .. Count(i)
      BY <1>2
    <3> QED
      BY <1>1, <3>1, ContentsFacts, Zenon DEF Filled
  <2> HIDE DEF x, y
  <2>6. CASE k <= Count(i)
    <3>1. ~(1 + y <= Len(s))
      BY <1>2, <2>3, <2>6, Sizes
    <3> QED
      BY <2>1, <2>4, <2>5, <2>6, <3>1, Zenon
  <2>7. CASE ~(k <= Count(i))
    <3>1. 1 + y <= Len(s) /\ 1 + y = k - Count(i)
      BY <1>2, <2>3, <2>7, Sizes
    <3> QED
      BY <2>1, <2>4, <2>7, <3>1, Zenon
  <2> QED
    BY <2>6, <2>7, Zenon
<1>7. Contents'[i] = Contents[i] \o s
  <2> DEFINE a == Contents[i]
  <2> DEFINE b == Contents'[i]
  <2> DEFINE c == Count(i)
  <2>1. a \in Seq(Byte) /\ b \in Seq(Byte) /\ Len(a) = c /\ Len(b) = c + Len(s) /\ c \in Nat
    BY <1>2, <1>5
  <2>2. \A k \in 1 .. c + Len(s) : b[k] = IF k <= c THEN a[k] ELSE s[k - c]
    BY <1>6, Zenon
  <2> HIDE DEF a, b, c
  <2>3. a \o s \in Seq(Byte) /\ Len(a \o s) = c + Len(s)
        /\ \A k \in 1 .. c + Len(s) : (a \o s)[k] = IF k <= c THEN a[k] ELSE s[k - c]
    BY <1>1, <2>1
  <2>4. b = a \o s
    BY <2>1, <2>2, <2>3, SameSeq, Zenon
  <2> QED
    BY <2>4, Zenon DEF a, b
<1>8. \A j \in Pipe \ {i} : Contents'[j] = Contents[j]
  BY <1>3, ContentsKept, Zenon
<1> QED
  BY <1>1, <1>7, <1>8, Zenon DEF Contents

\* A sequence without its first n elements.
LEMMA Dropped ==
    ASSUME NEW a \in Seq(Byte), NEW n \in 0 .. Len(a)
    PROVE  /\ SubSeq(a, n + 1, Len(a)) \in Seq(Byte)
           /\ Len(SubSeq(a, n + 1, Len(a))) = Len(a) - n
           /\ \A k \in 1 .. Len(a) - n : SubSeq(a, n + 1, Len(a))[k] = a[n + k]
<1>1. Len(a) \in Nat
  OBVIOUS
<1>2. SubSeq(a, n + 1, Len(a)) \in Seq(Byte)
  BY <1>1
<1>3. Len(SubSeq(a, n + 1, Len(a))) = Len(a) - n
  BY <1>1
<1>4. \A k \in 1 .. Len(a) - n : SubSeq(a, n + 1, Len(a))[k] = a[n + k]
  BY <1>1
<1> QED
  BY <1>2, <1>3, <1>4, Zenon

\* piperead takes the oldest bytes and leaves the rest in order.
LEMMA ContentsTake ==
    ASSUME TypeOK, TypeOK', RingInv, NEW i \in used, NEW n \in Nat, n <= Count(i),
           pipe' = [pipe EXCEPT ![i].nread = (@ + n) % UWRAP], used' = used
    PROVE  Contents' = [Contents EXCEPT ![i] = SubSeq(@, n + 1, Len(@))]
<1>1. /\ i \in Pipe /\ pipe \in [Pipe -> PipeRecord]
      /\ pipe[i].nread \in 0 .. UWRAP - 1 /\ pipe[i].nwrite \in 0 .. UWRAP - 1
  <2>1. i \in Pipe
    BY Zenon DEF TypeOK
  <2> QED
    BY <2>1, Zenon DEF TypeOK, PipeRecord
<1>2. Count(i) \in 0 .. PIPESIZE /\ n \in 0 .. PIPESIZE
  BY <1>1, RingFacts, Sizes DEF RingInv
<1>3. /\ \A j \in Pipe \ {i} : pipe'[j] = pipe[j]
      /\ pipe'[i].data = pipe[i].data /\ Count(i)' = Count(i) - n
  BY <1>1, TakeFacts, Zenon
<1>4. pipe'[i].nread = (pipe[i].nread + n) % UWRAP
  BY <1>1, Zenon DEF PipeRecord
<1>5. /\ Contents[i] \in Seq(Byte) /\ Len(Contents[i]) = Count(i)
      /\ Contents'[i] \in Seq(Byte) /\ Len(Contents'[i]) = Count(i) - n
  BY <1>1, <1>3, ContentsFacts, ContentsNext, Zenon DEF Filled
<1>6. ASSUME NEW k \in 1 .. Count(i) - n
      PROVE  Contents'[i][k] = Contents[i][n + k]
  <2>1. Contents'[i][k] = pipe'[i].data[(pipe'[i].nread + k - 1) % PIPESIZE]
    <3>1. \A m \in 1 .. Count(i)' :
              Contents'[i][m] = pipe'[i].data[(pipe'[i].nread + m - 1) % PIPESIZE]
      BY <1>1, ContentsNext, Zenon DEF Filled
    <3>2. k \in 1 .. Count(i)'
      BY <1>3, Zenon
    <3> QED
      BY <3>1, <3>2, Zenon
  <2>2. n + k \in 1 .. Count(i) /\ k \in 1 .. PIPESIZE
    BY <1>2, Sizes
  <2>3. Contents[i][n + k] = pipe[i].data[(pipe[i].nread + (n + k) - 1) % PIPESIZE]
    BY <1>1, <2>2, ContentsFacts, Zenon DEF Filled
  <2>4. (pipe'[i].nread + k - 1) % PIPESIZE = (pipe[i].nread + (n + k) - 1) % PIPESIZE
    <3>1. PICK r \in 0 .. UWRAP - 1 : r = pipe[i].nread
      BY <1>1, Zenon
    <3>2. n \in 0 .. PIPESIZE /\ k \in 1 .. PIPESIZE
      BY <1>2, <2>2, Zenon
    <3>3. (((r + n) % UWRAP) + k - 1) % PIPESIZE = (r + (n + k) - 1) % PIPESIZE
      BY <3>2, PlaceAfter, Zenon
    <3> QED
      BY <1>4, <3>1, <3>3, Zenon
  <2> QED
    BY <1>3, <2>1, <2>3, <2>4, Zenon
<1>7. Contents'[i] = SubSeq(Contents[i], n + 1, Len(Contents[i]))
  <2> DEFINE a == Contents[i]
  <2> DEFINE b == Contents'[i]
  <2> DEFINE c == Count(i)
  <2>1. a \in Seq(Byte) /\ b \in Seq(Byte) /\ Len(a) = c /\ Len(b) = c - n /\ n \in 0 .. c
    BY <1>2, <1>5
  <2>2. \A k \in 1 .. c - n : b[k] = a[n + k]
    BY <1>6, Zenon
  <2> HIDE DEF a, b, c
  <2>3. SubSeq(a, n + 1, Len(a)) \in Seq(Byte) /\ Len(SubSeq(a, n + 1, Len(a))) = c - n
        /\ \A k \in 1 .. c - n : SubSeq(a, n + 1, Len(a))[k] = a[n + k]
    BY <2>1, Dropped, Zenon
  <2>4. b = SubSeq(a, n + 1, Len(a))
    BY <2>1, <2>2, <2>3, SameSeq, Zenon
  <2> QED
    BY <2>4, Zenon DEF a, b
<1>8. \A j \in Pipe \ {i} : Contents'[j] = Contents[j]
  BY <1>3, ContentsKept, Zenon
<1> QED
  BY <1>1, <1>7, <1>8, Zenon DEF Contents

-----------------------------------------------------------------------------
\* Pipes that stay in use with the same flags have the same ends.
LEMMA EndsKept ==
    ASSUME NEW i \in Pipe, pipe'[i].readopen = pipe[i].readopen,
           pipe'[i].writeopen = pipe[i].writeopen, i \in used' <=> i \in used
    PROVE  OpenEnds'[i] = OpenEnds[i]
BY Zenon DEF OpenEnds

LEMMA EndsUnchanged ==
    ASSUME \A i \in Pipe : OpenEnds'[i] = OpenEnds[i]
    PROVE  OpenEnds' = OpenEnds
BY Zenon DEF OpenEnds

\* Whether an end is among the open ones.
LEMMA EndsAre ==
    ASSUME NEW i \in Pipe, NEW e
    PROVE  e \in OpenEnds[i] <=> e \in Ends /\ i \in used /\ Open(i, e)
BY Zenon DEF OpenEnds, Open

\* A step of one process that leaves the contents and the ends alone.
LEMMA LocalRefines ==
    ASSUME NEW p \in Proc, \A i \in Pipe : Contents'[i] = Contents[i],
           \A i \in Pipe : OpenEnds'[i] = OpenEnds[i],
           \A q \in Proc \ {p} : left'[q] = left[q]
    PROVE  Queue!Next
<1>1. Contents' = Contents
  BY Zenon DEF Contents
<1>2. OpenEnds' = OpenEnds
  BY EndsUnchanged, Zenon
<1> QED
  BY <1>1, <1>2, Zenon DEF Queue!Next, Queue!Local

LEMMA QuietRefines ==
    ASSUME NEW p \in Proc, UNCHANGED <<pipe, used>>, \A q \in Proc \ {p} : left'[q] = left[q]
    PROVE  Queue!Next
<1>1. \A i \in Pipe : Contents'[i] = Contents[i]
  BY ContentsKept, Zenon
<1>2. \A i \in Pipe : OpenEnds'[i] = OpenEnds[i]
  BY EndsKept, Zenon
<1> QED
  BY <1>1, <1>2, LocalRefines, Zenon

\* A new pipe is empty, whatever its page held.
LEMMA NewRefines ==
    ASSUME TypeOK, TypeOK', NEW p \in Proc, sys_pipe(p)
    PROVE  Queue!Next
<1>1. PICK i \in Pipe \ used : pipe' = [pipe EXCEPT ![i] = NewPipe] /\ used' = used \cup {i}
  BY Zenon DEF sys_pipe, TypeOK
<1>2. pipe'[i] = NewPipe /\ \A j \in Pipe \ {i} : pipe'[j] = pipe[j]
  BY <1>1, Zenon DEF TypeOK
<1>3. Count(i)' = 0
  <2>1. NewPipe.nwrite = 0 /\ NewPipe.nread = 0 /\ (0 - 0) % UWRAP = 0
    BY Fresh, Sizes
  <2> QED
    BY <1>2, <2>1, Zenon DEF Count
<1>4. Contents'[i] = <<>> /\ Contents[i] = <<>>
  <2>1. Contents'[i] \in Seq(Byte) /\ Len(Contents'[i]) = 0 /\ Contents[i] = <<>>
    BY <1>1, <1>3, ContentsFacts, ContentsNext, Zenon DEF Filled
  <2> QED
    BY <2>1
<1>5. \A j \in Pipe \ {i} : Contents'[j] = Contents[j]
  BY <1>1, <1>2, ContentsKept, Zenon
<1>6. left' = left
  BY Zenon DEF sys_pipe, call
<1>7. Contents' = Contents
  BY <1>4, <1>5, Zenon DEF Contents
<1>8. OpenEnds[i] = {}
  BY <1>1, Zenon DEF OpenEnds
<1>9. OpenEnds' = [OpenEnds EXCEPT ![i] = Ends]
  <2>1. \A j \in Pipe \ {i} : OpenEnds'[j] = OpenEnds[j]
    BY <1>1, <1>2, EndsKept, Zenon
  <2>2. pipe'[i].readopen /\ pipe'[i].writeopen
    BY <1>2, Fresh, Zenon
  <2>3. OpenEnds'[i] = Ends
    BY <1>1, <2>2, Zenon DEF OpenEnds
  <2> QED
    BY <1>1, <2>1, <2>3, Zenon DEF OpenEnds
<1>10. Queue!Open(i)
  BY <1>6, <1>7, <1>8, <1>9, Zenon DEF Queue!Open, Ends
<1> QED
  BY <1>1, <1>10, Zenon DEF Queue!Next

\* pipeclose leaves the contents to the other end, or discards them with the pipe.
LEMMA CloseRefines ==
    ASSUME IInv, NEW p \in Proc, pipeclose(p)
    PROVE  Queue!Next
<1>1. PICK i : i = at[p]
  BY Zenon
<1>0. PICK e : e = end[p]
  BY Zenon
<1>2. /\ i \in used /\ i \in Pipe /\ left' = left /\ pipe \in [Pipe -> PipeRecord]
      /\ e \in Ends /\ Closes(p, i, e) /\ pipe[i] \in PipeRecord
  BY <1>0, <1>1, Zenon DEF IInv, TypeOK, CallInv, Closing, Closes, pipeclose, PipeRecord
<1>a. e \in OpenEnds[i] /\ (e = "read" \/ e = "write")
  <2>1. Open(i, e)
    BY <1>2, Zenon DEF IInv, OpenInv
  <2> QED
    BY <1>2, <2>1, EndsAre, Zenon DEF Ends
<1>b. /\ Closed(i, e).readopen <=> pipe[i].readopen /\ e # "read"
      /\ Closed(i, e).writeopen <=> pipe[i].writeopen /\ e # "write"
      /\ Closed(i, e).data = pipe[i].data /\ Closed(i, e).nread = pipe[i].nread
      /\ Closed(i, e).nwrite = pipe[i].nwrite
  BY <1>2, Zenon DEF Closed, PipeRecord
<1>3. CASE Unused(Closed(i, e)) /\ pipe' = [pipe EXCEPT ![i] = NewPipe] /\ used' = used \ {i}
  <2>1. \A j \in Pipe \ {i} : Contents'[j] = Contents[j]
    BY <1>2, <1>3, ContentsKept, Zenon
  <2>2. Contents'[i] = <<>>
    BY <1>2, <1>3, Zenon DEF Contents
  <2>3. Contents' = [Contents EXCEPT ![i] = <<>>]
    BY <1>2, <2>1, <2>2, Zenon DEF Contents
  <2>4. OpenEnds[i] = {e}
    <3>1. \A d \in Ends : Open(i, d) => d = e
      <4>1. /\ pipe[i].readopen => e = "read"
            /\ pipe[i].writeopen => e = "write"
        BY <1>3, <1>b, Zenon DEF Unused
      <4>2. ASSUME NEW d, d = "read", Open(i, d) PROVE d = e
        BY <4>1, <4>2, Zenon DEF Open
      <4>3. ASSUME NEW d, d = "write", Open(i, d) PROVE d = e
        BY <4>1, <4>3, Zenon DEF Open
      <4> QED
        BY <4>2, <4>3, Zenon DEF Ends
    <3> QED
      BY <1>2, <1>a, <3>1, EndsAre, Zenon
  <2>5. \A j \in Pipe \ {i} : OpenEnds'[j] = OpenEnds[j]
    BY <1>2, <1>3, EndsKept, Zenon
  <2>6. OpenEnds'[i] = OpenEnds[i] \ {e}
    BY <1>2, <1>3, <2>4, Zenon DEF OpenEnds
  <2>7. OpenEnds' = [OpenEnds EXCEPT ![i] = @ \ {e}]
    BY <1>2, <2>5, <2>6, Zenon DEF OpenEnds
  <2>8. Queue!Close(i, e)
    BY <1>2, <1>a, <2>3, <2>4, <2>7, Zenon DEF Queue!Close
  <2> QED
    BY <1>2, <1>a, <2>8, Zenon DEF Queue!Next
<1>4. CASE ~Unused(Closed(i, e)) /\ pipe' = [pipe EXCEPT ![i] = Closed(i, e)] /\ UNCHANGED used
  <2>1. pipe'[i] = Closed(i, e)
    BY <1>2, <1>4, Zenon
  <2>2. \A j \in Pipe \ {i} : pipe'[j] = pipe[j]
    BY <1>2, <1>4, Zenon
  <2>3. \A j \in Pipe : Contents'[j] = Contents[j]
    BY <1>2, <1>4, <1>b, <2>1, <2>2, ContentsKept, Zenon
  <2>4. Contents' = Contents
    BY <2>3, Zenon DEF Contents
  <2>5. OpenEnds[i] # {e}
    <3>1. PICK d \in Ends : d # e /\ Open(i, d)
      BY <1>4, <1>b, Zenon DEF Unused, Open, Ends
    <3> QED
      BY <1>2, <3>1, EndsAre, Zenon
  <2>6. OpenEnds'[i] = OpenEnds[i] \ {e}
    <3>1. \A d \in Ends : Open(i, d)' <=> Open(i, d) /\ d # e
      BY <1>b, <1>a, <2>1, Zenon DEF Open, Ends
    <3>2. OpenEnds'[i] = {d \in Ends : i \in used /\ Open(i, d)'}
      BY <1>2, <1>4, Zenon DEF OpenEnds, Open
    <3> QED
      BY <1>2, <3>1, <3>2, EndsAre, Zenon
  <2>7. \A j \in Pipe \ {i} : OpenEnds'[j] = OpenEnds[j]
    BY <1>4, <2>2, EndsKept, Zenon
  <2>8. OpenEnds' = [OpenEnds EXCEPT ![i] = @ \ {e}]
    BY <1>2, <2>6, <2>7, Zenon DEF OpenEnds
  <2>9. Queue!Close(i, e)
    BY <1>2, <1>a, <2>4, <2>5, <2>8, Zenon DEF Queue!Close
  <2> QED
    BY <1>2, <1>a, <2>9, Zenon DEF Queue!Next
<1> QED
  BY <1>0, <1>1, <1>3, <1>4, Zenon DEF pipeclose

\* What is in the pipe when nothing is added or taken.
LEMMA NothingMoved ==
    ASSUME NEW a \in Seq(Byte), NEW s \in Seq(Byte)
    PROVE  /\ Len(s) = 0 => a \o s = a
           /\ SubSeq(a, 0 + 1, Len(a)) = a
OBVIOUS

LEMMA WriteRefines ==
    ASSUME IInv, TypeOK', NEW p \in Proc, pipewrite(p)
    PROVE  Queue!Next
<1>0. PICK i : i = at[p]
  BY Zenon
<1> DEFINE n == Lesser(Room(i), Len(left[p]))
<1> DEFINE rest == SubSeq(left[p], n + 1, Len(left[p]))
<1> DEFINE s == SubSeq(left[p], 1, n)
<1>1. /\ pc[p] = "pipewrite" /\ used' = used
      /\ pipe' = [pipe EXCEPT ![i] = Put(i, s)]
      /\ left' = [left EXCEPT ![p] = <<>>] \/ left' = [left EXCEPT ![p] = rest]
  BY <1>0, Zenon DEF pipewrite
<1>2. i \in Pipe /\ i \in used /\ left \in [Proc -> Seq(Byte)] /\ left[p] \in Seq(Byte)
  BY <1>0, <1>1, InUse, Places, Zenon DEF IInv, CallInv, TypeOK
<1>3. Room(i) \in Nat /\ Len(left[p]) \in Nat
  <2>1. Count(i) \in Nat /\ Count(i) <= PIPESIZE
    BY <1>2, RingFacts, Zenon DEF IInv, RingInv
  <2> QED
    BY <1>2, <2>1, Sizes DEF Room
<1>4. n \in Nat /\ n <= Room(i) /\ n <= Len(left[p]) /\ n \in 0 .. Len(left[p])
  BY <1>3 DEF Lesser
<1> HIDE DEF n
<1>5. s \in Seq(Byte) /\ Len(s) = n
  BY <1>2, <1>4, Split, Zenon
<1>6. Contents' = [Contents EXCEPT ![i] = @ \o s]
  BY <1>1, <1>2, <1>4, <1>5, ContentsPut, Zenon DEF IInv
<1>a. OpenEnds' = OpenEnds
  <2>1. /\ \A j \in Pipe \ {i} : pipe'[j] = pipe[j]
        /\ pipe'[i].readopen = pipe[i].readopen /\ pipe'[i].writeopen = pipe[i].writeopen
    BY <1>1, <1>2, <1>4, <1>5, PutFacts, Zenon DEF IInv
  <2>2. \A j \in Pipe : OpenEnds'[j] = OpenEnds[j]
    BY <1>1, <2>1, EndsKept, Zenon
  <2> QED
    BY <2>2, EndsUnchanged, Zenon
<1>b. "write" \in OpenEnds[i]
  <2>1. \E f \in File : IsEnd(f, i, "write")
    BY <1>0, <1>1, InUse, Zenon DEF InWrite
  <2>2. Open(i, "write")
    BY <1>2, <2>1, Zenon DEF IInv, OpenInv, Ends
  <2> QED
    BY <1>2, <2>2, EndsAre, Zenon DEF Ends
<1>7. CASE n = 0
  <2>1. Contents[i] \in Seq(Byte)
    BY <1>2, ContentsFacts, Zenon DEF Filled, IInv
  <2>2. Contents[i] \o s = Contents[i]
    BY <1>5, <1>7, <2>1, NothingMoved, Zenon
  <2>3. \A j \in Pipe : Contents'[j] = Contents[j]
    BY <1>6, <2>2, Zenon DEF Contents
  <2>4. \A q \in Proc \ {p} : left'[q] = left[q]
    BY <1>1, <1>2, Zenon
  <2> QED
    BY <1>a, <2>3, <2>4, LocalRefines, Zenon
<1>8. CASE n # 0
  <2>1. n \in 1 .. Len(left[p])
    BY <1>3, <1>4, <1>8
  <2>2. \/ left' = [left EXCEPT ![p] = SubSeq(@, n + 1, Len(@))]
        \/ left' = [left EXCEPT ![p] = <<>>]
    BY <1>1, <1>2, Zenon
  <2>3. Contents' = [Contents EXCEPT ![i] = @ \o SubSeq(left[p], 1, n)]
    BY <1>6, Zenon
  <2>4. Queue!Write(p, i)
    BY <1>a, <1>b, <2>1, <2>2, <2>3, Zenon DEF Queue!Write
  <2> QED
    BY <1>2, <2>4, Zenon DEF Queue!Next
<1> QED
  BY <1>7, <1>8, Zenon

LEMMA ReadRefines ==
    ASSUME IInv, TypeOK', NEW p \in Proc, piperead(p)
    PROVE  Queue!Next
<1>0. PICK i : i = at[p]
  BY Zenon
<1> DEFINE n == Lesser(Count(i), want[p])
<1>1. /\ pc[p] = "piperead" /\ used' = used /\ left' = left
      /\ pipe' = pipe \/ pipe' = [pipe EXCEPT ![i].nread = (@ + n) % UWRAP]
  BY <1>0, Zenon DEF piperead
<1>2. i \in Pipe /\ i \in used /\ want[p] \in Nat
  BY <1>0, <1>1, InUse, Places, Zenon DEF IInv, CallInv, TypeOK
<1>3. Count(i) \in Nat
  BY <1>2, RingFacts, Zenon DEF IInv
<1>4. n \in Nat /\ n <= Count(i) /\ (n # 0 => n \in 1 .. Count(i))
  BY <1>2, <1>3 DEF Lesser
<1> HIDE DEF n
<1>5. Contents[i] \in Seq(Byte) /\ Len(Contents[i]) = Count(i)
  BY <1>2, ContentsFacts, Zenon DEF Filled, IInv
<1>6. CASE pipe' = pipe
  BY <1>1, <1>6, QuietRefines, Zenon
<1>7. CASE pipe' = [pipe EXCEPT ![i].nread = (@ + n) % UWRAP]
  <2>1. Contents' = [Contents EXCEPT ![i] = SubSeq(@, n + 1, Len(@))]
    BY <1>1, <1>2, <1>4, <1>7, ContentsTake, Zenon DEF IInv
  <2>a. OpenEnds' = OpenEnds
    <3>1. /\ \A j \in Pipe \ {i} : pipe'[j] = pipe[j]
          /\ pipe'[i].readopen = pipe[i].readopen /\ pipe'[i].writeopen = pipe[i].writeopen
      BY <1>2, <1>4, <1>7, TakeFacts, Zenon DEF IInv
    <3>2. \A j \in Pipe : OpenEnds'[j] = OpenEnds[j]
      BY <1>1, <3>1, EndsKept, Zenon
    <3> QED
      BY <3>2, EndsUnchanged, Zenon
  <2>b. "read" \in OpenEnds[i]
    <3>1. \E f \in File : IsEnd(f, i, "read")
      BY <1>0, <1>1, InUse, Zenon DEF InRead
    <3>2. Open(i, "read")
      BY <1>2, <3>1, Zenon DEF IInv, OpenInv, Ends
    <3> QED
      BY <1>2, <3>2, EndsAre, Zenon DEF Ends
  <2>2. CASE n = 0
    <3>1. SubSeq(Contents[i], n + 1, Len(Contents[i])) = Contents[i]
      BY <1>5, <2>2, NothingMoved, Zenon
    <3>2. \A j \in Pipe : Contents'[j] = Contents[j]
      BY <2>1, <3>1, Zenon DEF Contents
    <3> QED
      BY <1>1, <2>a, <3>2, LocalRefines, Zenon
  <2>3. CASE n # 0
    <3>1. n \in 1 .. Len(Contents[i])
      BY <1>4, <1>5, <2>3, Zenon
    <3>2. Queue!Read(i)
      BY <1>1, <2>1, <2>a, <2>b, <3>1, Zenon DEF Queue!Read
    <3> QED
      BY <1>2, <3>2, Zenon DEF Queue!Next
  <2> QED
    BY <2>2, <2>3, Zenon
<1> QED
  BY <1>1, <1>6, <1>7, Zenon

-----------------------------------------------------------------------------
\* The first n numbers.
LEMMA Interval ==
    \A n \in Nat : IsFiniteSet(1 .. n) /\ Cardinality(1 .. n) = n
BY FS_Interval

\* The descriptors of an entry are finitely many, and ref is 0 when there are none.
LEMMA RefsFacts ==
    ASSUME TypeOK, FileInv, NEW f \in File
    PROVE  /\ IsFiniteSet(Refs(f)) /\ Cardinality(Refs(f)) \in Nat
           /\ file[f].ref = Cardinality(Refs(f))
           /\ \A p \in Proc : ofile[p][f] \in 0 .. NOFILE
           /\ \A p \in Proc : \A k \in 1 .. ofile[p][f] : <<p, k>> \in Refs(f)
<1>1. \A p \in Proc : ofile[p][f] \in 0 .. NOFILE
  BY DEF TypeOK
<1>2. IsFiniteSet(1 .. NOFILE)
  BY Sizes, FS_Interval
<1>3. IsFiniteSet(Proc \X (1 .. NOFILE))
  BY <1>2, Sizes, FS_Product, Zenon
<1>4. Refs(f) \in SUBSET (Proc \X (1 .. NOFILE))
  BY Zenon DEF Refs
<1>5. IsFiniteSet(Refs(f))
  BY <1>3, <1>4, FS_Subset, Zenon
<1>6. Cardinality(Refs(f)) \in Nat
  BY <1>5, FS_CardinalityType, Zenon
<1>7. \A p \in Proc : \A k \in 1 .. ofile[p][f] : <<p, k>> \in Refs(f)
  BY <1>1, Sizes DEF Refs
<1> QED
  BY <1>1, <1>5, <1>6, <1>7, Zenon DEF FileInv

\* An entry with a descriptor has a reference; one without references has no descriptor.
LEMMA Referenced ==
    ASSUME TypeOK, FileInv, NEW f \in File, NEW p \in Proc
    PROVE  /\ ofile[p][f] > 0 => file[f].ref > 0 /\ file[f].type \in Ends /\ file[f].pipe \in used
           /\ file[f].ref = 0 => ofile[p][f] = 0
<1>1. ofile[p][f] > 0 => Refs(f) # {}
  <2>1. ofile[p][f] > 0 => <<p, 1>> \in Refs(f)
    BY RefsFacts
  <2> QED
    BY <2>1, Zenon
<1>2. Refs(f) # {} => Cardinality(Refs(f)) # 0
  BY RefsFacts, FS_EmptySet, Zenon
<1>3. ofile[p][f] > 0 => file[f].ref > 0
  BY <1>1, <1>2, RefsFacts
<1> QED
  BY <1>3, RefsFacts, Sizes DEF FileInv

\* Whoever gives up the last reference is the only one that had one.
LEMMA LastReference ==
    ASSUME TypeOK, FileInv, NEW f \in File, NEW p \in Proc,
           ofile[p][f] > 0, file[f].ref = 1
    PROVE  ofile[p][f] = 1 /\ \A q \in Proc \ {p} : ofile[q][f] = 0
<1>1. PICK x : Refs(f) = {x}
  BY RefsFacts, FS_Singleton, Zenon
<1>2. <<p, 1>> \in Refs(f) /\ <<p, ofile[p][f]>> \in Refs(f)
  BY RefsFacts
<1>3. \A q \in Proc : ofile[q][f] > 0 => <<q, 1>> \in Refs(f)
  BY RefsFacts
<1>4. ofile[p][f] = 1
  BY <1>1, <1>2
<1>5. \A q \in Proc : ofile[q][f] > 0 => q = p
  BY <1>1, <1>2, <1>3
<1> QED
  BY <1>4, <1>5, RefsFacts

\* A process with a free descriptor has fewer than NOFILE that refer to any one entry.
LEMMA FreeDescriptor ==
    ASSUME TypeOK, NEW p \in Proc, NEW f \in File, FreeFds(p) > 0
    PROVE  ofile[p][f] < NOFILE
<1> DEFINE E == 1 .. ofile[p][f]
<1> DEFINE g == [k \in E |-> <<f, k>>]
<1>1. ofile[p][f] \in 0 .. NOFILE
  BY DEF TypeOK
<1>2. IsFiniteSet(File) /\ IsFiniteSet(1 .. NOFILE) /\ IsFiniteSet(E)
      /\ Cardinality(E) = ofile[p][f]
  BY <1>1, Interval, Sizes DEF File
<1>3. IsFiniteSet(File \X (1 .. NOFILE))
  BY <1>2, FS_Product, Zenon
<1>4. Descriptors(p) \in SUBSET (File \X (1 .. NOFILE))
  BY Zenon DEF Descriptors
<1>5. IsFiniteSet(Descriptors(p))
  BY <1>3, <1>4, FS_Subset, Zenon
<1>6. g \in Injection(E, Descriptors(p))
  <2>1. \A k \in E : <<f, k>> \in Descriptors(p)
    BY <1>1, Sizes DEF Descriptors
  <2> QED
    BY <2>1, Zenon DEF Injection, IsInjective
<1> HIDE DEF E, g
<1>7. Cardinality(E) <= Cardinality(Descriptors(p))
  BY <1>5, <1>6, FS_Injection, Zenon
<1>8. Cardinality(Descriptors(p)) \in Nat
  BY <1>5, FS_CardinalityType, Zenon
<1> QED
  BY <1>1, <1>2, <1>7, <1>8, Sizes DEF FreeFds

\* An entry with another reference count.
Entry == [ref : Nat, type : Ends \cup {"NONE"}, pipe : Pipe \cup {NoPipe}]
LEMMA Recounted ==
    ASSUME NEW r \in Entry, NEW n \in Nat
    PROVE  [r EXCEPT !.ref = n] \in Entry
BY Zenon DEF Entry

-----------------------------------------------------------------------------
\* A descriptor less.
LEMMA DropRef ==
    ASSUME TypeOK, FileInv, NEW p \in Proc, NEW f \in File, ofile[p][f] > 0,
           ofile' = [ofile EXCEPT ![p][f] = @ - 1]
    PROVE  /\ ofile' \in [Proc -> [File -> 0 .. NOFILE]]
           /\ ofile'[p][f] = ofile[p][f] - 1
           /\ \A q \in Proc, g \in File : q # p \/ g # f => ofile'[q][g] = ofile[q][g]
           /\ \A g \in File \ {f} : Refs(g)' = Refs(g)
           /\ Cardinality(Refs(f)') = file[f].ref - 1
<1>1. ofile[p][f] \in 1 .. NOFILE
  BY RefsFacts, Sizes
<1>2. /\ ofile' \in [Proc -> [File -> 0 .. NOFILE]]
      /\ ofile'[p][f] = ofile[p][f] - 1
      /\ \A q \in Proc, g \in File : q # p \/ g # f => ofile'[q][g] = ofile[q][g]
  <2>1. ofile[p][f] - 1 \in 0 .. NOFILE /\ ofile \in [Proc -> [File -> 0 .. NOFILE]]
    BY <1>1, Sizes DEF TypeOK
  <2> QED
    BY <2>1, Zenon
<1>3. \A g \in File \ {f} : Refs(g)' = Refs(g)
  BY <1>2 DEF Refs
<1> DEFINE n == ofile[p][f]
<1>4. Refs(f)' = Refs(f) \ {<<p, n>>}
  <2>1. Refs(f)' = {d \in Proc \X (1 .. NOFILE) : d[2] <= ofile'[d[1]][f]}
    BY Zenon DEF Refs
  <2>2. \A d \in Proc \X (1 .. NOFILE) :
            d[2] <= ofile'[d[1]][f] <=> d[2] <= ofile[d[1]][f] /\ d # <<p, n>>
    BY <1>1, <1>2
  <2> QED
    BY <2>1, <2>2, Zenon DEF Refs
<1>5. <<p, n>> \in Refs(f)
  BY <1>1, RefsFacts
<1>6. Cardinality(Refs(f)') = Cardinality(Refs(f)) - 1
  BY <1>4, <1>5, RefsFacts, FS_RemoveElement, Zenon
<1> QED
  BY <1>2, <1>3, <1>6, RefsFacts, Zenon

\* close: a descriptor and a reference less; with the last reference the entry is free
\* and the process goes on to close the end.
LEMMA CloseStep ==
    ASSUME IInv, NEW p \in Proc, NEW f \in File, NEW l \in {"user", "exit"},
           pc[p] = l, fileclose(p, f, l)
    PROVE  IInv'
<1>1. /\ ofile[p][f] > 0 /\ ofile' = [ofile EXCEPT ![p][f] = @ - 1]
      /\ UNCHANGED <<pipe, used, killed, left, want>>
  BY Zenon DEF fileclose
<1>2. /\ ofile' \in [Proc -> [File -> 0 .. NOFILE]]
      /\ ofile'[p][f] = ofile[p][f] - 1
      /\ \A q \in Proc, g \in File : q # p \/ g # f => ofile'[q][g] = ofile[q][g]
      /\ \A g \in File \ {f} : Refs(g)' = Refs(g)
      /\ Cardinality(Refs(f)') = file[f].ref - 1
  BY <1>1, DropRef, Zenon DEF IInv
<1>3. file[f].type \in Ends /\ file[f].pipe \in used /\ file[f].ref \in Nat
  BY <1>1, Referenced, RefsFacts, Zenon DEF IInv
<1>4. \A q \in Proc, g \in File : ofile[q][g] = 0 => ofile'[q][g] = 0
  BY <1>1, <1>2
<1>5. CASE /\ file[f].ref > 1 /\ file' = [file EXCEPT ![f].ref = @ - 1]
           /\ Goto(p, l) /\ UNCHANGED <<at, end>>
  <2>1. /\ \A g \in File \ {f} : file'[g] = file[g]
        /\ file'[f].ref = file[f].ref - 1 /\ file'[f].type = file[f].type
        /\ file'[f].pipe = file[f].pipe /\ file' \in [File -> Entry]
    <3>1. file \in [File -> Entry] /\ file[f].ref - 1 \in Nat
      BY <1>3, <1>5 DEF IInv, TypeOK, Entry
    <3>2. file' = [file EXCEPT ![f] = [file[f] EXCEPT !.ref = file[f].ref - 1]]
      BY <1>5, Zenon
    <3>3. [file[f] EXCEPT !.ref = file[f].ref - 1] \in Entry
      BY <3>1, Recounted, Zenon
    <3> QED
      BY <3>1, <3>2, <3>3, Zenon DEF Entry
  <2>2. pc' = pc /\ unsung' = unsung
    BY <1>5, Zenon DEF Goto, IInv, CallInv
  <2>3. TypeOK'
    BY <1>1, <1>2, <1>5, <2>1, Zenon DEF IInv, TypeOK, Entry
  <2>4. FileInv'
    BY <1>1, <1>2, <1>3, <1>5, <2>1 DEF IInv, FileInv
  <2>5. EndInv' /\ OpenInv' /\ RingInv'
    <3>1. \A g \in File, i \in Pipe, e \in Ends : IsEnd(g, i, e)' <=> IsEnd(g, i, e)
      BY <2>1, Zenon DEF IsEnd
    <3>2. \A q \in Proc, i \in Pipe, e \in Ends : Closes(q, i, e)' <=> Closes(q, i, e)
      BY <1>5, <2>2, Zenon DEF Closes, Closing
    <3> QED
      BY <1>1, <3>1, <3>2, SameEnds, Zenon DEF IInv, TypeOK
  <2>6. CallInv'
    <3>1. \A q \in Proc \ {p} : \A i, e : Holds(q, i, e) => Holds(q, i, e)'
      BY <1>2, <2>1 DEF Holds
    <3> QED
      BY <1>1, <1>4, <1>5, <2>2, <3>1, Places, Zenon DEF IInv, CallInv, Closing
  <2>7. SleepersJustified'
    BY <1>1, <1>5, <2>2, SameSleepers, Zenon DEF IInv
  <2> QED
    BY <2>3, <2>4, <2>5, <2>6, <2>7, Zenon DEF IInv
<1>6. CASE /\ file[f].ref = 1 /\ file' = [file EXCEPT ![f] = FreeFile]
           /\ at' = [at EXCEPT ![p] = file[f].pipe] /\ end' = [end EXCEPT ![p] = file[f].type]
           /\ Goto(p, IF l = "user" THEN "pipeclose" ELSE "pipeclose_exit")
  <2>0. PICK i, e : i = file[f].pipe /\ e = file[f].type
    BY Zenon
  <2>1. /\ \A g \in File \ {f} : file'[g] = file[g]
        /\ file'[f] = FreeFile /\ file' \in [File -> Entry]
    BY <1>6, Fresh, Zenon DEF IInv, TypeOK, Entry
  <2>2. /\ pc' \in [Proc -> Place] /\ pc'[p] \in {"pipeclose", "pipeclose_exit"}
        /\ unsung' = unsung /\ at'[p] = i /\ end'[p] = e
        /\ \A q \in Proc \ {p} : pc'[q] = pc[q] /\ at'[q] = at[q] /\ end'[q] = end[q]
    BY <1>6, <2>0, GotoFacts, Places DEF IInv, TypeOK
  <2>3. TypeOK'
    <3>1. at' \in [Proc -> Pipe \cup {NoPipe}] /\ end' \in [Proc -> Ends]
      BY <1>3, <1>6, Zenon DEF IInv, TypeOK
    <3> QED
      BY <1>1, <1>2, <2>1, <3>1, Zenon DEF IInv, TypeOK, Entry
  <2>4. FileInv'
    BY <1>1, <1>2, <1>6, <2>1, Fresh DEF IInv, FileInv
  <2>5. /\ \A g \in File, j \in Pipe, x \in Ends : IsEnd(g, j, x)' <=> g # f /\ IsEnd(g, j, x)
        /\ IsEnd(f, i, e) /\ i \in used /\ e \in Ends
    BY <1>3, <2>0, <2>1, Fresh, Sizes DEF IsEnd
  <2>6. /\ \A q \in Proc : \A j, x : Closes(q, j, x)' <=>
                                        Closes(q, j, x) \/ (q = p /\ j = i /\ x = e)
        /\ \A j, x : ~Closes(p, j, x)
    BY <2>2, Zenon DEF Closes, Closing
  <2>7. EndInv'
    BY <2>5, <2>6 DEF IInv, EndInv
  <2>8. OpenInv'
    <3>1. \A j, x : Open(j, x)' <=> Open(j, x)
      BY <1>1, Zenon DEF Open
    <3>2. \A j \in used, x \in Ends :
              (\E g \in File : IsEnd(g, j, x)') \/ (\E q \in Proc : Closes(q, j, x)')
                  <=> (\E g \in File : IsEnd(g, j, x)) \/ (\E q \in Proc : Closes(q, j, x))
      <4> SUFFICES ASSUME NEW j \in used, NEW x \in Ends
                   PROVE  (\E g \in File : IsEnd(g, j, x)') \/ (\E q \in Proc : Closes(q, j, x)')
                            <=> (\E g \in File : IsEnd(g, j, x)) \/ (\E q \in Proc : Closes(q, j, x))
        BY Zenon
      <4>1. j \in Pipe
        BY Zenon DEF IInv, TypeOK
      <4>2. CASE j = i /\ x = e
        BY <2>5, <2>6, <4>2, Zenon
      <4>3. CASE ~(j = i /\ x = e)
        <5>1. ~IsEnd(f, j, x)
          BY <2>0, <4>3, Zenon DEF IsEnd
        <5> QED
          BY <2>5, <2>6, <4>1, <4>3, <5>1
      <4> QED
        BY <4>2, <4>3, Zenon
    <3> QED
      BY <1>1, <3>1, <3>2, Zenon DEF IInv, OpenInv
  <2>9. RingInv'
    BY <1>1, Zenon DEF IInv, RingInv, Count
  <2>10. CallInv'
    <3>1. \A q \in Proc \ {p} : ofile[q][f] = 0
      BY <1>1, <1>6, LastReference, Zenon DEF IInv
    <3>2. \A q \in Proc \ {p} : \A j, x : Holds(q, j, x) => Holds(q, j, x)'
      BY <1>2, <2>1, <3>1 DEF Holds
    <3> QED
      BY <1>1, <1>4, <2>2, <2>5, <3>2, Places DEF IInv, CallInv, Closing
  <2>11. SleepersJustified'
    BY <1>1, <2>2, SameSleepers, Zenon DEF IInv
  <2> QED
    BY <2>3, <2>4, <2>7, <2>8, <2>9, <2>10, <2>11, Zenon DEF IInv
<1> QED
  BY <1>5, <1>6, Zenon DEF fileclose

-----------------------------------------------------------------------------
\* pipe: two entries and a page that nobody refers to become the two ends.
LEMMA PipeStep ==
    ASSUME IInv, NEW p \in Proc, sys_pipe(p)
    PROVE  IInv'
<1>1. PICK i : i = CHOOSE j \in Pipe \ used : TRUE
  BY Zenon
<1>2. /\ pc[p] = "user" /\ used # Pipe /\ used' = used \cup {i}
      /\ pipe' = [pipe EXCEPT ![i] = NewPipe]
      /\ UNCHANGED <<pc, killed, at, end, left, want, unsung>>
  BY <1>1, Zenon DEF sys_pipe, call, User
<1>3. PICK rf \in File, wf \in File :
         /\ rf \in FreeFiles /\ wf \in FreeFiles \ {rf}
         /\ file' = [file EXCEPT ![rf] = [ref |-> 1, type |-> "read", pipe |-> i],
                                 ![wf] = [ref |-> 1, type |-> "write", pipe |-> i]]
         /\ ofile' = [ofile EXCEPT ![p][rf] = 1, ![p][wf] = 1]
  BY <1>1, Zenon DEF sys_pipe, filealloc
<1>4. i \in Pipe /\ i \notin used /\ used \subseteq Pipe
  BY <1>1, <1>2, Zenon DEF IInv, TypeOK
<1>5. /\ rf # wf /\ file[rf].ref = 0 /\ file[wf].ref = 0
      /\ \A q \in Proc : ofile[q][rf] = 0 /\ ofile[q][wf] = 0
  BY <1>3, Referenced, Zenon DEF FreeFiles, IInv
<1>6. /\ \A g \in File \ {rf, wf} : file'[g] = file[g]
      /\ file'[rf] = [ref |-> 1, type |-> "read", pipe |-> i]
      /\ file'[wf] = [ref |-> 1, type |-> "write", pipe |-> i]
      /\ file' \in [File -> Entry]
  <2>1. file \in [File -> Entry]
    BY Zenon DEF IInv, TypeOK, Entry
  <2>2. /\ [ref |-> 1, type |-> "read", pipe |-> i] \in Entry
        /\ [ref |-> 1, type |-> "write", pipe |-> i] \in Entry
    BY <1>4, Sizes, Zenon DEF Entry
  <2> QED
    BY <1>3, <1>5, <2>1, <2>2, Zenon
<1>7. /\ ofile' \in [Proc -> [File -> 0 .. NOFILE]]
      /\ ofile'[p][rf] = 1 /\ ofile'[p][wf] = 1
      /\ \A q \in Proc, g \in File : q # p \/ g \notin {rf, wf} => ofile'[q][g] = ofile[q][g]
  <2>1. ofile \in [Proc -> [File -> 0 .. NOFILE]] /\ 1 \in 0 .. NOFILE
    BY Sizes DEF IInv, TypeOK
  <2> QED
    BY <1>3, <1>5, <2>1, Zenon
<1>8. \A f \in File : file[f].type \in Ends => file[f].pipe \in used
  BY Fresh, Sizes DEF IInv, TypeOK, FileInv
<1>9. /\ pipe' \in [Pipe -> PipeRecord] /\ pipe'[i] = NewPipe
      /\ \A j \in Pipe \ {i} : pipe'[j] = pipe[j]
  BY <1>2, <1>4, Fresh, Zenon DEF IInv, TypeOK, PipeRecord
<1>10. TypeOK'
  BY <1>2, <1>4, <1>6, <1>7, <1>9, Zenon DEF IInv, TypeOK, Entry, PipeRecord
<1>11. FileInv'
  <2>1. \A g \in File \ {rf, wf} : Refs(g)' = Refs(g)
    BY <1>7 DEF Refs
  <2>2. ASSUME NEW g \in {rf, wf} PROVE Cardinality(Refs(g)') = 1
    <3>1. Refs(g)' = {d \in Proc \X (1 .. NOFILE) : d[2] <= ofile'[d[1]][g]}
      BY Zenon DEF Refs
    <3>2. \A d \in Proc \X (1 .. NOFILE) : d[2] <= ofile'[d[1]][g] <=> d = <<p, 1>>
      <4>1. \A q \in Proc : ofile'[q][g] = IF q = p THEN 1 ELSE 0
        BY <1>3, <1>5, <1>7, <2>2
      <4> QED
        BY <4>1
    <3>3. Refs(g)' = {<<p, 1>>}
      BY <3>1, <3>2, Sizes
    <3> QED
      BY <3>3, FS_Singleton, Zenon
  <2>3. \A g \in {rf, wf} : /\ file'[g].ref = 1 /\ file'[g].type \in Ends
                            /\ file'[g].pipe \in used'
    BY <1>2, <1>6, Sizes
  <2> QED
    BY <1>2, <1>6, <2>1, <2>2, <2>3 DEF IInv, FileInv
<1>12. /\ \A g \in File, j \in Pipe, x \in Ends :
             IsEnd(g, j, x)' <=> \/ IsEnd(g, j, x)
                                 \/ j = i /\ g = IF x = "read" THEN rf ELSE wf
       /\ \A g \in File, x \in Ends : ~IsEnd(g, i, x)
       /\ \A q \in Proc, x \in Ends : ~Closes(q, i, x)
       /\ \A q \in Proc : \A j, x : Closes(q, j, x)' <=> Closes(q, j, x)
  <2>1. \A g \in File, x \in Ends : ~IsEnd(g, i, x)
    BY <1>4, <1>8, Zenon DEF IsEnd
  <2>2. \A q \in Proc, x \in Ends : ~Closes(q, i, x)
    BY <1>4, Zenon DEF Closes, IInv, CallInv
  <2>3. \A q \in Proc : \A j, x : Closes(q, j, x)' <=> Closes(q, j, x)
    BY <1>2, Zenon DEF Closes, Closing
  <2>4. \A j \in Pipe, x \in Ends : ~IsEnd(rf, j, x) /\ ~IsEnd(wf, j, x)
    BY <1>5, Fresh, Sizes DEF IsEnd, IInv, FileInv
  <2>5. \A g \in File, j \in Pipe, x \in Ends :
             IsEnd(g, j, x)' <=> \/ IsEnd(g, j, x)
                                 \/ j = i /\ g = IF x = "read" THEN rf ELSE wf
    BY <1>5, <1>6, <2>4 DEF IsEnd, Ends
  <2> QED
    BY <2>1, <2>2, <2>3, <2>5, Zenon
<1>13. EndInv'
  BY <1>12 DEF IInv, EndInv
<1>14. OpenInv'
  <2> SUFFICES ASSUME NEW j \in used', NEW x \in Ends
               PROVE  Open(j, x)' <=> \/ \E f \in File : IsEnd(f, j, x)'
                                      \/ \E q \in Proc : Closes(q, j, x)'
    BY Zenon DEF OpenInv
  <2>1. CASE j = i
    BY <1>4, <1>9, <1>12, <2>1, Fresh, Zenon DEF Open
  <2>2. CASE j # i
    <3>1. j \in used /\ j \in Pipe
      BY <1>2, <1>4, <2>2, Zenon
    <3>2. Open(j, x)' <=> Open(j, x)
      BY <1>9, <2>2, <3>1, Zenon DEF Open
    <3> QED
      BY <1>12, <2>2, <3>1, <3>2, Zenon DEF IInv, OpenInv
  <2> QED
    BY <2>1, <2>2, Zenon
<1>15. RingInv'
  <2>1. Count(i)' = 0
    BY <1>9, Fresh, Zenon DEF Count
  <2> QED
    BY <1>9, <2>1, Sizes DEF IInv, RingInv, Count
<1>16. CallInv'
  <2>1. \A q \in Proc : \A j, x : Holds(q, j, x) => Holds(q, j, x)'
    <3> SUFFICES ASSUME NEW q \in Proc, NEW g \in File, ofile[q][g] > 0
                 PROVE  ofile'[q][g] > 0 /\ file'[g] = file[g]
      BY Zenon DEF Holds
    <3>1. g \notin {rf, wf}
      BY <1>5
    <3> QED
      BY <1>6, <1>7, <3>1, Zenon
  <2>2. \A q \in Proc, g \in File : pc[q] = "unused" => ofile'[q][g] = ofile[q][g]
    BY <1>2, <1>7, Zenon
  <2> QED
    BY <1>2, <2>1, <2>2, Zenon DEF IInv, CallInv, Closing
<1>17. SleepersJustified'
  <2>1. \A q \in Proc : pc[q] \in {"asleep_read", "asleep_write"} => at[q] \in Pipe \ {i}
    BY <1>4, InUse, Places, Zenon
  <2> QED
    BY <1>2, <1>9, <2>1, Zenon DEF IInv, SleepersJustified, Empty, Full
<1> QED
  BY <1>10, <1>11, <1>13, <1>14, <1>15, <1>16, <1>17, Zenon DEF IInv

-----------------------------------------------------------------------------
\* fork: the child, which had no descriptors, gets one for each of its parent's.
LEMMA ForkStep ==
    ASSUME IInv, NEW p \in Proc, NEW c \in Proc, fork(p, c)
    PROVE  IInv'
<1>1. /\ pc[p] = "user" /\ pc[c] = "unused" /\ c # p
      /\ ofile' = [ofile EXCEPT ![c] = ofile[p]]
      /\ file' = [f \in File |-> [file[f] EXCEPT !.ref = @ + ofile[p][f]]]
      /\ pc' = [pc EXCEPT ![c] = "user"]
      /\ UNCHANGED <<pipe, used, killed, at, end, left, want, unsung>>
  BY Zenon DEF fork, forkedFiles, Goto, User, call
<1>2. /\ \A f \in File : ofile'[c][f] = ofile[p][f] /\ ofile[c][f] = 0
      /\ \A q \in Proc \ {c} : \A f \in File : ofile'[q][f] = ofile[q][f]
      /\ \A f \in File : ofile[p][f] \in 0 .. NOFILE
  BY <1>1, Zenon DEF IInv, TypeOK, CallInv
<1>3. \A f \in File : /\ file'[f].ref = file[f].ref + ofile[p][f]
                      /\ file'[f].type = file[f].type /\ file'[f].pipe = file[f].pipe
                      /\ ofile[p][f] = 0 => file'[f] = file[f]
  BY <1>1, <1>2 DEF IInv, TypeOK
<1>4. \A q \in Proc \ {c} : pc'[q] = pc[q]
  BY <1>1, Zenon DEF IInv, CallInv
<1>5. TypeOK'
  <2>1. file' \in [File -> Entry]
    <3>1. \A f \in File : file[f] \in Entry /\ file[f].ref + ofile[p][f] \in Nat
      BY <1>2 DEF IInv, TypeOK, Entry
    <3> QED
      BY <1>1, <3>1, Recounted, Zenon
  <2>2. ofile' \in [Proc -> [File -> 0 .. NOFILE]]
    BY <1>1, Zenon DEF IInv, TypeOK
  <2> QED
    BY <1>1, <2>1, <2>2, Zenon DEF IInv, TypeOK, Entry
<1>6. FileInv'
  <2> SUFFICES ASSUME NEW f \in File
               PROVE  /\ file'[f].ref = Cardinality(Refs(f)')
                      /\ file'[f].ref = 0 => file'[f] = FreeFile
                      /\ file'[f].ref > 0 => file'[f].type \in Ends /\ file'[f].pipe \in used'
    BY Zenon DEF FileInv
  <2> DEFINE K == {c} \X (1 .. ofile[p][f])
  <2>1. Refs(f)' = Refs(f) \cup K /\ Refs(f) \cap K = {}
    <3>1. Refs(f)' = {d \in Proc \X (1 .. NOFILE) : d[2] <= ofile'[d[1]][f]}
      BY Zenon DEF Refs
    <3>2. \A d \in Proc \X (1 .. NOFILE) :
              d[2] <= ofile'[d[1]][f] <=> d[2] <= ofile[d[1]][f] \/ d \in K
      <4> SUFFICES ASSUME NEW q \in Proc, NEW k \in 1 .. NOFILE
                   PROVE  k <= ofile'[q][f] <=> k <= ofile[q][f] \/ <<q, k>> \in K
        BY Zenon
      <4>1. <<q, k>> \in K <=> q = c /\ k <= ofile[p][f]
        BY <1>2
      <4> QED
        BY <4>1, <1>2
    <3>3. K \subseteq Proc \X (1 .. NOFILE) /\ \A d \in K : ~(d[2] <= ofile[d[1]][f])
      <4>1. \A k \in 1 .. ofile[p][f] : k \in 1 .. NOFILE /\ ~(k <= ofile[c][f])
        BY <1>2, Sizes
      <4> QED
        BY <4>1, Zenon
    <3> QED
      BY <3>1, <3>2, <3>3, Zenon DEF Refs
  <2>2. IsFiniteSet(K) /\ Cardinality(K) = ofile[p][f]
    <3>1. IsFiniteSet(1 .. ofile[p][f]) /\ Cardinality(1 .. ofile[p][f]) = ofile[p][f]
      BY <1>2, Interval
    <3>2. IsFiniteSet({c}) /\ Cardinality({c}) = 1
      BY FS_Singleton, Zenon
    <3>3. IsFiniteSet(K) /\ Cardinality(K) = 1 * Cardinality(1 .. ofile[p][f])
      BY <3>1, <3>2, FS_Product, Zenon
    <3> QED
      BY <3>1, <3>3, <1>2
  <2> HIDE DEF K
  <2>3. IsFiniteSet(Refs(f)) /\ Cardinality(Refs(f)) = file[f].ref /\ file[f].ref \in Nat
    BY RefsFacts, Zenon DEF IInv
  <2>4. Cardinality(Refs(f)') = file[f].ref + ofile[p][f]
    <3>1. Cardinality(Refs(f) \cup K) =
              Cardinality(Refs(f)) + Cardinality(K) - Cardinality(Refs(f) \cap K)
      BY <2>2, <2>3, FS_Union, Zenon
    <3>2. Cardinality(Refs(f) \cap K) = 0
      BY <2>1, FS_EmptySet, Zenon
    <3> QED
      BY <1>2, <2>1, <2>2, <2>3, <3>1, <3>2
  <2>5. ofile[p][f] > 0 => file[f].ref > 0
    BY Referenced, Zenon DEF IInv
  <2> QED
    BY <1>1, <1>2, <1>3, <2>3, <2>4, <2>5 DEF IInv, FileInv
<1>7. EndInv' /\ OpenInv' /\ RingInv'
  <2>1. \A g \in File, i \in Pipe, e \in Ends : IsEnd(g, i, e)' <=> IsEnd(g, i, e)
    BY <1>3, Zenon DEF IsEnd
  <2>2. \A q \in Proc, i \in Pipe, e \in Ends : Closes(q, i, e)' <=> Closes(q, i, e)
    BY <1>1, <1>4, Zenon DEF IInv, CallInv, Closes, Closing
  <2> QED
    BY <1>1, <2>1, <2>2, SameEnds, Zenon DEF IInv, TypeOK
<1>8. CallInv'
  <2>1. \A q \in Proc \ {c} : \A i, e : Holds(q, i, e) => Holds(q, i, e)'
    BY <1>2, <1>3, Zenon DEF Holds
  <2>2. pc' \in [Proc -> Place] /\ pc'[c] = "user"
    BY <1>1, Zenon DEF IInv, CallInv
  <2>3. "user" \notin InRead \cup InWrite
    BY Zenon DEF InRead, InWrite
  <2> QED
    BY <1>1, <1>2, <1>4, <2>1, <2>2, <2>3 DEF IInv, CallInv, Closing
<1>9. SleepersJustified'
  BY <1>1, <1>4, SameSleepers, Zenon DEF IInv, CallInv
<1> QED
  BY <1>5, <1>6, <1>7, <1>8, <1>9, Zenon DEF IInv

\* dup: one descriptor and one reference more.
LEMMA DupStep ==
    ASSUME IInv, NEW p \in Proc, NEW f \in File, sys_dup(p, f)
    PROVE  IInv'
<1> DEFINE n == ofile[p][f] + 1
<1>1. /\ ofile[p][f] > 0 /\ ofile' = [ofile EXCEPT ![p][f] = n]
      /\ file' = [file EXCEPT ![f].ref = @ + 1]
      /\ UNCHANGED <<pipe, used, pc, killed, at, end, left, want, unsung>>
  BY Zenon DEF sys_dup, filedup, call
<1>2. n \in 1 .. NOFILE /\ ofile[p][f] \in 0 .. NOFILE
  <2>1. ofile[p][f] < NOFILE
    BY FreeDescriptor, Zenon DEF sys_dup, IInv
  <2>2. ofile[p][f] \in 0 .. NOFILE
    BY DEF IInv, TypeOK
  <2> QED
    BY <2>1, <2>2, Sizes
<1>3. /\ ofile'[p][f] = n
      /\ \A q \in Proc, g \in File : q # p \/ g # f => ofile'[q][g] = ofile[q][g]
      /\ \A g \in File \ {f} : file'[g] = file[g]
      /\ file'[f].ref = file[f].ref + 1 /\ file'[f].type = file[f].type
      /\ file'[f].pipe = file[f].pipe
  BY <1>1 DEF IInv, TypeOK
<1> HIDE DEF n
<1>4. TypeOK'
  <2>1. file' \in [File -> Entry]
    <3>1. file \in [File -> Entry] /\ file[f].ref + 1 \in Nat
      BY DEF IInv, TypeOK, Entry
    <3>2. file' = [file EXCEPT ![f] = [file[f] EXCEPT !.ref = file[f].ref + 1]]
      BY <1>1, Zenon
    <3> QED
      BY <3>1, <3>2, Recounted, Zenon
  <2>2. ofile' \in [Proc -> [File -> 0 .. NOFILE]]
    BY <1>1, <1>2 DEF IInv, TypeOK
  <2> QED
    BY <1>1, <2>1, <2>2, Zenon DEF IInv, TypeOK, Entry
<1>5. FileInv'
  <2>1. ASSUME NEW g \in File, g # f
        PROVE  /\ file'[g].ref = Cardinality(Refs(g)')
               /\ file'[g].ref = 0 => file'[g] = FreeFile
               /\ file'[g].ref > 0 => file'[g].type \in Ends /\ file'[g].pipe \in used'
    <3>1. Refs(g)' = Refs(g)
      BY <1>3, <2>1, Zenon DEF Refs
    <3> QED
      BY <1>1, <1>3, <2>1, <3>1 DEF IInv, FileInv
  <2>2. Refs(f)' = Refs(f) \cup {<<p, n>>} /\ <<p, n>> \notin Refs(f)
    <3>1. Refs(f)' = {d \in Proc \X (1 .. NOFILE) : d[2] <= ofile'[d[1]][f]}
      BY Zenon DEF Refs
    <3>2. \A d \in Proc \X (1 .. NOFILE) :
              d[2] <= ofile'[d[1]][f] <=> d[2] <= ofile[d[1]][f] \/ d = <<p, n>>
      BY <1>2, <1>3 DEF n
    <3>3. <<p, n>> \in Proc \X (1 .. NOFILE) /\ ~(n <= ofile[p][f])
      BY <1>2 DEF n
    <3> QED
      BY <3>1, <3>2, <3>3, Zenon DEF Refs
  <2>3. Cardinality(Refs(f)') = Cardinality(Refs(f)) + 1
    BY <2>2, RefsFacts, FS_AddElement, Zenon DEF IInv
  <2>4. /\ file'[f].ref = Cardinality(Refs(f)') /\ file'[f].ref > 0
        /\ file'[f].type \in Ends /\ file'[f].pipe \in used'
    BY <1>1, <1>3, <2>3, RefsFacts, Referenced DEF IInv
  <2> QED
    BY <2>1, <2>4 DEF FileInv
<1>6. EndInv' /\ OpenInv' /\ RingInv'
  <2>1. \A g \in File, i \in Pipe, e \in Ends : IsEnd(g, i, e)' <=> IsEnd(g, i, e)
    BY <1>3, Zenon DEF IsEnd
  <2>2. \A q \in Proc, i \in Pipe, e \in Ends : Closes(q, i, e)' <=> Closes(q, i, e)
    BY <1>1, Zenon DEF Closes, Closing
  <2> QED
    BY <1>1, <2>1, <2>2, SameEnds, Zenon DEF IInv, TypeOK
<1>7. CallInv'
  <2>1. \A q \in Proc : \A i, e : Holds(q, i, e) => Holds(q, i, e)'
    BY <1>2, <1>3 DEF Holds, n
  <2>2. \A q \in Proc, g \in File : ofile[q][g] = 0 => ofile'[q][g] = 0
    BY <1>1, <1>3
  <2> QED
    BY <1>1, <2>1, <2>2, Zenon DEF IInv, CallInv, Closing
<1>8. SleepersJustified'
  BY <1>1, SameSleepers, Zenon DEF IInv
<1> QED
  BY <1>4, <1>5, <1>6, <1>7, <1>8, Zenon DEF IInv

-----------------------------------------------------------------------------
\* The initial state.
LEMMA InitIInv == Init => IInv
<1> SUFFICES ASSUME Init PROVE IInv
  BY Zenon
<1>1. TypeOK
  BY Fresh, Sizes DEF Init, TypeOK
<1>2. FileInv
  <2> SUFFICES ASSUME NEW f \in File
               PROVE  file[f].ref = Cardinality(Refs(f)) /\ file[f] = FreeFile
    BY Fresh DEF FileInv
  <2>1. Refs(f) = {}
    BY DEF Init, Refs
  <2> QED
    BY <2>1, FS_EmptySet, Fresh, Zenon DEF Init
<1>3. \A f \in File : file[f].type = "NONE"
  BY Fresh, Zenon DEF Init
<1>4. \A p \in Proc : pc[p] \in {"user", "unused"}
  BY Zenon DEF Init
<1>5. EndInv /\ OpenInv /\ SleepersJustified
  BY <1>3, <1>4, Sizes DEF Init, EndInv, OpenInv, IsEnd, Closes, Closing, SleepersJustified
<1>6. CallInv
  BY <1>4, Zenon DEF Init, CallInv, Closing, Place, InRead, InWrite
<1>7. RingInv
  <2> SUFFICES ASSUME NEW i \in Pipe PROVE Count(i) = 0
    BY Sizes DEF RingInv
  <2> QED
    BY Fresh, Zenon DEF Init, Count
<1> QED
  BY <1>1, <1>2, <1>5, <1>6, <1>7, Zenon DEF IInv

\* IInv is kept by every step.
LEMMA StepIInv == IInv /\ [Next]_vars => IInv'
<1> SUFFICES ASSUME IInv, [Next]_vars PROVE IInv'
  BY Zenon
<1>1. CASE UNCHANGED vars
  BY <1>1, StutterStep, Zenon
<1>2. ASSUME NEW p \in Proc, sys_pipe(p) \/ pipeclose(p) \/ exit(p) \/ kill(p)
      PROVE  IInv'
  BY <1>2, PipeStep, PipeCloseStep, ExitStep, KillStep, Zenon
<1>3. ASSUME NEW p \in Proc, exitClose(p) PROVE IInv'
  <2>1. CASE \E f \in File : fileclose(p, f, "exit")
    BY <1>3, <2>1, CloseStep, Zenon DEF exitClose
  <2> QED
    BY <1>3, <2>1, ExitStep, Zenon DEF exitClose
<1>4. ASSUME NEW p \in Proc, pipewrite(p) \/ piperead(p) PROVE IInv'
  BY <1>4, WriteStep, ReadStep, Zenon
<1>5. ASSUME NEW p \in Proc, NEW c \in Proc, fork(p, c) PROVE IInv'
  BY <1>5, ForkStep, Zenon
<1>6. ASSUME NEW p \in Proc, NEW f \in File,
             sys_dup(p, f) \/ sys_close(p, f) \/ (\E m \in Messages : sys_write(p, f, m))
               \/ (\E n \in ReadSizes : sys_read(p, f, n))
      PROVE  IInv'
  <2>1. CASE sys_close(p, f)
    BY <2>1, CloseStep, Zenon DEF sys_close, User
  <2> QED
    BY <1>6, <2>1, DupStep, StartStep, Zenon
<1> QED
  BY <1>1, <1>2, <1>3, <1>4, <1>5, <1>6, Zenon DEF Next

\* The invariant of files and pipes.
THEOREM Invariance == Spec => []IInv
<1> QED
  BY InitIInv, StepIInv, PTL DEF Spec

\* No process is ever inside a pipe that was freed, or in one whose end it uses has been
\* closed under it, however many processes share, duplicate and close descriptors.
THEOREM NoneFreed == Spec => []NoUseAfterFree
<1>1. ASSUME IInv PROVE NoUseAfterFree
  <2>1. \A f \in File : file[f].type # "NONE" => file[f].pipe \in used
    BY <1>1, Fresh DEF IInv, TypeOK, FileInv
  <2>2. \A p \in Proc : pc[p] \in InRead => at[p] \in used /\ pipe[at[p]].readopen
    <3> SUFFICES ASSUME NEW p \in Proc, pc[p] \in InRead
                 PROVE  at[p] \in used /\ pipe[at[p]].readopen
      BY Zenon
    <3>1. at[p] \in used /\ \E f \in File : IsEnd(f, at[p], "read")
      BY <1>1, InUse, Zenon
    <3>2. Open(at[p], "read")
      BY <1>1, <3>1, Sizes, Zenon DEF IInv, OpenInv
    <3> QED
      BY <3>1, <3>2, Zenon DEF Open
  <2>3. \A p \in Proc : pc[p] \in InWrite => at[p] \in used /\ pipe[at[p]].writeopen
    <3> SUFFICES ASSUME NEW p \in Proc, pc[p] \in InWrite
                 PROVE  at[p] \in used /\ pipe[at[p]].writeopen
      BY Zenon
    <3>1. at[p] \in used /\ \E f \in File : IsEnd(f, at[p], "write")
      BY <1>1, InUse, Zenon
    <3>2. Open(at[p], "write")
      BY <1>1, <3>1, Sizes, Zenon DEF IInv, OpenInv
    <3> QED
      BY <3>1, <3>2, Zenon DEF Open
  <2>4. \A p \in Proc : pc[p] \in {"pipeclose", "pipeclose_exit"} => at[p] \in used
    BY <1>1, Zenon DEF IInv, CallInv, Closing
  <2> QED
    BY <1>1, <2>1, <2>2, <2>3, <2>4, Zenon DEF NoUseAfterFree, IInv
<1> QED
  BY <1>1, Invariance, PTL

\* readopen and writeopen say exactly whether a descriptor, or a close on its way, has
\* that end: end of file and the error of a write come neither too early nor never.
THEOREM EndsTold == Spec => []EndsOpen
<1>1. ASSUME IInv PROVE EndsOpen
  <2> SUFFICES ASSUME NEW i \in used, NEW e \in Ends
               PROVE  Open(i, e) <=> \E p \in Proc : Holds(p, i, e) \/ Closes(p, i, e)
    BY DEF EndsOpen, Open, Closes, Closing
  <2>1. Open(i, e) <=> \/ \E f \in File : IsEnd(f, i, e)
                       \/ \E p \in Proc : Closes(p, i, e)
    BY <1>1, Zenon DEF IInv, OpenInv
  <2>2. ASSUME NEW f \in File, IsEnd(f, i, e) PROVE \E p \in Proc : Holds(p, i, e)
    <3>1. file[f].ref # 0
      BY <1>1, <2>2, Fresh, Sizes, Zenon DEF IInv, FileInv, IsEnd
    <3>2. Refs(f) # {}
      BY <1>1, <3>1, RefsFacts, FS_EmptySet, Zenon DEF IInv
    <3>3. PICK p \in Proc : \E k \in 1 .. NOFILE : k <= ofile[p][f]
      BY <3>2, Zenon DEF Refs
    <3>4. ofile[p][f] > 0
      BY <1>1, <3>3 DEF IInv, TypeOK
    <3> QED
      BY <2>2, <3>4, Zenon DEF Holds, IsEnd
  <2>3. \A p \in Proc : Holds(p, i, e) => \E f \in File : IsEnd(f, i, e)
    BY Zenon DEF Holds, IsEnd
  <2> QED
    BY <2>1, <2>2, <2>3, Zenon
<1> QED
  BY <1>1, Invariance, PTL

\* No wakeup is lost but the one of a killed writer.
THEOREM SleepersKnown == Spec => []SleepersJustified
<1>1. IInv => SleepersJustified
  BY Zenon DEF IInv
<1> QED
  BY <1>1, Invariance, PTL

LEMMA InitRefines == Init => Queue!Init
<1> SUFFICES ASSUME Init PROVE Queue!Init
  BY Zenon
<1>1. used = {} /\ left = [p \in Proc |-> <<>>]
  BY Zenon DEF Init
<1>2. Contents = [i \in Pipe |-> <<>>]
  BY <1>1, Zenon DEF Contents
<1>3. OpenEnds = [i \in Pipe |-> {}]
  BY <1>1, Zenon DEF OpenEnds
<1> QED
  BY <1>1, <1>2, <1>3, Zenon DEF Queue!Init

\* Every step of the files and pipes is a step of the queues, or changes none of them.
LEMMA StepRefines == IInv /\ IInv' /\ [Next]_vars => [Queue!Next]_<<Contents, OpenEnds, left>>
<1> SUFFICES ASSUME IInv, IInv', [Next]_vars PROVE [Queue!Next]_<<Contents, OpenEnds, left>>
  BY Zenon
<1>0. TypeOK /\ TypeOK'
  BY Zenon DEF IInv
<1>1. CASE UNCHANGED vars
  <2>1. pipe' = pipe /\ used' = used /\ left' = left
    BY <1>1, Zenon DEF vars, call
  <2>2. Contents' = Contents
    BY <2>1, Zenon DEF Contents, Oldest, Count
  <2>3. OpenEnds' = OpenEnds
    BY <2>1, Zenon DEF OpenEnds
  <2> QED
    BY <2>1, <2>2, <2>3, Zenon
<1>2. ASSUME NEW p \in Proc,
             sys_pipe(p) \/ pipeclose(p) \/ pipewrite(p) \/ piperead(p)
      PROVE  Queue!Next
  BY <1>0, <1>2, NewRefines, CloseRefines, WriteRefines, ReadRefines, Zenon
<1>3. ASSUME NEW p \in Proc, exit(p) \/ exitClose(p) \/ kill(p) PROVE Queue!Next
  <2>1. UNCHANGED <<pipe, used, left>>
    BY <1>3, Zenon DEF exit, exitClose, fileclose, kill, call
  <2> QED
    BY <2>1, QuietRefines, Zenon
<1>4. ASSUME NEW p \in Proc, NEW c \in Proc, fork(p, c) PROVE Queue!Next
  <2>1. UNCHANGED <<pipe, used, left>>
    BY <1>4, Zenon DEF fork, call
  <2> QED
    BY <2>1, QuietRefines, Zenon
<1>5. ASSUME NEW p \in Proc, NEW f \in File,
             sys_dup(p, f) \/ sys_close(p, f) \/ (\E m \in Messages : sys_write(p, f, m))
               \/ (\E n \in ReadSizes : sys_read(p, f, n))
      PROVE  Queue!Next
  <2>1. UNCHANGED <<pipe, used>> /\ \A q \in Proc \ {p} : left'[q] = left[q]
    BY <1>0, <1>5, Zenon DEF sys_dup, sys_close, fileclose, sys_write, sys_read, call, TypeOK
  <2> QED
    BY <2>1, QuietRefines, Zenon
<1> QED
  BY <1>1, <1>2, <1>3, <1>4, <1>5, Zenon DEF Next

\* A pipe delivers exactly the bytes that were written, once and in order, for any size
\* of the ring, any wrap of its counters and any number of readers and writers.
THEOREM Refinement == Spec => PipesAreQueues
<1>1. Queue!channelVars = <<Contents, OpenEnds, left>>
  BY Zenon DEF Queue!channelVars
<1>2. IInv /\ IInv' /\ [Next]_vars => [Queue!Next]_Queue!channelVars
  BY <1>1, StepRefines, Zenon DEF Queue!channelVars
<1> QED
  BY <1>2, InitRefines, Invariance, PTL DEF Spec, PipesAreQueues, Queue!Spec
=============================================================================
