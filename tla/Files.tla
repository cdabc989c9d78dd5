------------------------------- MODULE Files -------------------------------
(***************************************************************************)
(* Open files and pipes: file.c, pipe.c, the descriptor calls of sysfile.c *)
(* and what fork, exit and kill of proc.c do to descriptors and sleepers   *)
(* (p1B/xv6-public; file.c and pipe.c are the same in every kernel of the  *)
(* repository).  Files on disk are in Inodes: here every struct file is an *)
(* end of a pipe, or not yet anything.                                     *)
(*                                                                         *)
(* What a call does with ftable.lock or p->lock held is one step.  nread   *)
(* and nwrite are unsigned and wrap around.  Which number a descriptor has *)
(* does not matter to anything here: ofile[p][f] is how many of p's        *)
(* descriptors refer to the struct file f.                                 *)
(***************************************************************************)
EXTENDS Integers, Sequences, FiniteSets

CONSTANTS Proc,      \* slots of the process table
          NFILE, NOFILE, PIPESIZE,
          Pipe,      \* the pages kalloc has for pipes
          Byte,
          Messages,  \* what a write may be asked to write
          ReadSizes, \* the n of a read
          UWRAP,     \* 2^32, the range of a uint
          NoPipe

\* PIPESIZE divides the range of nread and nwrite: 512 and 2^32.
ASSUME FileConstants ==
    /\ {NFILE, NOFILE, PIPESIZE, UWRAP} \subseteq Nat \ {0}
    /\ UWRAP % PIPESIZE = 0 /\ UWRAP > PIPESIZE
    /\ IsFiniteSet(Proc)
    /\ NoPipe \notin Pipe
    /\ Byte # {}
    /\ Messages \subseteq Seq(Byte)
    /\ ReadSizes \subseteq Nat \ {0}

VARIABLES file,      \* ftable.file: ref, and which end of which pipe it is
          ofile,     \* ofile[p][f]: the descriptors of p that refer to f
          pipe,      \* pipe[i]: the struct pipe in page i
          used,      \* the pages of Pipe that are allocated
          pc, killed,
          at,        \* at[p]: the pipe of p's call, or of its pipeclose
          end,       \* end[p]: the end that p's pipeclose closes
          left,      \* left[p]: bytes p's write has not yet written
          want,      \* want[p]: the n of p's read
          unsung     \* history: pipes that a killed writer filled, waking no reader

vars == <<file, ofile, pipe, used, pc, killed, at, end, left, want, unsung>>
call == <<at, end, left, want>>

File == 1 .. NFILE
Ends == {"read", "write"}
FreeFile == [ref |-> 0, type |-> "NONE", pipe |-> NoPipe]
NewPipe == [nread |-> 0, nwrite |-> 0, readopen |-> TRUE, writeopen |-> TRUE,
            data |-> [k \in 0 .. PIPESIZE - 1 |-> CHOOSE c \in Byte : TRUE]]

Init ==
    /\ file = [f \in File |-> FreeFile]
    /\ ofile = [p \in Proc |-> [f \in File |-> 0]]
    /\ pipe = [i \in Pipe |-> NewPipe]
    /\ used = {}
    /\ \E first \in Proc : pc = [p \in Proc |-> IF p = first THEN "user" ELSE "unused"]
    /\ killed = [p \in Proc |-> FALSE]
    /\ at = [p \in Proc |-> NoPipe]
    /\ end = [p \in Proc |-> "read"]
    /\ left = [p \in Proc |-> <<>>]
    /\ want = [p \in Proc |-> 0]
    /\ unsung = {}

InRead == {"piperead", "asleep_read"}
InWrite == {"pipewrite", "asleep_write"}

Goto(p, l) == pc' = [pc EXCEPT ![p] = l] /\ UNCHANGED unsung

\* wakeup(&pi->nread) or wakeup(&pi->nwrite), while the caller moves to l.
wakeReadersOnly(i, asleep, p, l) ==     \* mutant of wakeup
    /\ pc' = [q \in Proc |->
                IF q = p THEN l
                ELSE IF at[q] = i /\ pc[q] = asleep /\ asleep = "asleep_read"
                     THEN "piperead" ELSE pc[q]]
    /\ unsung' = IF asleep = "asleep_read" THEN unsung \ {i} ELSE unsung

wakeup(i, asleep, p, l) ==
    /\ pc' = [q \in Proc |->
                IF q = p THEN l
                ELSE IF at[q] = i /\ pc[q] = asleep
                     THEN IF asleep = "asleep_read" THEN "piperead" ELSE "pipewrite"
                     ELSE pc[q]]
    /\ unsung' = IF asleep = "asleep_read" THEN unsung \ {i} ELSE unsung

\* A process in user mode that is killed exits before it makes another call.
User(p) == pc[p] = "user" /\ ~killed[p]

-----------------------------------------------------------------------------
\* filealloc: f is the first of the entries without references.
FreeFiles == {f \in File : file[f].ref = 0}
filealloc(f, free) == f \in free /\ \A g \in free : f <= g

\* p's open descriptors, and how many more it may have.
Descriptors(p) == {d \in File \X (1 .. NOFILE) : d[2] <= ofile[p][d[1]]}
FreeFds(p) == NOFILE - Cardinality(Descriptors(p))

\* sys_pipe and pipealloc.  Without two entries, a page and two descriptors the
\* call undoes what it did, which nobody else has seen, and fails.
sys_pipe(p) ==
    LET i == CHOOSE i \in Pipe \ used : TRUE IN
    /\ User(p)
    /\ used # Pipe /\ FreeFds(p) >= 2
    /\ used' = used \cup {i}
    /\ pipe' = [pipe EXCEPT ![i] = NewPipe]
    /\ \E rf, wf \in File :
          /\ filealloc(rf, FreeFiles) /\ filealloc(wf, FreeFiles \ {rf})
          /\ file' = [file EXCEPT ![rf] = [ref |-> 1, type |-> "read", pipe |-> i],
                                  ![wf] = [ref |-> 1, type |-> "write", pipe |-> i]]
          /\ ofile' = [ofile EXCEPT ![p][rf] = 1, ![p][wf] = 1]
    /\ UNCHANGED <<pc, killed, call, unsung>>

filedup(f) == [file EXCEPT ![f].ref = @ + 1]

\* sys_dup: the descriptor first, then the reference.
sys_dup(p, f) ==
    /\ User(p)
    /\ ofile[p][f] > 0
    /\ FreeFds(p) > 0
    /\ ofile' = [ofile EXCEPT ![p][f] = @ + 1]
    /\ file' = filedup(f)
    /\ UNCHANGED <<pipe, used, pc, killed, call, unsung>>

\* fork: the child has every descriptor of its parent.
forkedFiles(p) ==
    [f \in File |-> [file[f] EXCEPT !.ref = @ + ofile[p][f]]]

fork(p, c) ==
    /\ User(p)
    /\ pc[c] = "unused"
    /\ ofile' = [ofile EXCEPT ![c] = ofile[p]]
    /\ file' = forkedFiles(p)
    /\ Goto(c, "user")
    /\ UNCHANGED <<pipe, used, killed, call>>

\* fileclose, up to the release of ftable.lock; the last reference goes on to
\* pipeclose, with what the entry held.
fileclose(p, f, l) ==
    /\ ofile[p][f] > 0
    /\ ofile' = [ofile EXCEPT ![p][f] = @ - 1]
    /\ \/ /\ file[f].ref > 1
          /\ file' = [file EXCEPT ![f].ref = @ - 1]
          /\ Goto(p, l)
          /\ UNCHANGED <<at, end>>
       \/ /\ file[f].ref = 1
          /\ file' = [file EXCEPT ![f] = FreeFile]
          /\ at' = [at EXCEPT ![p] = file[f].pipe]
          /\ end' = [end EXCEPT ![p] = file[f].type]
          /\ Goto(p, IF l = "user" THEN "pipeclose" ELSE "pipeclose_exit")
    /\ UNCHANGED <<pipe, used, killed, left, want>>

sys_close(p, f) ==
    /\ User(p)
    /\ fileclose(p, f, "user")

\* exit, on its own or because the process was killed: every descriptor is closed,
\* and the slot is free when wait has taken the zombie.  Nothing looks at killed
\* again before allocproc clears it.
exit(p) ==
    /\ pc[p] = "user"
    /\ Goto(p, "exit")
    /\ killed' = [killed EXCEPT ![p] = FALSE]
    /\ UNCHANGED <<file, ofile, pipe, used, call>>

exitClose(p) ==
    /\ pc[p] = "exit"
    /\ \/ \E f \in File : fileclose(p, f, "exit")
       \/ /\ \A f \in File : ofile[p][f] = 0
          /\ Goto(p, "unused")
          /\ UNCHANGED <<file, ofile, pipe, used, killed, call>>

Reclosed(i, e) == [pipe[i] EXCEPT !.readopen = @ /\ e # "read"]      \* mutant of Closed
Closed(i, e) == [pipe[i] EXCEPT !.readopen = @ /\ e # "read",
                                !.writeopen = @ /\ e # "write"]

HalfUnused(pi) == ~pi.readopen          \* mutant of Unused
Unused(pi) == ~pi.readopen /\ ~pi.writeopen

pipeclose(p) ==
    LET i == at[p]
        closed == Closed(i, end[p])
    IN
    /\ pc[p] \in {"pipeclose", "pipeclose_exit"}
    /\ wakeup(i, IF end[p] = "write" THEN "asleep_read" ELSE "asleep_write", p,
              IF pc[p] = "pipeclose" THEN "user" ELSE "exit")
    /\ IF Unused(closed)
       THEN pipe' = [pipe EXCEPT ![i] = NewPipe] /\ used' = used \ {i}
       ELSE pipe' = [pipe EXCEPT ![i] = closed] /\ UNCHANGED used
    /\ at' = [at EXCEPT ![p] = NoPipe]
    /\ end' = [end EXCEPT ![p] = "read"]
    /\ UNCHANGED <<file, ofile, killed, left, want>>

-----------------------------------------------------------------------------
Count(i) == (pipe[i].nwrite - pipe[i].nread) % UWRAP
Full(i) == pipe[i].nwrite = (pipe[i].nread + PIPESIZE) % UWRAP
Empty(i) == pipe[i].nread = pipe[i].nwrite
Lesser(a, b) == IF a <= b THEN a ELSE b

\* sys_write and filewrite: a descriptor that is not open or not writable fails and
\* changes nothing but the count of writes.
sys_write(p, f, m) ==
    /\ User(p)
    /\ ofile[p][f] > 0 /\ file[f].type = "write"
    /\ at' = [at EXCEPT ![p] = file[f].pipe]
    /\ left' = [left EXCEPT ![p] = m]
    /\ Goto(p, "pipewrite")
    /\ UNCHANGED <<file, ofile, pipe, used, killed, end, want>>

\* The bytes s at nwrite and up, and nwrite behind them.
Put(i, s) ==
    [pipe[i] EXCEPT !.nwrite = (@ + Len(s)) % UWRAP,
                    !.data = [k \in 0 .. PIPESIZE - 1 |->
                        LET j == 1 + ((k - pipe[i].nwrite) % PIPESIZE)
                        IN IF j <= Len(s) THEN s[j] ELSE @[k]]]

OneTooMany(i) == PIPESIZE + 1 - Count(i)    \* mutant of Room
Room(i) == PIPESIZE - Count(i)

\* pipewrite, from p->lock to the next release of it or the decision to sleep.
pipewrite(p) ==
    LET i == at[p]
        n == Lesser(Room(i), Len(left[p]))
        rest == SubSeq(left[p], n + 1, Len(left[p]))
        put == Put(i, SubSeq(left[p], 1, n))
        Return ==
            /\ pipe' = [pipe EXCEPT ![i] = put]
            /\ left' = [left EXCEPT ![p] = <<>>]
            /\ at' = [at EXCEPT ![p] = NoPipe]
    IN
    /\ pc[p] = "pipewrite"
    /\ \/ rest = <<>> /\ Return /\ wakeup(i, "asleep_read", p, "user")
       \/ /\ rest # <<>> /\ (~pipe[i].readopen \/ killed[p])
          /\ Return
          /\ pc' = [pc EXCEPT ![p] = "user"]
          /\ unsung' = unsung \cup {j \in {i} : \E q \in Proc : at[q] = j /\ pc[q] = "asleep_read"}
       \/ /\ rest # <<>> /\ pipe[i].readopen /\ ~killed[p]
          /\ pipe' = [pipe EXCEPT ![i] = put]
          /\ left' = [left EXCEPT ![p] = rest]
          /\ wakeup(i, "asleep_read", p, "asleep_write")
          /\ UNCHANGED at
    /\ UNCHANGED <<file, ofile, used, killed, end, want>>

sys_read(p, f, n) ==
    /\ User(p)
    /\ ofile[p][f] > 0 /\ file[f].type = "read"
    /\ at' = [at EXCEPT ![p] = file[f].pipe]
    /\ want' = [want EXCEPT ![p] = n]
    /\ Goto(p, "piperead")
    /\ UNCHANGED <<file, ofile, pipe, used, killed, end, left>>

\* The n oldest bytes of pipe i.
Oldest(i, n) == [k \in 1 .. n |-> pipe[i].data[(pipe[i].nread + k - 1) % PIPESIZE]]

piperead(p) ==
    LET i == at[p]
        n == Lesser(Count(i), want[p])
        Return ==
            /\ at' = [at EXCEPT ![p] = NoPipe]
            /\ want' = [want EXCEPT ![p] = 0]
    IN
    /\ pc[p] = "piperead"
    /\ \/ /\ Empty(i) /\ pipe[i].writeopen /\ killed[p]
          /\ Return
          /\ Goto(p, "user")
          /\ UNCHANGED pipe
       \/ /\ Empty(i) /\ pipe[i].writeopen /\ ~killed[p]
          /\ Goto(p, "asleep_read")
          /\ UNCHANGED <<pipe, at, want>>
       \/ /\ ~(Empty(i) /\ pipe[i].writeopen)
          /\ pipe' = [pipe EXCEPT ![i].nread = (@ + n) % UWRAP]
          /\ Return
          /\ wakeup(i, "asleep_write", p, "user")
    /\ UNCHANGED <<file, ofile, used, killed, end, left>>

\* kill: a sleeper gets to look at killed, unless it had already looked and kill came
\* before sleep() made it a sleeper (both tests are under different locks).  Outside
\* a read or a write of a pipe, the process exits when it is next in user mode, as it
\* may anyway.
kill(q) ==
    /\ pc[q] \in InRead \cup InWrite
    /\ ~killed[q]
    /\ killed' = [killed EXCEPT ![q] = TRUE]
    /\ \/ pc[q] = "asleep_read" /\ Goto(q, "piperead")
       \/ pc[q] = "asleep_write" /\ Goto(q, "pipewrite")
       \/ UNCHANGED <<pc, unsung>>
    /\ UNCHANGED <<file, ofile, pipe, used, call>>

-----------------------------------------------------------------------------
Next ==
    \E p \in Proc :
        \/ sys_pipe(p) \/ pipeclose(p) \/ exit(p) \/ exitClose(p)
        \/ pipewrite(p) \/ piperead(p) \/ kill(p)
        \/ \E c \in Proc : fork(p, c)
        \/ \E f \in File : \/ sys_dup(p, f) \/ sys_close(p, f)
                           \/ \E m \in Messages : sys_write(p, f, m)
                           \/ \E n \in ReadSizes : sys_read(p, f, n)

Spec == Init /\ [][Next]_vars

-----------------------------------------------------------------------------
\* The variables are of their types.
TypeOK ==
    /\ file \in [File -> [ref : Nat, type : Ends \cup {"NONE"}, pipe : Pipe \cup {NoPipe}]]
    /\ ofile \in [Proc -> [File -> 0 .. NOFILE]]
    /\ pipe \in [Pipe -> [nread : 0 .. UWRAP - 1, nwrite : 0 .. UWRAP - 1,
                          readopen : BOOLEAN, writeopen : BOOLEAN,
                          data : [0 .. PIPESIZE - 1 -> Byte]]]
    /\ used \subseteq Pipe
    /\ killed \in [Proc -> BOOLEAN]
    /\ at \in [Proc -> Pipe \cup {NoPipe}]
    /\ end \in [Proc -> Ends]
    /\ left \in [Proc -> Seq(Byte)]
    /\ want \in [Proc -> Nat]

Holds(p, i, e) == \E f \in File : ofile[p][f] > 0 /\ file[f].pipe = i /\ file[f].type = e

\* However descriptors are duplicated, inherited and closed, a process inside piperead
\* or pipewrite is in a page that is still a pipe, with its
\* own end open, whatever other processes close meanwhile; a pipe that is freed has
\* no descriptor left and no other pipeclose to come.
NoUseAfterFree ==
    /\ TypeOK
    /\ \A p \in Proc : pc[p] \in InRead => at[p] \in used /\ pipe[at[p]].readopen
    /\ \A p \in Proc : pc[p] \in InWrite => at[p] \in used /\ pipe[at[p]].writeopen
    /\ \A f \in File : file[f].type # "NONE" => file[f].pipe \in used
    /\ \A p \in Proc : pc[p] \in {"pipeclose", "pipeclose_exit"} => at[p] \in used

\* An end counts as open exactly while a descriptor, or a close on its way, has it:
\* a reader gets end of file, and a writer an error, neither too early nor never.
EndsOpen ==
    \A i \in used, e \in Ends :
        (IF e = "read" THEN pipe[i].readopen ELSE pipe[i].writeopen) <=>
            \E p \in Proc : \/ Holds(p, i, e)
                            \/ /\ pc[p] \in {"pipeclose", "pipeclose_exit"}
                               /\ at[p] = i /\ end[p] = e

\* No wakeup is lost but one: a process sleeps in pipewrite only while the pipe is
\* full and has a reader, and in piperead only while it is empty and has a writer,
\* or after a writer found itself killed in a pipe it had just filled, for which
\* pipewrite returns without the wakeup of its other exits.
SleepersJustified ==
    \A p \in Proc :
        /\ pc[p] = "asleep_read" =>
              pipe[at[p]].writeopen /\ (Empty(at[p]) \/ at[p] \in unsung)
        /\ pc[p] = "asleep_write" => Full(at[p]) /\ pipe[at[p]].readopen

\* The bytes in each pipe, oldest first.
Contents == [i \in Pipe |-> IF i \in used THEN Oldest(i, Count(i)) ELSE <<>>]

\* The ends that each pipe counts as open.
OpenEnds ==
    [i \in Pipe |-> {e \in Ends : /\ i \in used
                                  /\ IF e = "read" THEN pipe[i].readopen ELSE pipe[i].writeopen}]

\* Each pipe is a queue of bytes, in spite of the ring buffer, of counters that wrap
\* around, and of reads and writes that sleep half way; the bytes stay until both ends
\* have been closed.
Queue == INSTANCE Channels WITH queue <- Contents, ends <- OpenEnds
PipesAreQueues == Queue!Spec

=============================================================================
