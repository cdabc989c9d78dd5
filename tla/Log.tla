-------------------------------- MODULE Log --------------------------------
(***************************************************************************)
(* The write-ahead log of the file system, log.c (the same text in every   *)
(* kernel of the repository): begin_op, log_write, end_op, the commit that *)
(* the last end_op runs without log.lock, and the recovery that a reboot   *)
(* runs before the first file system call.  The machine may crash between  *)
(* any two writes of a disk block; a block is one sector and is written    *)
(* whole.                                                                  *)
(*                                                                         *)
(* The buffer cache is what the log relies on of bio.c: a block is read    *)
(* from the disk when it is not cached, a buffer that a process holds or   *)
(* that is B_DIRTY is not recycled, and any other may be at any time.      *)
(***************************************************************************)
EXTENDS Integers, Sequences, FiniteSets, Functions

CONSTANTS Proc, Block, Value,
          Zero,         \* the content of a zeroed block
          MAXOPBLOCKS,  \* blocks begin_op reserves for an operation
          LOGSIZE,      \* entries of a log header
          nlog,         \* blocks of the on-disk log, its header included
          OpBlocks,     \* blocks an operation really writes, at most
          NONE          \* no block, and the content of one that is not cached

\* MAXOPBLOCKS = 10, LOGSIZE = nlog = 30 (param.h, mkfs.c).  The log has nlog - 1
\* data blocks, one less than the operations begin_op admits have reserved, so it
\* is enough only because no operation writes all it reserves: filewrite, the
\* largest, writes 7 blocks.
ASSUME LogConstants ==
    /\ IsFiniteSet(Proc)
    /\ {MAXOPBLOCKS, LOGSIZE, nlog, OpBlocks} \subseteq Nat \ {0}
    /\ OpBlocks < MAXOPBLOCKS
    /\ 2 * MAXOPBLOCKS <= LOGSIZE
    /\ nlog = LOGSIZE
    /\ Zero \in Value
    /\ NONE \notin Block \cup Value

VARIABLES disk,         \* the home locations of the blocks
          logarea,      \* the data blocks of the on-disk log
          head,         \* the on-disk log header: its block numbers
          boot,         \* how far recover_from_log is, "up" when it is done
          cache,        \* cache[b]: content of b's buffer, or NONE
          dirty,        \* the blocks whose buffer is B_DIRTY
          lh,           \* log.lh, its block numbers
          outstanding,
          committing,
          tail,         \* loop variable of write_log and install_trans
          pc,
          holds,        \* holds[p]: the block whose buffer p has locked, or NONE
          wrote,        \* wrote[p]: the blocks of p's operation
          panicked

stable == <<disk, logarea, head>>
cached == <<cache, dirty>>
logged == <<lh, outstanding, committing>>
calls == <<holds, wrote, panicked>>
vars == <<stable, boot, cached, logged, tail, pc, calls>>

\* Memory after a reset.
Reset ==
    /\ boot' = "read_head"
    /\ cache' = [b \in Block |-> NONE]
    /\ dirty' = {}
    /\ lh' = <<>>
    /\ outstanding' = 0
    /\ committing' = FALSE
    /\ tail' = 0
    /\ pc' = [p \in Proc |-> "idle"]
    /\ holds' = [p \in Proc |-> NONE]
    /\ wrote' = [p \in Proc |-> {}]
    /\ panicked' = FALSE

\* mkfs leaves zeroed blocks and an empty log.
Init ==
    /\ disk = [b \in Block |-> Zero]
    /\ logarea = [i \in 1 .. nlog - 1 |-> Zero]
    /\ head = <<>>
    /\ boot = "read_head"
    /\ cache = [b \in Block |-> NONE]
    /\ dirty = {}
    /\ lh = <<>>
    /\ outstanding = 0
    /\ committing = FALSE
    /\ tail = 0
    /\ pc = [p \in Proc |-> "idle"]
    /\ holds = [p \in Proc |-> NONE]
    /\ wrote = [p \in Proc |-> {}]
    /\ panicked = FALSE

-----------------------------------------------------------------------------
\* bread: the cached block, else the one on disk.
Content(b) == IF cache[b] = NONE THEN disk[b] ELSE cache[b]

Held == {holds[p] : p \in Proc}

\* wakeup(&log)
wakeNobody(f) == f                      \* mutant of wakeup
wakeup(f) == [p \in Proc |-> IF f[p] = "asleep" THEN "retry" ELSE f[p]]

\* A read of a block brings it into the cache; a buffer nobody uses is recycled.
bread(b) ==
    /\ boot = "up"
    /\ cache[b] = NONE
    /\ cache' = [cache EXCEPT ![b] = disk[b]]
    /\ UNCHANGED <<stable, boot, dirty, logged, tail, pc, calls>>

recycle(b) ==
    /\ cache[b] # NONE
    /\ b \notin dirty \cup Held
    /\ cache' = [cache EXCEPT ![b] = NONE]
    /\ UNCHANGED <<stable, boot, dirty, logged, tail, pc, calls>>

-----------------------------------------------------------------------------
\* One turn of the loop of begin_op, under log.lock.
NoReservation == Len(lh) >= LOGSIZE     \* mutant of LogFull

LogFull == Len(lh) + (outstanding + 1) * MAXOPBLOCKS > LOGSIZE

MayBegin == ~committing /\ ~LogFull

begin_op(p) ==
    /\ boot = "up"
    /\ pc[p] \in {"idle", "retry"}
    /\ \/ /\ ~MayBegin
          /\ pc' = [pc EXCEPT ![p] = "asleep"]
          /\ UNCHANGED outstanding
       \/ /\ MayBegin
          /\ pc' = [pc EXCEPT ![p] = "op"]
          /\ outstanding' = outstanding + 1
    /\ UNCHANGED <<stable, boot, cached, lh, committing, tail, calls>>

\* The operation locks a buffer, changes it and calls log_write, which looks at
\* log.lh.n before it takes log.lock.
modify(p, b, v) ==
    /\ pc[p] = "op"
    /\ b \notin Held
    /\ Cardinality(wrote[p] \cup {b}) <= OpBlocks
    /\ cache' = [cache EXCEPT ![b] = v]
    /\ holds' = [holds EXCEPT ![p] = b]
    /\ pc' = [pc EXCEPT ![p] = "log_write"]
    /\ panicked' = (panicked \/ Len(lh) >= LOGSIZE \/ Len(lh) >= nlog - 1)
    /\ UNCHANGED <<stable, boot, dirty, logged, tail, wrote>>

\* The rest of log_write, under log.lock, and brelse.
Absorbed(b) == IF b \in Range(lh) THEN lh ELSE Append(lh, b)

Unpinned(b) == dirty                    \* mutant of Pinned
Pinned(b) == dirty \cup {b}

log_write(p) ==
    /\ pc[p] = "log_write"
    /\ LET b == holds[p] IN
         /\ lh' = Absorbed(b)
         /\ dirty' = Pinned(b)
         /\ wrote' = [wrote EXCEPT ![p] = @ \cup {b}]
    /\ holds' = [holds EXCEPT ![p] = NONE]
    /\ pc' = [pc EXCEPT ![p] = "op"]
    /\ UNCHANGED <<stable, boot, cache, outstanding, committing, tail, panicked>>

\* end_op up to the release of log.lock; the last operation goes on to commit.
end_op(p) ==
    /\ pc[p] = "op"
    /\ outstanding' = outstanding - 1
    /\ panicked' = (panicked \/ committing)
    /\ wrote' = [wrote EXCEPT ![p] = {}]
    /\ \/ /\ outstanding' = 0
          /\ committing' = TRUE
          /\ tail' = 0
          /\ pc' = [pc EXCEPT ![p] = IF lh = <<>> THEN "committed" ELSE "write_log"]
       \/ /\ outstanding' > 0
          /\ pc' = wakeup([pc EXCEPT ![p] = "idle"])
          /\ UNCHANGED <<committing, tail>>
    /\ UNCHANGED <<stable, boot, cached, lh, holds>>

-----------------------------------------------------------------------------
\* commit(), one disk write a step.
write_log(p) ==
    /\ pc[p] = "write_log"
    /\ IF tail < Len(lh)
       THEN /\ logarea' = [logarea EXCEPT ![tail + 1] = Content(lh[tail + 1])]
            /\ tail' = tail + 1
            /\ UNCHANGED pc
       ELSE /\ pc' = [pc EXCEPT ![p] = "write_head"]
            /\ tail' = 0
            /\ UNCHANGED logarea
    /\ UNCHANGED <<disk, head, boot, cached, logged, calls>>

write_head(p) ==
    /\ pc[p] = "write_head"
    /\ head' = lh
    /\ pc' = [pc EXCEPT ![p] = "install_trans"]
    /\ UNCHANGED <<disk, logarea, boot, cached, logged, tail, calls>>

\* One turn of the loop of install_trans: bwrite clears B_DIRTY.
InstallOne ==
    LET b == lh[tail + 1] IN
    /\ disk' = [disk EXCEPT ![b] = logarea[tail + 1]]
    /\ cache' = [cache EXCEPT ![b] = logarea[tail + 1]]
    /\ dirty' = dirty \ {b}
    /\ tail' = tail + 1

install_trans(p) ==
    /\ pc[p] = "install_trans"
    /\ \/ tail < Len(lh) /\ InstallOne /\ UNCHANGED pc
       \/ /\ tail >= Len(lh)
          /\ pc' = [pc EXCEPT ![p] = "erase"]
          /\ UNCHANGED <<disk, cached, tail>>
    /\ UNCHANGED <<logarea, head, boot, logged, calls>>

\* log.lh.n = 0; write_head()
Unerased == head                        \* mutant of Erased
Erased == <<>>

erase(p) ==
    /\ pc[p] = "erase"
    /\ lh' = <<>>
    /\ head' = Erased
    /\ pc' = [pc EXCEPT ![p] = "committed"]
    /\ UNCHANGED <<disk, logarea, boot, cached, outstanding, committing, tail, calls>>

\* The end of end_op, with log.lock again.
end_commit(p) ==
    /\ pc[p] = "committed"
    /\ committing' = FALSE
    /\ pc' = wakeup([pc EXCEPT ![p] = "idle"])
    /\ UNCHANGED <<stable, boot, cached, lh, outstanding, tail, calls>>

-----------------------------------------------------------------------------
\* recover_from_log, run by the first process before any file system call.
read_head ==
    /\ boot = "read_head"
    /\ lh' = head
    /\ tail' = 0
    /\ boot' = "install"
    /\ UNCHANGED <<stable, cached, outstanding, committing, pc, calls>>

recover ==
    /\ boot = "install"
    /\ \/ tail < Len(lh) /\ InstallOne /\ UNCHANGED <<boot, lh, head>>
       \/ /\ tail >= Len(lh)
          /\ lh' = <<>>
          /\ head' = <<>>
          /\ boot' = "up"
          /\ UNCHANGED <<disk, cached, tail>>
    /\ UNCHANGED <<logarea, outstanding, committing, pc, calls>>

crash == Reset /\ UNCHANGED stable

-----------------------------------------------------------------------------
commit(p) ==
    write_log(p) \/ write_head(p) \/ install_trans(p) \/ erase(p) \/ end_commit(p)

Next ==
    \/ \E p \in Proc : \/ begin_op(p) \/ log_write(p) \/ end_op(p) \/ commit(p)
                       \/ \E b \in Block, v \in Value : modify(p, b, v)
    \/ \E b \in Block : bread(b) \/ recycle(b)
    \/ read_head \/ recover \/ crash

Spec == Init /\ [][Next]_vars

-----------------------------------------------------------------------------
Running == {"op", "log_write"}
Committing == {"write_log", "write_head", "install_trans", "erase", "committed"}

\* The variables are of their types.
TypeOK ==
    /\ disk \in [Block -> Value]
    /\ logarea \in [1 .. nlog - 1 -> Value]
    /\ head \in Seq(Block)
    /\ boot \in {"read_head", "install", "up"}
    /\ cache \in [Block -> Value \cup {NONE}]
    /\ dirty \subseteq Block
    /\ lh \in Seq(Block)
    /\ outstanding \in Nat
    /\ committing \in BOOLEAN
    /\ tail \in 0 .. LOGSIZE
    /\ pc \in [Proc -> {"idle", "retry", "asleep"} \cup Running \cup Committing]
    /\ holds \in [Proc -> Block \cup {NONE}]
    /\ wrote \in [Proc -> SUBSET Block]
    /\ panicked \in BOOLEAN

\* The reservation of begin_op is enough: whatever operations run together, the
\* blocks they log fit the data blocks of the on-disk log, each at most once, even
\* though log_write tests the space before it takes log.lock; and neither "too big a
\* transaction" (log_write) nor "log.committing" (end_op) panics.
LogFits ==
    /\ TypeOK
    /\ IsInjective(lh) /\ Len(lh) <= nlog - 1
    /\ ~panicked

\* When no operation runs and no commit does, every write of every finished
\* operation is at its home location and a crash would recover nothing.
QuiescentDurable ==
    (boot = "up" /\ outstanding = 0 /\ ~committing) =>
        /\ head = <<>> /\ lh = <<>> /\ dirty = {}
        /\ \A b \in Block : Content(b) = disk[b]

\* A process asleep in begin_op has someone to wake it: an operation that will end
\* or a commit that will finish.
SleepersHaveWaker ==
    (\E p \in Proc : pc[p] = "asleep") => committing \/ outstanding > 0

\* The blocks that recovery would leave after a crash now.
Installed(n) ==
    [b \in Block |-> IF \E i \in 1 .. n : head[i] = b
                     THEN logarea[CHOOSE i \in 1 .. n : head[i] = b] ELSE disk[b]]
Recovered == Installed(Len(head))

\* log.c implements a disk whose content changes by whole operations: what a crash
\* leaves is, at every step of commit and of recovery, either all the writes of the
\* group of operations or none of them.
Atomic == INSTANCE AtomicDisk WITH
    durable <- Recovered,
    current <- IF boot = "up" THEN [b \in Block |-> Content(b)] ELSE Recovered,
    open <- {p \in Proc : pc[p] \in Running}
AtomicOperations == Atomic!Spec
=============================================================================
