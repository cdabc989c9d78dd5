----------------------------- MODULE LogProofs ------------------------------
(***************************************************************************)
(* The write-ahead log for any number of processes and blocks and any log  *)
(* size: it has room for what the operations write, nobody sleeps without  *)
(* a waker, a file system at rest is on disk and, with a crash between any *)
(* two disk writes, the disk changes by whole groups of operations.        *)
(***************************************************************************)
EXTENDS Log, FiniteSetTheorems, TLAPS

Runners == {p \in Proc : pc[p] \in Running}
Committers == {p \in Proc : pc[p] \in Committing}

\* outstanding and committing count what runs.
Counted ==
    /\ outstanding = Cardinality(Runners)
    /\ outstanding = 0 <=> Runners = {}
    /\ committing <=> Committers # {}
    /\ \A p, q \in Committers : p = q
    /\ committing => Runners = {}

\* What an operation has locked and written.
Operations ==
    \A p \in Proc :
        /\ IsFiniteSet(wrote[p]) /\ wrote[p] \subseteq Range(lh)
        /\ Cardinality(wrote[p]) <= OpBlocks
        /\ pc[p] \notin Running => wrote[p] = {}
        /\ IF pc[p] = "log_write"
           THEN holds[p] \in Block /\ Cardinality(wrote[p] \cup {holds[p]}) <= OpBlocks
           ELSE holds[p] = NONE

\* The blocks that are reserved and not written, as a set of numbered tokens:
\* each running operation has one for every block it might still log.
Tokens(R, w) == {x \in R \X (1 .. MAXOPBLOCKS) : x[2] > Cardinality(w[x[1]])}
Spare == Tokens(Runners, wrote)

\* The log has room for every token, and for one block more when a single operation is
\* left: log_write panics one block before the log is full, absorbed block or not.
Reserved ==
    Runners # {} =>
        Len(lh) + Cardinality(Spare) <= IF outstanding = 1 THEN LOGSIZE - 1 ELSE LOGSIZE

\* A buffer that may be recycled is as the block on disk; the others are in the log.
Clean ==
    /\ \A b \in Block \ (dirty \cup Held) : Content(b) = disk[b]
    /\ dirty \subseteq Range(lh)

\* The on-disk header is empty but for the part of the commit that installs.
HeaderInv ==
    /\ IsInjective(head) /\ Len(head) <= nlog - 1
    /\ boot = "up" /\ (\A p \in Proc : pc[p] \notin {"install_trans", "erase"}) => head = <<>>

LoggedUpTo(n) == \A i \in 1 .. n : logarea[i] = Content(lh[i])
InstalledUpTo(n) == \A i \in 1 .. n : disk[lh[i]] = logarea[i]

\* How far the commit is.
CommitInv ==
    \A p \in Proc :
        /\ pc[p] = "write_log" => tail <= Len(lh) /\ LoggedUpTo(tail)
        /\ pc[p] = "write_head" => tail = 0 /\ LoggedUpTo(Len(lh))
        /\ pc[p] = "install_trans" =>
              /\ head = lh /\ tail <= Len(lh) /\ LoggedUpTo(Len(lh)) /\ InstalledUpTo(tail)
              /\ dirty \subseteq {lh[i] : i \in tail + 1 .. Len(lh)}
        /\ pc[p] = "erase" => head = lh /\ InstalledUpTo(Len(lh)) /\ dirty = {}
        /\ pc[p] = "committed" => lh = <<>>

\* The state of the machine until recovery is over.
BootInv ==
    /\ boot # "up" =>
          /\ \A p \in Proc : pc[p] = "idle"
          /\ dirty = {}
    /\ boot = "read_head" => lh = <<>>
    /\ boot = "install" => lh = head /\ tail <= Len(lh) /\ InstalledUpTo(tail)

\* Without an operation and a commit the log is empty.
Quiet == boot = "up" /\ Runners = {} /\ Committers = {} => lh = <<>>

IInv ==
    /\ LogFits /\ SleepersHaveWaker
    /\ Counted /\ Operations /\ Reserved /\ Clean
    /\ HeaderInv /\ CommitInv /\ BootInv /\ Quiet

-----------------------------------------------------------------------------
\* The sizes are numbers.
LEMMA Sizes ==
    /\ MAXOPBLOCKS \in Nat /\ OpBlocks \in Nat /\ LOGSIZE \in Nat /\ nlog = LOGSIZE
    /\ 0 < OpBlocks /\ OpBlocks < MAXOPBLOCKS /\ 2 * MAXOPBLOCKS <= LOGSIZE
BY LogConstants

\* The process that commits is alone: no operation runs and no buffer is locked.
LEMMA CommitAlone ==
    ASSUME IInv, NEW p \in Proc, pc[p] \in Committing
    PROVE  /\ boot = "up" /\ committing /\ outstanding = 0
           /\ Runners = {} /\ Committers = {p}
           /\ \A q \in Proc : pc[q] \notin Running /\ holds[q] = NONE /\ wrote[q] = {}
           /\ \A q \in Proc \ {p} : pc[q] \notin Committing
           /\ Held = {NONE}
           /\ Len(lh) \in Nat /\ tail \in Nat
<1>1. p \in Committers
  BY Zenon DEF Committers
<1>2. Committers = {p} /\ committing /\ Runners = {}
  BY <1>1, Zenon DEF IInv, Counted
<1>3. outstanding = 0
  BY <1>2, Zenon DEF IInv, Counted
<1>4. boot = "up"
  BY Zenon DEF IInv, BootInv, Committing
<1>5. \A q \in Proc : pc[q] \notin Running /\ holds[q] = NONE /\ wrote[q] = {}
  BY <1>2, Zenon DEF Runners, Running, IInv, Operations
<1>6. Held = {NONE}
  BY <1>5, Zenon DEF Held
<1>7. Len(lh) \in Nat /\ tail \in Nat
  BY Sizes DEF IInv, LogFits, TypeOK
<1> QED
  BY <1>2, <1>3, <1>4, <1>5, <1>6, <1>7, Zenon DEF Committers

\* Operations holds when no operation runs.
LEMMA NothingWritten ==
    ASSUME IInv, UNCHANGED wrote,
           \A q \in Proc : pc'[q] \notin Running /\ holds'[q] = NONE /\ wrote'[q] = {}
    PROVE  Operations'
<1>1. \A q \in Proc : IsFiniteSet(wrote'[q]) /\ Cardinality(wrote'[q]) <= OpBlocks
  BY Zenon DEF IInv, Operations
<1> QED
  BY <1>1, Zenon DEF Operations, Running

\* What a step of the commit keeps: the process goes on alone.
LEMMA CommitKeeps ==
    ASSUME IInv, NEW p \in Proc, pc[p] \in Committing, NEW s \in Committing,
           pc' = [pc EXCEPT ![p] = s], UNCHANGED <<boot, outstanding, committing, calls>>
    PROVE  /\ pc'[p] = s /\ Committers' = {p} /\ Runners' = {}
           /\ \A q \in Proc \ {p} : pc'[q] \notin Committing
           /\ SleepersHaveWaker' /\ Counted' /\ Operations' /\ Reserved' /\ BootInv' /\ Quiet'
           /\ pc' \in [Proc -> {"idle", "retry", "asleep"} \cup Running \cup Committing]
<1> USE DEF calls
<1>1. /\ boot = "up" /\ committing /\ outstanding = 0
      /\ \A q \in Proc : pc[q] \notin Running /\ holds[q] = NONE /\ wrote[q] = {}
      /\ \A q \in Proc \ {p} : pc[q] \notin Committing
  BY CommitAlone, Zenon
<1>2. pc \in [Proc -> {"idle", "retry", "asleep"} \cup Running \cup Committing]
  BY Zenon DEF IInv, LogFits, TypeOK
<1>3. /\ pc' \in [Proc -> {"idle", "retry", "asleep"} \cup Running \cup Committing]
      /\ pc'[p] = s /\ \A q \in Proc \ {p} : pc'[q] = pc[q]
  BY <1>2, Zenon
<1>4. \A q \in Proc : pc'[q] \notin Running
  BY <1>1, <1>3, Zenon DEF Running, Committing
<1>5. Runners' = {} /\ Committers' = {p}
  BY <1>1, <1>3, <1>4, Zenon DEF Runners, Committers
<1>6. Counted'
  BY <1>1, <1>5, CommitAlone, Zenon DEF IInv, Counted
<1>7. Operations'
  BY <1>1, <1>4, NothingWritten, Zenon
<1>8. Reserved' /\ Quiet' /\ SleepersHaveWaker' /\ BootInv'
  BY <1>1, <1>5, Zenon DEF Reserved, Quiet, SleepersHaveWaker, BootInv
<1> QED
  BY <1>1, <1>3, <1>5, <1>6, <1>7, <1>8, Zenon

\* One turn of install_trans: the block is on disk and its buffer agrees.
LEMMA InstallOneKeeps ==
    ASSUME TypeOK, IsInjective(lh), Len(lh) <= nlog - 1, tail < Len(lh), InstallOne,
           UNCHANGED <<lh, logarea>>, InstalledUpTo(tail),
           \A b \in Block \ dirty : Content(b) = disk[b]
    PROVE  /\ disk' \in [Block -> Value] /\ cache' \in [Block -> Value \cup {NONE}]
           /\ dirty' \subseteq Block /\ tail' \in 0 .. LOGSIZE /\ tail' <= Len(lh')
           /\ InstalledUpTo(tail)'
           /\ \A b \in Block \ dirty' : Content(b)' = disk'[b]
           /\ \A i \in 1 .. Len(lh) : logarea[i] = Content(lh[i]) => logarea'[i] = Content(lh[i])'
<1> DEFINE c == lh[tail + 1]
<1>1. Len(lh) \in Nat /\ tail \in Nat /\ nlog \in Nat /\ nlog = LOGSIZE
      /\ lh \in [1 .. Len(lh) -> Block]
  BY Sizes DEF TypeOK
<1>2. tail + 1 \in 1 .. Len(lh) /\ tail + 1 \in 1 .. nlog - 1 /\ tail' = tail + 1
  BY <1>1 DEF InstallOne
<1>3. c \in Block /\ logarea[tail + 1] \in Value /\ logarea[tail + 1] # NONE
  BY <1>1, <1>2, LogConstants DEF TypeOK
<1>4. /\ disk'[c] = logarea[tail + 1] /\ cache'[c] = logarea[tail + 1]
      /\ \A b \in Block \ {c} : disk'[b] = disk[b] /\ cache'[b] = cache[b]
      /\ disk' \in [Block -> Value] /\ cache' \in [Block -> Value \cup {NONE}]
  BY <1>3, Zenon DEF TypeOK, InstallOne
<1>5. \A i \in 1 .. Len(lh) : lh[i] \in Block /\ (lh[i] = c => i = tail + 1)
  BY <1>1, <1>2, Zenon DEF IsInjective
<1>6. InstalledUpTo(tail)'
  BY <1>1, <1>2, <1>4, <1>5 DEF InstalledUpTo
<1>7. \A b \in Block \ dirty' : Content(b)' = disk'[b]
  BY <1>3, <1>4, Zenon DEF InstallOne, Content
<1>8. \A i \in 1 .. Len(lh) : logarea[i] = Content(lh[i]) => logarea'[i] = Content(lh[i])'
  BY <1>3, <1>4, <1>5, Zenon DEF Content
<1>9. dirty' \subseteq Block /\ tail' \in 0 .. LOGSIZE /\ tail' <= Len(lh')
  BY <1>1, <1>2 DEF TypeOK, InstallOne
<1> QED
  BY <1>4, <1>6, <1>7, <1>8, <1>9, Zenon

\* install_trans copies the log to the home locations.
LEMMA InstallStep ==
    ASSUME IInv, NEW p \in Proc, install_trans(p)
    PROVE  IInv'
<1>1. /\ pc[p] = "install_trans"
      /\ UNCHANGED <<logarea, head, boot, lh, outstanding, committing, holds, wrote, panicked>>
  BY Zenon DEF install_trans, logged, calls
<1>2. /\ Len(lh) \in Nat /\ tail \in Nat /\ pc[p] \in Committing /\ Len(lh) <= nlog - 1
      /\ \A q \in Proc \ {p} : pc[q] \notin Committing
      /\ Held = {NONE} /\ Held' = Held
  BY <1>1, CommitAlone DEF Committing, IInv, LogFits, Held
<1>3. /\ head = lh /\ tail <= Len(lh) /\ LoggedUpTo(Len(lh)) /\ InstalledUpTo(tail)
      /\ dirty \subseteq {lh[i] : i \in tail + 1 .. Len(lh)}
  BY <1>1, Zenon DEF IInv, CommitInv
<1>4. TypeOK /\ HeaderInv /\ Clean /\ IsInjective(lh)
  BY Zenon DEF IInv, LogFits
<1>5. ASSUME NEW s \in {"install_trans", "erase"}, pc' = [pc EXCEPT ![p] = s]
      PROVE  /\ SleepersHaveWaker' /\ Counted' /\ Operations' /\ Reserved' /\ BootInv' /\ Quiet'
             /\ HeaderInv'
             /\ pc'[p] = s /\ \A q \in Proc \ {p} : pc'[q] \notin Committing
             /\ pc' \in [Proc -> {"idle", "retry", "asleep"} \cup Running \cup Committing]
  <2>1. /\ SleepersHaveWaker' /\ Counted' /\ Operations' /\ Reserved' /\ BootInv' /\ Quiet'
        /\ pc'[p] = s /\ \A q \in Proc \ {p} : pc'[q] \notin Committing
        /\ pc' \in [Proc -> {"idle", "retry", "asleep"} \cup Running \cup Committing]
    BY <1>1, <1>2, <1>5, CommitKeeps, Zenon DEF Committing, calls
  <2>2. HeaderInv'
    BY <1>1, <1>4, <1>5, <2>1, Zenon DEF HeaderInv
  <2> QED
    BY <2>1, <2>2, Zenon
<1>6. CASE tail < Len(lh) /\ InstallOne /\ UNCHANGED pc
  <2>1. pc' = [pc EXCEPT ![p] = "install_trans"]
    BY <1>1, <1>4, <1>6, Zenon DEF TypeOK
  <2>2. \A b \in Block \ dirty : Content(b) = disk[b]
    <3>1. NONE \notin Block
      BY LogConstants, Zenon
    <3> QED
      BY <1>2, <1>4, <3>1, Zenon DEF Clean
  <2>3. /\ disk' \in [Block -> Value] /\ cache' \in [Block -> Value \cup {NONE}]
        /\ dirty' \subseteq Block /\ tail' \in 0 .. LOGSIZE /\ tail' <= Len(lh')
        /\ InstalledUpTo(tail)'
        /\ \A b \in Block \ dirty' : Content(b)' = disk'[b]
        /\ \A i \in 1 .. Len(lh) : logarea[i] = Content(lh[i]) =>
                                      logarea'[i] = Content(lh[i])'
    BY <1>1, <1>2, <1>3, <1>4, <1>6, <2>2, InstallOneKeeps, Zenon
  <2>4. TypeOK'
    BY <1>1, <1>4, <1>5, <2>1, <2>3, Zenon DEF TypeOK
  <2>5. Clean'
    BY <1>1, <1>4, <1>6, <2>3, Zenon DEF Clean, InstallOne
  <2>6. dirty' \subseteq {lh'[i] : i \in tail' + 1 .. Len(lh')}
    BY <1>1, <1>2, <1>3, <1>6 DEF InstallOne
  <2>7. LoggedUpTo(Len(lh))'
    BY <1>1, <1>3, <2>3, Zenon DEF LoggedUpTo
  <2>8. CommitInv'
    BY <1>1, <1>3, <1>5, <2>1, <2>3, <2>6, <2>7, ZenonT(30) DEF CommitInv, Committing
  <2> QED
    BY <1>1, <1>2, <1>4, <1>5, <2>1, <2>4, <2>5, <2>8, Zenon DEF IInv, LogFits
<1>7. CASE /\ tail >= Len(lh) /\ pc' = [pc EXCEPT ![p] = "erase"]
           /\ UNCHANGED <<disk, cache, dirty, tail>>
  <2>1. TypeOK'
    BY <1>1, <1>4, <1>5, <1>7, Zenon DEF TypeOK
  <2>2. Clean'
    BY <1>1, <1>2, <1>4, <1>7, Zenon DEF Clean, Content
  <2>3. tail = Len(lh) /\ dirty = {}
    BY <1>2, <1>3, <1>7
  <2>4. CommitInv'
    BY <1>1, <1>3, <1>5, <1>7, <2>3, Zenon DEF CommitInv, InstalledUpTo, Committing
  <2> QED
    BY <1>1, <1>2, <1>4, <1>5, <1>7, <2>1, <2>2, <2>4, Zenon DEF IInv, LogFits
<1> QED
  BY <1>6, <1>7, Zenon DEF install_trans, cached

\* write_log copies the blocks to the log one by one.
LEMMA WriteLogStep ==
    ASSUME IInv, NEW p \in Proc, write_log(p)
    PROVE  IInv'
<1> USE DEF write_log, cached, logged, calls
<1>1. Len(lh) \in Nat /\ tail \in Nat /\ pc[p] \in Committing /\ Len(lh) <= nlog - 1
      /\ \A q \in Proc \ {p} : pc[q] \notin Committing
  BY CommitAlone, Zenon DEF Committing, IInv, LogFits
<1>2. Clean'
  BY Zenon DEF IInv, Clean, Content, Held
<1>3. CASE tail < Len(lh)
  <2>1. pc' = [pc EXCEPT ![p] = "write_log"]
    BY <1>3, Zenon DEF IInv, LogFits, TypeOK
  <2>2. /\ SleepersHaveWaker' /\ Counted' /\ Operations' /\ Reserved' /\ BootInv' /\ Quiet'
        /\ pc'[p] = "write_log" /\ \A q \in Proc \ {p} : pc'[q] \notin Committing
        /\ pc' \in [Proc -> {"idle", "retry", "asleep"} \cup Running \cup Committing]
    BY <2>1, <1>1, CommitKeeps, Zenon DEF Committing
  <2>3. lh[tail + 1] \in Block /\ Content(lh[tail + 1]) \in Value /\ tail + 1 \in 1 .. nlog - 1
    BY <1>1, <1>3, Sizes DEF IInv, LogFits, TypeOK, Content
  <2>4. TypeOK'
    BY <2>2, <2>3, <1>1, <1>3, Sizes DEF IInv, LogFits, TypeOK
  <2>5. HeaderInv'
    BY <2>2, <1>1, Zenon DEF IInv, HeaderInv, Committing
  <2>6. LoggedUpTo(tail)
    BY Zenon DEF IInv, CommitInv
  <2>7. \A i \in 1 .. tail + 1 : logarea'[i] = Content(lh[i])
    <3>1. logarea \in [1 .. nlog - 1 -> Value] /\ nlog \in Nat
      BY Sizes, Zenon DEF IInv, LogFits, TypeOK
    <3>2. logarea'[tail + 1] = Content(lh[tail + 1])
      BY <3>1, <2>3, <1>3, Zenon
    <3>3. \A i \in 1 .. tail : logarea'[i] = logarea[i]
      BY <3>1, <2>3, <1>1, <1>3
    <3> QED
      BY <3>2, <3>3, <2>6, <1>1 DEF LoggedUpTo
  <2>8. CommitInv'
    BY <2>2, <2>7, <1>1, <1>3 DEF CommitInv, LoggedUpTo, Content, Committing
  <2> QED
    BY <1>2, <2>2, <2>4, <2>5, <2>8, Zenon DEF IInv, LogFits
<1>4. CASE ~(tail < Len(lh))
  <2>1. pc' = [pc EXCEPT ![p] = "write_head"]
    BY <1>4, Zenon
  <2>2. /\ SleepersHaveWaker' /\ Counted' /\ Operations' /\ Reserved' /\ BootInv' /\ Quiet'
        /\ pc'[p] = "write_head" /\ \A q \in Proc \ {p} : pc'[q] \notin Committing
        /\ pc' \in [Proc -> {"idle", "retry", "asleep"} \cup Running \cup Committing]
    BY <2>1, <1>1, CommitKeeps, Zenon DEF Committing
  <2>3. TypeOK'
    BY <2>2, <1>4, Sizes DEF IInv, LogFits, TypeOK
  <2>4. HeaderInv'
    BY <1>1, <1>4, Zenon DEF IInv, HeaderInv, Committing
  <2>5. tail = Len(lh) /\ LoggedUpTo(tail)
    BY <1>1, <1>4 DEF IInv, CommitInv
  <2>6. CommitInv'
    BY <2>2, <2>5, <1>4, Zenon DEF CommitInv, LoggedUpTo, Content, Committing
  <2> QED
    BY <1>2, <1>4, <2>2, <2>3, <2>4, <2>6, Zenon DEF IInv, LogFits
<1> QED
  BY <1>3, <1>4, Zenon

\* write_head makes the log the one that recovery will install.
LEMMA WriteHeadStep ==
    ASSUME IInv, NEW p \in Proc, write_head(p)
    PROVE  IInv'
<1> USE DEF write_head, cached, logged, calls
<1>1. Len(lh) \in Nat /\ pc[p] \in Committing /\ Held = {NONE}
      /\ \A q \in Proc \ {p} : pc[q] \notin Committing
  BY CommitAlone, Zenon DEF Committing
<1>2. /\ SleepersHaveWaker' /\ Counted' /\ Operations' /\ Reserved' /\ BootInv' /\ Quiet'
      /\ pc'[p] = "install_trans" /\ \A q \in Proc \ {p} : pc'[q] \notin Committing
      /\ pc' \in [Proc -> {"idle", "retry", "asleep"} \cup Running \cup Committing]
  BY <1>1, CommitKeeps, Zenon DEF Committing
<1>3. TypeOK'
  BY <1>2, Zenon DEF IInv, LogFits, TypeOK
<1>4. Clean'
  BY Zenon DEF IInv, Clean, Content, Held
<1>5. HeaderInv'
  BY <1>2, Zenon DEF IInv, LogFits, HeaderInv
<1>6. CommitInv'
  <2>1. tail = 0 /\ LoggedUpTo(Len(lh)) /\ dirty \subseteq Range(lh)
    BY Zenon DEF IInv, CommitInv, Clean
  <2>2. Range(lh) = {lh[i] : i \in 1 .. Len(lh)}
    BY DEF Range, IInv, LogFits, TypeOK
  <2>3. head' = lh' /\ tail' <= Len(lh') /\ LoggedUpTo(Len(lh))' /\ InstalledUpTo(tail)'
    BY <2>1, <1>1 DEF LoggedUpTo, InstalledUpTo, Content
  <2>4. dirty' \subseteq {lh'[i] : i \in tail' + 1 .. Len(lh')}
    BY <2>1, <2>2
  <2> QED
    BY <2>3, <2>4, <1>2, Zenon DEF CommitInv, Committing
<1> QED
  BY <1>2, <1>3, <1>4, <1>5, <1>6, Zenon DEF IInv, LogFits

\* The log is emptied when everything it holds is at its home location.
LEMMA EraseStep ==
    ASSUME IInv, NEW p \in Proc, erase(p)
    PROVE  IInv'
<1> USE DEF erase, cached, calls
<1>1. Len(lh) \in Nat /\ pc[p] \in Committing
      /\ \A q \in Proc \ {p} : pc[q] \notin Committing
  BY CommitAlone, Zenon DEF Committing
<1>2. /\ SleepersHaveWaker' /\ Counted' /\ Operations' /\ Reserved' /\ BootInv' /\ Quiet'
      /\ pc'[p] = "committed" /\ \A q \in Proc \ {p} : pc'[q] \notin Committing
      /\ pc' \in [Proc -> {"idle", "retry", "asleep"} \cup Running \cup Committing]
  BY <1>1, CommitKeeps, Zenon DEF Committing
<1>3. /\ lh' \in Seq(Block) /\ head' \in Seq(Block)
      /\ IsInjective(lh') /\ IsInjective(head') /\ Len(lh') <= nlog - 1 /\ Len(head') <= nlog - 1
  BY LogConstants DEF Erased, IsInjective
<1>4. TypeOK'
  BY <1>2, <1>3, Zenon DEF IInv, LogFits, TypeOK
<1>5. dirty' = {}
  BY Zenon DEF IInv, CommitInv
<1>6. Clean'
  BY <1>5, Zenon DEF IInv, CommitInv, Clean, Content, Held
<1>7. HeaderInv' /\ CommitInv'
  BY <1>2, <1>3, Zenon DEF HeaderInv, CommitInv, Erased, Committing
<1> QED
  BY <1>2, <1>3, <1>4, <1>6, <1>7, SMTT(30) DEF IInv, LogFits

\* The end of the commit wakes whoever sleeps in begin_op.
LEMMA EndCommitStep ==
    ASSUME IInv, NEW p \in Proc, end_commit(p)
    PROVE  IInv'
<1> USE DEF end_commit, stable, cached, calls, wakeup
<1>1. /\ boot = "up" /\ outstanding = 0
      /\ \A q \in Proc : pc[q] \notin Running /\ holds[q] = NONE /\ wrote[q] = {}
      /\ \A q \in Proc \ {p} : pc[q] \notin Committing
  BY CommitAlone, Zenon DEF Committing
<1>2. lh = <<>> /\ head = <<>>
  BY <1>1, Zenon DEF IInv, CommitInv, HeaderInv, Committing
<1>3. pc' \in [Proc -> {"idle", "retry"}]
  BY <1>1, Zenon DEF IInv, LogFits, TypeOK
<1>4. Runners' = {} /\ Committers' = {}
  BY <1>3, Zenon DEF Runners, Committers, Running, Committing
<1>5. TypeOK'
  BY <1>3, ZenonT(30) DEF IInv, LogFits, TypeOK
<1>6. Counted'
  BY <1>1, <1>4, CommitAlone, Zenon DEF IInv, Counted, Committing
<1>7. Operations'
  BY <1>1, <1>3, NothingWritten, Zenon DEF Running
<1>8. Reserved' /\ Quiet' /\ SleepersHaveWaker' /\ BootInv' /\ HeaderInv'
  BY <1>1, <1>2, <1>3, <1>4, Zenon
     DEF Reserved, Quiet, SleepersHaveWaker, BootInv, HeaderInv, IInv
<1>9. CommitInv'
  BY <1>3, SMTT(30) DEF CommitInv
<1>10. Clean'
  BY Zenon DEF IInv, Clean, Content, Held
<1> QED
  BY <1>5, <1>6, <1>7, <1>8, <1>9, <1>10, Zenon DEF IInv, LogFits

-----------------------------------------------------------------------------
\* Reads and recycling leave the content of every block alone.
LEMMA CacheStep ==
    ASSUME IInv, NEW b \in Block, bread(b) \/ recycle(b)
    PROVE  IInv' /\ \A c \in Block : Content(c)' = Content(c)
<1>1. UNCHANGED <<disk, logarea, head, boot, dirty, lh, outstanding, committing, tail, pc,
                  holds, wrote, panicked>>
  BY Zenon DEF bread, recycle, stable, logged, calls
<1>2. cache' \in [Block -> Value \cup {NONE}]
  BY Zenon DEF IInv, LogFits, TypeOK, bread, recycle
<1>3. \A c \in Block : Content(c)' = Content(c)
  BY Zenon DEF IInv, LogFits, TypeOK, Clean, Content, bread, recycle, stable
<1>4. LogFits' /\ SleepersHaveWaker'
  BY <1>1, <1>2, Zenon DEF IInv, LogFits, TypeOK, SleepersHaveWaker
<1>5. Counted' /\ Reserved' /\ Quiet'
  <2>1. Runners' = Runners /\ Committers' = Committers /\ Spare' = Spare
    BY <1>1, Zenon DEF Runners, Committers, Spare, Tokens
  <2> QED
    BY <2>1, <1>1, Zenon DEF IInv, Counted, Reserved, Quiet
<1>6. Operations' /\ BootInv' /\ HeaderInv'
  BY <1>1, Zenon DEF IInv, Operations, BootInv, InstalledUpTo, HeaderInv
<1>7. Clean'
  BY <1>1, <1>3, SMTT(30) DEF IInv, Clean, Held
<1>8. CommitInv'
  <2>1. lh \in [1 .. Len(lh) -> Block] /\ tail \in Nat /\ Len(lh) \in Nat
    BY Sizes DEF IInv, LogFits, TypeOK
  <2>2. \A n \in 0 .. Len(lh) : LoggedUpTo(n) => \A i \in 1 .. n : logarea'[i] = Content(lh[i])'
    BY <2>1, <1>1, <1>3 DEF LoggedUpTo
  <2> QED
    BY <2>1, <2>2, <1>1 DEF IInv, CommitInv, LoggedUpTo, InstalledUpTo
<1> QED
  BY <1>3, <1>4, <1>5, <1>6, <1>7, <1>8, Zenon DEF IInv

\* Nothing runs before recovery is over.
LEMMA BootAlone ==
    ASSUME IInv, boot # "up"
    PROVE  /\ \A q \in Proc : pc[q] = "idle" /\ holds[q] = NONE /\ wrote[q] = {}
           /\ Runners = {} /\ Committers = {} /\ ~committing /\ outstanding = 0
           /\ Held \subseteq {NONE} /\ dirty = {}
           /\ \A b \in Block : Content(b) = disk[b]
<1>1. dirty = {} /\ \A q \in Proc : pc[q] = "idle"
  BY Zenon DEF IInv, BootInv
<1>2. Runners = {} /\ Committers = {}
  BY <1>1, Zenon DEF Runners, Committers, Running, Committing
<1>3. ~committing /\ outstanding = 0
  BY <1>2, Zenon DEF IInv, Counted
<1>4. \A q \in Proc : holds[q] = NONE /\ wrote[q] = {}
  BY <1>1, Zenon DEF IInv, Operations, Running
<1>5. Held \subseteq {NONE}
  BY <1>4, Zenon DEF Held
<1>6. \A b \in Block : Content(b) = disk[b]
  BY <1>1, <1>5, LogConstants, Zenon DEF IInv, Clean
<1> QED
  BY <1>1, <1>2, <1>3, <1>4, <1>5, <1>6, Zenon

\* Recovery reads the header.
LEMMA ReadHeadStep ==
    ASSUME IInv, read_head
    PROVE  IInv'
<1> USE DEF read_head, stable, cached, calls
<1>1. /\ \A q \in Proc : pc[q] = "idle" /\ holds[q] = NONE /\ wrote[q] = {}
      /\ Runners = {} /\ Committers = {} /\ dirty = {}
  BY BootAlone, Zenon
<1>2. Runners' = {} /\ Committers' = {}
  BY <1>1, Zenon DEF Runners, Committers, Running, Committing
<1>3. LogFits'
  BY Sizes DEF IInv, LogFits, TypeOK, HeaderInv
<1>4. Counted' /\ Reserved' /\ Quiet' /\ SleepersHaveWaker'
  BY <1>1, <1>2, Zenon DEF IInv, Counted, Reserved, Quiet, SleepersHaveWaker
<1>5. Operations'
  BY <1>1, NothingWritten, Zenon DEF Running
<1>6. Clean'
  BY <1>1, SMTT(30) DEF IInv, Clean, Content, Held
<1>7. HeaderInv' /\ CommitInv'
  BY <1>1, Zenon DEF IInv, HeaderInv, CommitInv
<1>8. BootInv'
  BY <1>1 DEF IInv, LogFits, TypeOK, BootInv, InstalledUpTo
<1> QED
  BY <1>3, <1>4, <1>5, <1>6, <1>7, <1>8, SMTT(30) DEF IInv

\* Recovery installs the log, again from its start after a crash, and empties it.
LEMMA RecoverStep ==
    ASSUME IInv, recover
    PROVE  IInv'
<1> USE DEF recover, cached, calls
<1>1. /\ \A q \in Proc : pc[q] = "idle" /\ holds[q] = NONE /\ wrote[q] = {}
      /\ Runners = {} /\ Committers = {} /\ dirty = {}
      /\ \A b \in Block : Content(b) = disk[b]
  BY BootAlone, Zenon
<1>2. Runners' = {} /\ Committers' = {}
  BY <1>1, Zenon DEF Runners, Committers, Running, Committing
<1>3. lh = head /\ tail <= Len(lh) /\ InstalledUpTo(tail)
  BY SMTT(30) DEF IInv, BootInv
<1>4. Counted' /\ Reserved' /\ SleepersHaveWaker' /\ CommitInv'
  BY <1>1, <1>2, SMTT(30) DEF IInv, Counted, Reserved, SleepersHaveWaker, CommitInv
<1>5. Operations'
  BY <1>1, NothingWritten, Zenon DEF Running
<1>6. CASE tail < Len(lh) /\ InstallOne /\ UNCHANGED <<boot, lh, head>>
  <2>1. /\ disk' \in [Block -> Value] /\ cache' \in [Block -> Value \cup {NONE}]
        /\ dirty' \subseteq Block /\ tail' \in 0 .. LOGSIZE /\ tail' <= Len(lh')
        /\ InstalledUpTo(tail)'
        /\ \A b \in Block \ dirty' : Content(b)' = disk'[b]
    BY <1>1, <1>3, <1>6, InstallOneKeeps, SMTT(30) DEF IInv, LogFits
  <2>2. dirty' = {}
    BY <1>1, <1>6, SMTT(30) DEF InstallOne
  <2>3. LogFits'
    BY <2>1, <1>6, SMTT(30) DEF IInv, LogFits, TypeOK
  <2>4. Clean' /\ BootInv' /\ Quiet'
    BY <2>1, <2>2, <1>1, <1>3, <1>6, Zenon DEF Clean, BootInv, Quiet
  <2>5. HeaderInv'
    BY <1>6, Zenon DEF IInv, HeaderInv
  <2> QED
    BY <2>3, <2>4, <2>5, <1>4, <1>5, SMTT(30) DEF IInv
<1>7. CASE /\ tail >= Len(lh) /\ lh' = <<>> /\ head' = <<>> /\ boot' = "up"
           /\ UNCHANGED <<disk, cached, tail>>
  <2>1. /\ lh' \in Seq(Block) /\ head' \in Seq(Block)
        /\ IsInjective(lh') /\ IsInjective(head') /\ Len(lh') <= nlog - 1 /\ Len(head') <= nlog - 1
    BY <1>7, LogConstants, SMTT(30) DEF IsInjective
  <2>2. LogFits'
    BY <2>1, <1>7, Zenon DEF IInv, LogFits, TypeOK
  <2>3. HeaderInv'
    BY <2>1, <1>7, Zenon DEF HeaderInv
  <2>4. Clean' /\ BootInv' /\ Quiet'
    BY <1>1, <1>7, Zenon DEF Clean, Content, BootInv, Quiet
  <2> QED
    BY <2>2, <2>3, <2>4, <1>4, <1>5, Zenon DEF IInv
<1> QED
  BY <1>6, <1>7, SMTT(30)

-----------------------------------------------------------------------------
\* What a bread would return, once recovery is over.
Current == IF boot = "up" THEN [b \in Block |-> Content(b)] ELSE Recovered

\* Recovery leaves the logged blocks of the header and the others of the disk.
LEMMA RecoveredBlocks ==
    IInv => /\ Recovered \in [Block -> Value]
            /\ \A i \in 1 .. Len(head) : Recovered[head[i]] = logarea[i]
            /\ \A b \in Block : (\A i \in 1 .. Len(head) : head[i] # b) => Recovered[b] = disk[b]
<1> SUFFICES ASSUME IInv
             PROVE  /\ Recovered \in [Block -> Value]
                    /\ \A i \in 1 .. Len(head) : Recovered[head[i]] = logarea[i]
                    /\ \A b \in Block : (\A i \in 1 .. Len(head) : head[i] # b)
                                            => Recovered[b] = disk[b]
  BY Zenon
<1> DEFINE at(b) == CHOOSE i \in 1 .. Len(head) : head[i] = b
<1>1. /\ head \in [1 .. Len(head) -> Block] /\ IsInjective(head)
      /\ Len(head) \in Nat /\ Len(head) <= nlog - 1 /\ nlog \in Nat
      /\ logarea \in [1 .. nlog - 1 -> Value] /\ disk \in [Block -> Value]
  BY Sizes DEF IInv, LogFits, TypeOK, HeaderInv
<1>2. Recovered = [b \in Block |-> IF \E i \in 1 .. Len(head) : head[i] = b
                                   THEN logarea[at(b)] ELSE disk[b]]
  BY Zenon DEF Recovered, Installed
<1>3. \A b \in Block : (\E i \in 1 .. Len(head) : head[i] = b)
                           => at(b) \in 1 .. Len(head) /\ head[at(b)] = b
  BY Zenon
<1>4. \A i \in 1 .. Len(head) : at(head[i]) = i
  BY <1>1, <1>3, Zenon DEF IsInjective
<1>5. \A b \in Block : (\E i \in 1 .. Len(head) : head[i] = b) => logarea[at(b)] \in Value
  BY <1>1, <1>3
<1> HIDE DEF at
<1>6. \A i \in 1 .. Len(head) : Recovered[head[i]] = logarea[i]
  BY <1>1, <1>2, <1>4, Zenon
<1>7. Recovered \in [Block -> Value]
  BY <1>1, <1>2, <1>5, Zenon
<1> QED
  BY <1>2, <1>6, <1>7, Zenon

\* Two functions on the blocks are one if they agree.
LEMMA SameBlocks ==
    ASSUME NEW f \in [Block -> Value], NEW g \in [Block -> Value], \A b \in Block : f[b] = g[b]
    PROVE  f = g
OBVIOUS

\* With an empty header recovery would leave the disk alone.
LEMMA NothingToInstall == IInv /\ head = <<>> => Recovered = disk
<1> SUFFICES ASSUME IInv, head = <<>> PROVE Recovered = disk
  BY Zenon
<1>1. Recovered \in [Block -> Value] /\ disk \in [Block -> Value]
  BY RecoveredBlocks, Zenon DEF IInv, LogFits, TypeOK
<1>2. \A b \in Block : Recovered[b] = disk[b]
  BY RecoveredBlocks
<1> QED
  BY <1>1, <1>2, SameBlocks, Zenon

\* Recovery would also leave it alone when all that is logged is installed.
LEMMA AllInstalled ==
    IInv /\ (\A i \in 1 .. Len(head) : disk[head[i]] = logarea[i]) => Recovered = disk
<1> SUFFICES ASSUME IInv, \A i \in 1 .. Len(head) : disk[head[i]] = logarea[i]
             PROVE  Recovered = disk
  BY Zenon
<1>1. Recovered \in [Block -> Value] /\ disk \in [Block -> Value]
  BY RecoveredBlocks, Zenon DEF IInv, LogFits, TypeOK
<1>2. \A b \in Block : Recovered[b] = disk[b]
  BY RecoveredBlocks
<1> QED
  BY <1>1, <1>2, SameBlocks, Zenon

\* A turn of install_trans, in a commit or in recovery, does not change what recovery
\* would leave.
LEMMA InstallIdempotent ==
    ASSUME IInv, IInv', head = lh, tail < Len(lh), InstallOne, UNCHANGED <<head, lh, logarea>>
    PROVE  Recovered' = Recovered
<1>1. /\ Recovered \in [Block -> Value]
      /\ \A i \in 1 .. Len(head) : Recovered[head[i]] = logarea[i]
      /\ \A b \in Block : (\A i \in 1 .. Len(head) : head[i] # b) => Recovered[b] = disk[b]
  BY RecoveredBlocks, Zenon
<1>2. /\ Recovered' \in [Block -> Value]
      /\ \A i \in 1 .. Len(head') : Recovered'[head'[i]] = logarea'[i]
      /\ \A b \in Block : (\A i \in 1 .. Len(head') : head'[i] # b) => Recovered'[b] = disk'[b]
  <2>1. IInv' => (/\ Recovered \in [Block -> Value]
                  /\ \A i \in 1 .. Len(head) : Recovered[head[i]] = logarea[i]
                  /\ \A b \in Block : (\A i \in 1 .. Len(head) : head[i] # b)
                                          => Recovered[b] = disk[b])'
    BY RecoveredBlocks, PTL
  <2> QED
    BY <2>1, Zenon
<1>3. tail + 1 \in 1 .. Len(head)
  BY Sizes DEF IInv, LogFits, TypeOK
<1>4. \A b \in Block : (\A i \in 1 .. Len(head) : head[i] # b) => disk'[b] = disk[b]
  BY <1>3, Zenon DEF InstallOne, IInv, LogFits, TypeOK
<1>5. \A b \in Block : Recovered'[b] = Recovered[b]
  BY <1>1, <1>2, <1>4
<1> QED
  BY <1>1, <1>2, <1>5, SameBlocks, Zenon

\* A step that leaves the disk, the buffers and the operations alone is not seen.
LEMMA Unseen ==
    ASSUME UNCHANGED <<stable, boot, cached>>
    PROVE  Recovered' = Recovered /\ Current' = Current
<1>1. Recovered' = Recovered
  BY Zenon DEF Recovered, Installed, stable
<1>2. [b \in Block |-> Content(b)]' = [b \in Block |-> Content(b)]
  BY Zenon DEF Content, stable, cached
<1> QED
  BY <1>1, <1>2, Zenon DEF Current

\* The commit is the write of the header; its other steps are not seen.
LEMMA CommitRefines ==
    ASSUME IInv, IInv', NEW p \in Proc, commit(p)
    PROVE  [Atomic!Next]_(Atomic!diskVars)
<1>1. /\ boot = "up" /\ Runners = {} /\ Held = {NONE}
      /\ \A q \in Proc \ {p} : pc[q] \notin Committing
      /\ pc \in [Proc -> {"idle", "retry", "asleep"} \cup Running \cup Committing]
  BY CommitAlone, Zenon DEF commit, write_log, write_head, install_trans, erase, end_commit,
                     Committing, IInv, LogFits, TypeOK
<1>2. Runners' = {} /\ boot' = "up"
  BY <1>1, Zenon DEF commit, write_log, write_head, install_trans, erase, end_commit, wakeup,
              Runners, Running
<1>3. Current = [b \in Block |-> Content(b)] /\ Current' = [b \in Block |-> Content(b)']
  BY <1>1, <1>2, Zenon DEF Current
<1>4. \A b \in Block \ dirty : Content(b) = disk[b]
  BY <1>1, LogConstants, Zenon DEF IInv, Clean
<1>5. IInv' /\ head' = <<>> => Recovered' = disk'
  <2>1. (IInv /\ head = <<>> => Recovered = disk)'
    BY NothingToInstall, PTL
  <2> QED
    BY <2>1, Zenon
<1>6. CASE write_head(p)
  <2>1. /\ Recovered' \in [Block -> Value]
        /\ \A i \in 1 .. Len(lh) : Recovered'[lh[i]] = logarea[i]
        /\ \A b \in Block : (\A i \in 1 .. Len(lh) : lh[i] # b) => Recovered'[b] = disk[b]
    <3>1. (IInv => /\ Recovered \in [Block -> Value]
                   /\ \A i \in 1 .. Len(head) : Recovered[head[i]] = logarea[i]
                   /\ \A b \in Block : (\A i \in 1 .. Len(head) : head[i] # b)
                                          => Recovered[b] = disk[b])'
      BY RecoveredBlocks, PTL
    <3> QED
      BY <3>1, <1>6, Zenon DEF write_head
  <2>2. \A i \in 1 .. Len(lh) : logarea[i] = Content(lh[i])
    BY <1>6, Zenon DEF IInv, CommitInv, LoggedUpTo, write_head
  <2>3. \A b \in dirty : \E i \in 1 .. Len(lh) : lh[i] = b
    BY DEF IInv, Clean, Range, LogFits, TypeOK
  <2>4. \A b \in Block : Recovered'[b] = Content(b)
    BY <2>1, <2>2, <2>3, <1>4
  <2>5. Recovered' = Current
    BY <2>1, <2>4, <1>3, Zenon
  <2>6. Current' = Current
    BY <1>3, <1>6, Zenon DEF write_head, cached, Content
  <2> QED
    BY <2>5, <2>6, <1>1, <1>2, Zenon
       DEF Atomic!Next, Atomic!Commit, Atomic!diskVars, Runners, Current
<1>7. SUFFICES ASSUME ~write_head(p)
               PROVE  Recovered' = Recovered /\ Current' = Current
  BY <1>1, <1>2, <1>6, Zenon DEF Atomic!diskVars, Runners, Current
<1>8. CASE write_log(p)
  <2>1. head = <<>> /\ head' = <<>> /\ disk' = disk
    BY <1>1, <1>8, Zenon DEF write_log, IInv, HeaderInv, Committing
  <2>2. Recovered' = Recovered
    BY <2>1, <1>5, NothingToInstall, Zenon
  <2>3. Current' = Current
    BY <1>3, <1>8, Zenon DEF write_log, cached, Content
  <2> QED
    BY <2>2, <2>3, Zenon
<1>9. CASE install_trans(p) /\ tail < Len(lh) /\ InstallOne
  <2>1. Recovered' = Recovered
    BY <1>9, InstallIdempotent, SMTT(30) DEF install_trans, logged, IInv, CommitInv
  <2>2. lh[tail + 1] \in Block /\ logarea[tail + 1] = Content(lh[tail + 1])
        /\ logarea[tail + 1] # NONE
    <3>1. tail + 1 \in 1 .. Len(lh) /\ tail + 1 \in 1 .. nlog - 1
      BY <1>9, Sizes, SMTT(30) DEF IInv, LogFits, TypeOK
    <3> QED
      BY <3>1, <1>9, LogConstants, SMTT(30)
         DEF install_trans, IInv, CommitInv, LoggedUpTo, LogFits, TypeOK
  <2>3. \A b \in Block : Content(b)' = Content(b)
    <3>1. cache \in [Block -> Value \cup {NONE}] /\ disk \in [Block -> Value]
      BY Zenon DEF IInv, LogFits, TypeOK
    <3> QED
      BY <2>2, <1>9, <3>1, Zenon DEF InstallOne, Content
  <2> QED
    BY <2>1, <2>3, <1>3, SMTT(30)
<1>10. CASE install_trans(p) /\ ~(tail < Len(lh) /\ InstallOne)
  BY <1>10, Unseen, Zenon DEF install_trans, stable
<1>11. CASE erase(p)
  <2>1. Recovered = disk
    BY <1>11, AllInstalled DEF erase, IInv, CommitInv, InstalledUpTo
  <2>2. head' = <<>> /\ disk' = disk
    BY <1>11, Zenon DEF erase, Erased
  <2>3. Current' = Current
    BY <1>3, <1>11, Zenon DEF erase, cached, Content
  <2> QED
    BY <2>1, <2>2, <2>3, <1>5, SMTT(30)
<1>12. CASE end_commit(p)
  BY <1>12, Unseen, Zenon DEF end_commit
<1> QED
  BY <1>7, <1>8, <1>9, <1>10, <1>11, <1>12, SMTT(30) DEF commit

\* The buffer cache, recovery and the crash.
LEMMA RecoveryRefines ==
    ASSUME IInv, IInv', (\E b \in Block : bread(b) \/ recycle(b)) \/ read_head \/ recover \/ crash
    PROVE  [Atomic!Next]_(Atomic!diskVars)
<1>1. CASE \E b \in Block : bread(b) \/ recycle(b)
  <2>1. Recovered' = Recovered /\ Runners' = Runners /\ boot' = boot
    <3>1. disk' = disk /\ logarea' = logarea /\ head' = head /\ boot' = boot /\ pc' = pc
      BY <1>1, Zenon DEF bread, recycle, stable
    <3> QED
      BY <3>1, Zenon DEF Recovered, Installed, Runners
  <2>2. \A c \in Block : Content(c)' = Content(c)
    BY <1>1, CacheStep, Zenon
  <2>3. Current' = Current
    BY <2>1, <2>2, Zenon DEF Current
  <2> QED
    BY <2>1, <2>3, Zenon DEF Atomic!diskVars, Runners, Current
<1>2. CASE read_head
  <2>1. Recovered' = Recovered /\ Current' = Current /\ Runners' = Runners
    BY <1>2, Zenon DEF read_head, stable, Recovered, Installed, Runners, Current
  <2> QED
    BY <2>1, SMTT(30) DEF Atomic!diskVars, Runners, Current
<1>3. CASE recover /\ tail < Len(lh)
  <2>1. boot = "install" /\ boot' = "install" /\ InstallOne /\ head = lh
        /\ UNCHANGED <<head, lh, logarea>> /\ Runners' = Runners
    BY <1>3 DEF recover, IInv, BootInv, Runners, LogFits, TypeOK
  <2>2. Recovered' = Recovered
    BY <2>1, <1>3, InstallIdempotent, Zenon
  <2>3. Current' = Current
    BY <2>1, <2>2, Zenon DEF Current
  <2> QED
    BY <2>1, <2>2, <2>3, SMTT(30) DEF Atomic!diskVars, Runners, Current
<1>4. CASE recover /\ ~(tail < Len(lh))
  <2>1. /\ boot = "install" /\ boot' = "up" /\ head' = <<>> /\ disk' = disk /\ cache' = cache
        /\ Runners' = Runners
    BY <1>4, SMTT(30) DEF recover, cached, Runners
  <2>2. head = lh /\ tail = Len(lh) /\ InstalledUpTo(tail)
    BY <1>4, Sizes DEF recover, IInv, BootInv, LogFits, TypeOK
  <2>3. Recovered = disk
    BY <2>2, AllInstalled, Zenon DEF InstalledUpTo
  <2>4. Recovered' = disk'
    <3>1. (IInv /\ head = <<>> => Recovered = disk)'
      BY NothingToInstall, PTL
    <3> QED
      BY <3>1, <2>1, Zenon
  <2>5. \A b \in Block : Content(b)' = disk[b]
    BY <2>1, BootAlone, SMTT(30) DEF Content
  <2>6. Current' = Current
    BY <2>1, <2>3, <2>5, Zenon DEF Current, IInv, LogFits, TypeOK
  <2> QED
    BY <2>1, <2>3, <2>4, <2>6, Zenon DEF Atomic!diskVars, Runners, Current
<1>5. CASE crash
  <2>1. Recovered' = Recovered /\ boot' # "up"
    BY <1>5, Zenon DEF crash, Reset, stable, Recovered, Installed
  <2>2. Runners' = {}
    BY <1>5, Zenon DEF crash, Reset, Runners, Running
  <2>3. Current' = Recovered
    BY <2>1, Zenon DEF Current
  <2> QED
    BY <2>1, <2>2, <2>3, Zenon DEF Atomic!Next, Atomic!Crash, Runners, Current
<1> QED
  BY <1>1, <1>2, <1>3, <1>4, <1>5, SMTT(30)

-----------------------------------------------------------------------------
\* A running operation means that the machine is up and nobody commits.
LEMMA OpAlone ==
    ASSUME IInv, NEW p \in Proc, pc[p] \in Running
    PROVE  /\ p \in Runners /\ boot = "up" /\ ~committing /\ outstanding > 0
           /\ \A q \in Proc : pc[q] \notin Committing
           /\ head = <<>>
<1>1. p \in Runners /\ boot = "up" /\ ~committing
  BY Zenon DEF Runners, IInv, Counted, BootInv, Running
<1>2. outstanding \in Nat /\ outstanding # 0
  BY <1>1, Zenon DEF IInv, Counted, LogFits, TypeOK
<1>3. \A q \in Proc : pc[q] \notin Committing
  BY <1>1, Zenon DEF IInv, Counted, Committers
<1>4. head = <<>>
  BY <1>1, <1>3, Zenon DEF IInv, HeaderInv, Committing
<1> QED
  BY <1>1, <1>2, <1>3, <1>4

\* An operation begins, writes and ends.
LEMMA OperationRefines ==
    ASSUME IInv, NEW p \in Proc,
           begin_op(p) \/ log_write(p) \/ end_op(p)
              \/ \E b \in Block, v \in Value : modify(p, b, v)
    PROVE  [Atomic!Next]_(Atomic!diskVars)
<1>1. pc \in [Proc -> {"idle", "retry", "asleep"} \cup Running \cup Committing]
  BY Zenon DEF IInv, LogFits, TypeOK
<1>2. CASE begin_op(p)
  <2>1. Recovered' = Recovered /\ Current' = Current
    BY <1>2, Unseen, Zenon DEF begin_op
  <2>2. Runners' = Runners \cup {p} \/ Runners' = Runners
    BY <1>1, <1>2, Zenon DEF begin_op, Runners, Running
  <2> QED
    BY <2>1, <2>2, Zenon DEF Atomic!Next, Atomic!Begin, Atomic!diskVars, Runners, Current
<1>3. CASE log_write(p)
  <2>1. Recovered' = Recovered /\ Current' = Current
    <3>1. Recovered' = Recovered
      BY <1>3, Zenon DEF Recovered, Installed, stable, log_write
    <3>2. [b \in Block |-> Content(b)]' = [b \in Block |-> Content(b)]
      BY <1>3, Zenon DEF Content, stable, log_write
    <3> QED
      BY <3>1, <3>2, <1>3, Zenon DEF Current, log_write
  <2>2. Runners' = Runners
    BY <1>1, <1>3, Zenon DEF log_write, Runners, Running
  <2> QED
    BY <2>1, <2>2, Zenon DEF Atomic!diskVars, Runners, Current
<1>4. CASE end_op(p)
  <2>1. Recovered' = Recovered /\ Current' = Current
    BY <1>4, Unseen, Zenon DEF end_op
  <2>2. Runners' = Runners \ {p}
    BY <1>1, <1>4, Zenon DEF end_op, Runners, Running, wakeup
  <2> QED
    BY <2>1, <2>2, Zenon DEF Atomic!Next, Atomic!End, Atomic!diskVars, Runners, Current
<1>5. ASSUME NEW b \in Block, NEW v \in Value, modify(p, b, v)
      PROVE  [Atomic!Next]_(Atomic!diskVars)
  <2>1. boot = "up" /\ boot' = "up" /\ p \in Runners
    BY <1>5, OpAlone, Zenon DEF modify, Running
  <2>2. Runners' = Runners
    BY <1>1, <1>5, Zenon DEF modify, Runners, Running
  <2>3. Recovered' = Recovered
    BY <1>5, Zenon DEF Recovered, Installed, stable, modify
  <2>4. Current' = [Current EXCEPT ![b] = v]
    <3>1. v # NONE /\ cache \in [Block -> Value \cup {NONE}]
      BY LogConstants, Zenon DEF IInv, LogFits, TypeOK
    <3>2. \A c \in Block : Content(c)' = IF c = b THEN v ELSE Content(c)
      BY <3>1, <1>5, Zenon DEF Content, modify, stable
    <3> QED
      BY <2>1, <3>2, Zenon DEF Current
  <2> QED
    BY <2>1, <2>2, <2>3, <2>4, ZenonT(30)
       DEF Atomic!Next, Atomic!Write, Atomic!diskVars, Runners, Current
<1> QED
  BY <1>2, <1>3, <1>4, <1>5, Zenon

-----------------------------------------------------------------------------
\* A set of operations has at most MAXOPBLOCKS tokens for each of them.
LEMMA TokensBound ==
    ASSUME NEW R, IsFiniteSet(R), NEW w
    PROVE  /\ IsFiniteSet(Tokens(R, w))
           /\ Cardinality(Tokens(R, w)) \in Nat
           /\ Cardinality(R) \in Nat
           /\ Cardinality(Tokens(R, w)) <= Cardinality(R) * MAXOPBLOCKS
<1>1. MAXOPBLOCKS \in Nat /\ MAXOPBLOCKS > 0
  BY Sizes
<1>2. IsFiniteSet(1 .. MAXOPBLOCKS) /\ Cardinality(1 .. MAXOPBLOCKS) = MAXOPBLOCKS
  BY <1>1, FS_Interval
<1>3. /\ IsFiniteSet(R \X (1 .. MAXOPBLOCKS))
      /\ Cardinality(R \X (1 .. MAXOPBLOCKS)) = Cardinality(R) * MAXOPBLOCKS
  BY <1>2, FS_Product, Zenon
<1>4. Tokens(R, w) \in SUBSET (R \X (1 .. MAXOPBLOCKS))
  BY Zenon DEF Tokens
<1> QED
  BY <1>3, <1>4, FS_Subset, FS_CardinalityType, Zenon

\* The processes are finitely many, and so are those that run an operation.
LEMMA RunnersFinite == IsFiniteSet(Runners) /\ Cardinality(Runners) \in Nat
<1>1. Runners \in SUBSET Proc
  BY Zenon DEF Runners
<1> QED
  BY <1>1, LogConstants, FS_Subset, FS_CardinalityType, Zenon

\* Every running operation has a token left, its last, because it writes fewer blocks
\* than it reserves; so there is room in the log for one more block at any log_write.
LEMMA RoomLeft ==
    ASSUME IInv, Runners # {}
    PROVE  Len(lh) <= LOGSIZE - 2
<1> DEFINE last == Runners \X {MAXOPBLOCKS}
<1>1. MAXOPBLOCKS \in Nat /\ OpBlocks \in Nat /\ LOGSIZE \in Nat
      /\ MAXOPBLOCKS > 0 /\ OpBlocks < MAXOPBLOCKS
  BY Sizes
<1>2. IsFiniteSet(last) /\ Cardinality(last) = Cardinality(Runners)
  <2>1. IsFiniteSet({MAXOPBLOCKS}) /\ Cardinality({MAXOPBLOCKS}) = 1
    BY FS_Singleton, Zenon
  <2>2. IsFiniteSet(last) /\ Cardinality(last) = Cardinality(Runners) * 1
    BY <2>1, RunnersFinite, FS_Product, Zenon
  <2> QED
    BY <2>2, RunnersFinite
<1>3. last \in SUBSET Spare
  <2> SUFFICES ASSUME NEW p \in Runners PROVE <<p, MAXOPBLOCKS>> \in Spare
    OBVIOUS
  <2>1. Cardinality(wrote[p]) \in Nat /\ Cardinality(wrote[p]) <= OpBlocks
    BY FS_CardinalityType, Zenon DEF IInv, Operations, Runners
  <2> QED
    BY <2>1, <1>1 DEF Spare, Tokens
<1>4. IsFiniteSet(Spare) /\ Cardinality(Spare) \in Nat
  BY RunnersFinite, TokensBound, Zenon DEF Spare
<1>5. Cardinality(Spare) >= outstanding /\ outstanding \in Nat
  BY <1>2, <1>3, <1>4, RunnersFinite, FS_Subset, Zenon DEF IInv, Counted
<1>6. outstanding # 0
  BY Zenon DEF IInv, Counted
<1>7. Len(lh) \in Nat
  BY DEF IInv, LogFits, TypeOK
<1> QED
  BY <1>1, <1>4, <1>5, <1>6, <1>7 DEF IInv, Reserved

-----------------------------------------------------------------------------
\* begin_op admits an operation only if what it reserves fits.
LEMMA BeginStep ==
    ASSUME IInv, NEW p \in Proc, begin_op(p)
    PROVE  IInv'
<1> USE DEF begin_op, stable, cached, calls
<1>1. TypeOK'
  BY DEF IInv, LogFits, TypeOK, Running, Committing
<1>2. Committers' = Committers /\ pc[p] \notin Running
  BY Zenon DEF IInv, LogFits, TypeOK, Committers, Running, Committing
<1>3. CASE ~MayBegin /\ pc' = [pc EXCEPT ![p] = "asleep"] /\ UNCHANGED outstanding
  <2>1. Runners' = Runners
    BY <1>3, Zenon DEF IInv, LogFits, TypeOK, Runners, Running
  <2>2. Counted' /\ Reserved' /\ Quiet'
    BY <2>1, <1>2, <1>3, Zenon DEF IInv, Counted, Reserved, Quiet, Spare, Tokens
  <2>3. committing \/ outstanding > 0
    <3> SUFFICES ASSUME ~committing, outstanding = 0 PROVE FALSE
      BY DEF IInv, LogFits, TypeOK
    <3>1. lh = <<>>
      BY Zenon DEF IInv, Counted, Quiet
    <3> QED
      BY <3>1, <1>3, Sizes DEF MayBegin, LogFull
  <2>4. SleepersHaveWaker'
    BY <2>3, <1>3, Zenon DEF SleepersHaveWaker
  <2>5. Operations'
    BY <1>3, ZenonT(30) DEF IInv, LogFits, TypeOK, Operations, Running
  <2>5a. CommitInv' /\ BootInv'
    BY <1>3 DEF IInv, LogFits, TypeOK, CommitInv, BootInv, LoggedUpTo, InstalledUpTo, Content
  <2>6. HeaderInv' /\ Clean'
    BY <1>3 DEF IInv, LogFits, TypeOK, HeaderInv, Clean, Content, Held
  <2> QED
    BY <1>1, <2>2, <2>4, <2>5, <2>5a, <2>6, Zenon DEF IInv, LogFits
<1>4. CASE MayBegin /\ pc' = [pc EXCEPT ![p] = "op"] /\ outstanding' = outstanding + 1
  <2>1. Runners' = Runners \cup {p} /\ p \notin Runners
    BY <1>2, <1>4, Zenon DEF IInv, LogFits, TypeOK, Runners, Running
  <2>2. IsFiniteSet(Runners') /\ Cardinality(Runners') = outstanding + 1
    BY <2>1, RunnersFinite, FS_AddElement, Zenon DEF IInv, Counted
  <2>3. Counted'
    BY <2>1, <2>2, <1>2, <1>4 DEF IInv, LogFits, TypeOK, Counted, MayBegin
  <2>4. Reserved'
    <3>1. Cardinality(Spare') \in Nat /\ Cardinality(Spare') <= (outstanding + 1) * MAXOPBLOCKS
      BY <2>2, TokensBound, Zenon DEF Spare
    <3>2. Len(lh) + (outstanding + 1) * MAXOPBLOCKS <= LOGSIZE
      BY <1>4, Sizes DEF MayBegin, LogFull, IInv, LogFits, TypeOK
    <3>3. outstanding = 0 => Len(lh) = 0
      BY <1>4, Zenon DEF MayBegin, IInv, Counted, Quiet
    <3> QED
      BY <1>4, <3>1, <3>2, <3>3, Sizes DEF Reserved, IInv, LogFits, TypeOK
  <2>5. Quiet' /\ SleepersHaveWaker'
    BY <2>1, <1>4 DEF Quiet, SleepersHaveWaker, IInv, LogFits, TypeOK
  <2>6. Operations'
    BY <1>4, ZenonT(30) DEF IInv, LogFits, TypeOK, Operations, Running
  <2>6a. CommitInv' /\ BootInv'
    BY <1>4 DEF IInv, LogFits, TypeOK, CommitInv, BootInv, LoggedUpTo, InstalledUpTo, Content
  <2>7. HeaderInv' /\ Clean'
    BY <1>4 DEF IInv, LogFits, TypeOK, HeaderInv, Clean, Content, Held
  <2> QED
    BY <1>1, <2>3, <2>4, <2>5, <2>6, <2>6a, <2>7, Zenon DEF IInv, LogFits
<1> QED
  BY <1>3, <1>4, Zenon

\* log_write's tests of the space do not panic.
LEMMA ModifyStep ==
    ASSUME IInv, NEW p \in Proc, NEW b \in Block, NEW v \in Value, modify(p, b, v)
    PROVE  IInv'
<1> USE DEF modify, stable, logged
<1>1. p \in Runners /\ boot = "up" /\ ~committing /\ outstanding > 0
      /\ (\A q \in Proc : pc[q] \notin Committing) /\ head = <<>>
  BY OpAlone, Zenon DEF Running
<1>2. ~panicked' /\ panicked' \in BOOLEAN
  <2>1. Len(lh) \in Nat /\ Len(lh) <= LOGSIZE - 2
    BY <1>1, RoomLeft DEF IInv, LogFits, TypeOK
  <2>2. ~(Len(lh) >= LOGSIZE) /\ ~(Len(lh) >= nlog - 1)
    BY <2>1, Sizes
  <2> QED
    BY <2>2, Zenon DEF IInv, LogFits
<1>3. TypeOK'
  BY <1>2, Zenon DEF IInv, LogFits, TypeOK, Running, Committing
<1>4. Runners' = Runners /\ Committers' = Committers
  BY Zenon DEF IInv, LogFits, TypeOK, Runners, Committers, Running, Committing
<1>5. Counted' /\ Reserved' /\ Quiet' /\ SleepersHaveWaker'
  BY <1>1, <1>4, Zenon DEF IInv, Counted, Reserved, Quiet, Spare, Tokens, SleepersHaveWaker
<1>6. Operations'
  BY Zenon DEF IInv, LogFits, TypeOK, Operations, Running
<1>7. Clean'
  <2>1. b \in Held'
    BY Zenon DEF Held, IInv, LogFits, TypeOK
  <2>2. \A c \in Block : c \in Held => c \in Held'
    <3> SUFFICES ASSUME NEW c \in Block, NEW q \in Proc, holds[q] = c PROVE c \in Held'
      BY Zenon DEF Held
    <3>1. q # p
      BY LogConstants, Zenon DEF IInv, Operations
    <3> QED
      BY <3>1, Zenon DEF Held, IInv, LogFits, TypeOK
  <2> QED
    BY <2>1, <2>2, Zenon DEF IInv, LogFits, TypeOK, Clean, Content
<1>8. CommitInv' /\ BootInv' /\ HeaderInv'
  BY <1>1, Zenon DEF IInv, LogFits, TypeOK, CommitInv, BootInv, HeaderInv, Committing
<1> QED
  BY <1>2, <1>3, <1>5, <1>6, <1>7, <1>8, Zenon DEF IInv, LogFits

\* Log absorption: a block is in the log once.
LEMMA AbsorbedOnce ==
    ASSUME NEW b \in Block, lh \in Seq(Block), IsInjective(lh)
    PROVE  /\ Absorbed(b) \in Seq(Block) /\ IsInjective(Absorbed(b))
           /\ Range(Absorbed(b)) = Range(lh) \cup {b}
           /\ Len(Absorbed(b)) = IF b \in Range(lh) THEN Len(lh) ELSE Len(lh) + 1
<1>1. CASE b \in Range(lh)
  BY <1>1, Zenon DEF Absorbed, Range
<1>2. CASE b \notin Range(lh)
  <2>1. Absorbed(b) = Append(lh, b)
    BY <1>2, Zenon DEF Absorbed
  <2>2. Append(lh, b) \in Seq(Block) /\ Len(Append(lh, b)) = Len(lh) + 1
    OBVIOUS
  <2>3. IsInjective(Append(lh, b))
    BY <1>2 DEF IsInjective, Range
  <2>4. Range(Append(lh, b)) = Range(lh) \cup {b}
    <3>1. DOMAIN Append(lh, b) = DOMAIN lh \cup {Len(lh) + 1}
      OBVIOUS
    <3>2. Append(lh, b)[Len(lh) + 1] = b /\ \A i \in DOMAIN lh : Append(lh, b)[i] = lh[i]
      OBVIOUS
    <3> QED
      BY <3>1, <3>2, Zenon DEF Range
  <2> QED
    BY <1>2, <2>1, <2>2, <2>3, <2>4, Zenon
<1> QED
  BY <1>1, <1>2, Zenon

\* log_write appends a block at most once and takes a token for a block that is new to
\* its operation.
LEMMA LogWriteStep ==
    ASSUME IInv, NEW p \in Proc, log_write(p)
    PROVE  IInv'
<1> DEFINE b == holds[p]
<1> USE DEF log_write, stable
<1>1. p \in Runners /\ boot = "up" /\ ~committing /\ outstanding > 0
      /\ (\A q \in Proc : pc[q] \notin Committing) /\ head = <<>>
  BY OpAlone, Zenon DEF Running
<1>2. /\ b \in Block /\ IsFiniteSet(wrote[p])
      /\ Cardinality(wrote[p]) \in Nat /\ Cardinality(wrote[p] \cup {b}) <= OpBlocks
      /\ wrote[p] \subseteq Range(lh)
  BY FS_CardinalityType, Zenon DEF IInv, Operations
<1>3. /\ lh' \in Seq(Block) /\ IsInjective(lh') /\ Range(lh') = Range(lh) \cup {b}
      /\ Len(lh') = IF b \in Range(lh) THEN Len(lh) ELSE Len(lh) + 1
  BY <1>2, AbsorbedOnce, Zenon DEF IInv, LogFits, TypeOK
<1>4. Len(lh') <= nlog - 1
  BY <1>1, <1>3, RoomLeft, Sizes DEF IInv, LogFits, TypeOK
<1>5. TypeOK'
  BY <1>2, <1>3, Zenon DEF IInv, LogFits, TypeOK, Running, Committing, Pinned
<1>6. Runners' = Runners /\ Committers' = Committers
  BY Zenon DEF IInv, LogFits, TypeOK, Runners, Committers, Running, Committing
<1>7. Counted' /\ Quiet' /\ SleepersHaveWaker'
  BY <1>1, <1>6, Zenon DEF IInv, Counted, Quiet, SleepersHaveWaker
<1>8. wrote'[p] = wrote[p] \cup {b} /\ \A q \in Proc \ {p} : wrote'[q] = wrote[q]
  BY Zenon DEF IInv, LogFits, TypeOK
<1>9. Reserved'
  <2>1. IsFiniteSet(Spare) /\ Cardinality(Spare) \in Nat
    BY RunnersFinite, TokensBound, Zenon DEF Spare
  <2>2. CASE b \in wrote[p]
    <3>1. \A q \in Runners : wrote'[q] = wrote[q]
      BY <2>2, <1>8, Zenon DEF Runners
    <3>2. Spare' = Spare
      BY <3>1, <1>6, Zenon DEF Spare, Tokens
    <3> QED
      BY <2>2, <3>2, <1>1, <1>2, <1>3, <1>6, Zenon DEF IInv, Reserved
  <2>3. CASE b \notin wrote[p]
    <3> DEFINE n == Cardinality(wrote[p]) + 1
    <3>1. Cardinality(wrote'[p]) = n /\ n \in 1 .. MAXOPBLOCKS
      <4>1. Cardinality(wrote[p] \cup {b}) = n
        BY <2>3, <1>2, FS_AddElement, Zenon
      <4>2. n \in 1 .. MAXOPBLOCKS
        BY <4>1, <1>2, Sizes
      <4> QED
        BY <4>1, <4>2, <1>8, SMTT(30)
    <3>2. Spare' = Spare \ {<<p, n>>} /\ <<p, n>> \in Spare
      <4>1. \A k \in 1 .. MAXOPBLOCKS :
                k > Cardinality(wrote'[p]) <=> k > Cardinality(wrote[p]) /\ k # n
        BY <3>1, <1>2
      <4>2. \A q \in Runners \ {p} : wrote'[q] = wrote[q]
        BY <1>8, Zenon DEF Runners
      <4>3. <<p, n>> \in Spare
        BY <3>1, <1>1, <1>2 DEF Spare, Tokens
      <4> QED
        BY <4>1, <4>2, <4>3, <1>6, SMTT(30) DEF Spare, Tokens
    <3>3. Cardinality(Spare') = Cardinality(Spare) - 1
      BY <3>2, <2>1, FS_RemoveElement, Zenon
    <3> QED
      BY <3>3, <2>1, <1>1, <1>3, <1>6, Sizes DEF IInv, Reserved, LogFits, TypeOK
  <2> QED
    BY <2>2, <2>3, Zenon
<1>10. Operations'
  <2>1. IsFiniteSet(wrote'[p]) /\ Cardinality(wrote'[p]) <= OpBlocks
    <3>1. IsFiniteSet(wrote[p] \cup {b})
      BY <1>2, FS_AddElement, Zenon
    <3> QED
      BY <3>1, <1>2, <1>8, SMTT(30)
  <2> QED
    BY <2>1, <1>1, <1>2, <1>3, <1>8, Zenon DEF IInv, Operations, LogFits, TypeOK, Running
<1>11. Clean'
  <2>1. Held \subseteq Held' \cup {b}
    BY Zenon DEF Held, IInv, LogFits, TypeOK
  <2> QED
    BY <2>1, <1>2, <1>3, Zenon DEF IInv, Clean, Content, Pinned
<1>12. CommitInv' /\ BootInv' /\ HeaderInv'
  BY <1>1, Zenon DEF IInv, LogFits, TypeOK, CommitInv, BootInv, HeaderInv, Committing
<1> QED
  BY <1>3, <1>4, <1>5, <1>7, <1>9, <1>10, <1>11, <1>12, Zenon DEF IInv, LogFits

\* The operations that end_op leaves need less; the last one starts the commit.
LEMMA EndStep ==
    ASSUME IInv, NEW p \in Proc, end_op(p)
    PROVE  IInv'
<1> USE DEF end_op, stable, cached, wakeup
<1>1. p \in Runners /\ boot = "up" /\ ~committing /\ outstanding > 0
      /\ (\A q \in Proc : pc[q] \notin Committing) /\ head = <<>>
  BY OpAlone, Zenon DEF Running
<1>2. Len(lh) \in Nat /\ outstanding \in Nat /\ ~panicked' /\ panicked' \in BOOLEAN
  BY <1>1 DEF IInv, LogFits, TypeOK
<1>3. /\ wrote' \in [Proc -> SUBSET Block] /\ wrote'[p] = {}
      /\ \A q \in Proc \ {p} : wrote'[q] = wrote[q]
  BY Zenon DEF IInv, LogFits, TypeOK
<1>4. Runners' = Runners \ {p}
  BY Zenon DEF IInv, LogFits, TypeOK, Runners, Running
<1>5. IsFiniteSet(Runners') /\ Cardinality(Runners') = outstanding - 1
  BY <1>1, <1>4, RunnersFinite, FS_RemoveElement, Zenon DEF IInv, Counted
<1>6. Operations'
  <2>1. /\ pc'[p] \notin Running
        /\ \A q \in Proc \ {p} : pc'[q] = IF pc[q] = "asleep" /\ outstanding' > 0
                                          THEN "retry" ELSE pc[q]
    BY <1>2 DEF IInv, LogFits, TypeOK, Running
  <2>2. IsFiniteSet(wrote'[p]) /\ Cardinality(wrote'[p]) <= OpBlocks /\ holds[p] = NONE
    <3>1. IsFiniteSet({}) /\ Cardinality({}) = 0
      BY FS_EmptySet, Zenon
    <3>2. holds[p] = NONE
      BY Zenon DEF IInv, Operations
    <3> QED
      BY <3>1, <3>2, <1>3, Sizes
  <2> QED
    BY <2>1, <2>2, <1>3, ZenonT(30) DEF IInv, Operations, Running
<1>7. Clean'
  BY DEF IInv, Clean, Content, Held
<1>8. CASE outstanding' = 0
  <2>1. /\ committing' = TRUE /\ tail' = 0
        /\ pc' = [pc EXCEPT ![p] = IF lh = <<>> THEN "committed" ELSE "write_log"]
    BY <1>8
  <2>2. TypeOK'
    BY <2>1, <1>2, <1>3, <1>8, Sizes DEF IInv, LogFits, TypeOK, Running, Committing
  <2>3. Committers' = {p}
    BY <2>1, <1>1, Zenon DEF IInv, LogFits, TypeOK, Committers, Committing
  <2>4. Runners' = {}
    BY <1>5, <1>8, FS_EmptySet, Zenon
  <2>5. Counted' /\ Reserved' /\ Quiet' /\ SleepersHaveWaker'
    BY <2>1, <2>3, <2>4, <1>5, Zenon DEF Counted, Reserved, Quiet, SleepersHaveWaker
  <2>6. HeaderInv' /\ BootInv'
    BY <2>1, <1>1, SMTT(30) DEF IInv, HeaderInv, BootInv
  <2>7. CommitInv'
    BY <2>1, <1>1, <1>2 DEF IInv, LogFits, TypeOK, CommitInv, LoggedUpTo, Committing
  <2> QED
    BY <2>2, <2>5, <2>6, <2>7, <1>2, <1>6, <1>7, Zenon DEF IInv, LogFits
<1>9. CASE outstanding' > 0
  <2>1. /\ committing' = committing /\ tail' = tail
        /\ pc' = wakeup([pc EXCEPT ![p] = "idle"])
    BY <1>9, <1>2
  <2>2. TypeOK'
    BY <2>1, <1>2, <1>3, <1>9, SMTT(30) DEF IInv, LogFits, TypeOK, Running, Committing
  <2>3. Committers' = {}
    BY <2>1, <1>1, Zenon DEF IInv, LogFits, TypeOK, Committers, Committing
  <2>4. Committers = {}
    BY <1>1, Zenon DEF Committers
  <2>5. Runners' # {} /\ outstanding' # 0
    BY <1>2, <1>5, <1>9, FS_EmptySet
  <2>5a. Counted' /\ Quiet' /\ SleepersHaveWaker'
    BY <2>1, <2>3, <2>5, <1>1, <1>5, <1>9, Zenon DEF Counted, Quiet, SleepersHaveWaker
  <2>6. Reserved'
    <3> DEFINE token == <<p, MAXOPBLOCKS>>
    <3>1. token \in Spare
      <4>1. Cardinality(wrote[p]) \in Nat /\ Cardinality(wrote[p]) <= OpBlocks
        BY FS_CardinalityType, Zenon DEF IInv, Operations
      <4> QED
        BY <4>1, <1>1, Sizes DEF Spare, Tokens
    <3>2. Spare' \in SUBSET (Spare \ {token})
      BY <1>3, <1>4 DEF Spare, Tokens, Runners
    <3>3. IsFiniteSet(Spare) /\ Cardinality(Spare) \in Nat
      BY RunnersFinite, TokensBound, Zenon DEF Spare
    <3>4. IsFiniteSet(Spare \ {token}) /\ Cardinality(Spare \ {token}) = Cardinality(Spare) - 1
      BY <3>1, <3>3, FS_RemoveElement, Zenon
    <3>5. Cardinality(Spare') \in Nat /\ Cardinality(Spare') <= Cardinality(Spare) - 1
      BY <3>2, <3>4, FS_Subset, FS_CardinalityType
    <3> QED
      BY <3>3, <3>5, <1>1, <1>2, <1>9, Sizes, SMTT(30) DEF IInv, Reserved
  <2>7. HeaderInv' /\ BootInv'
    BY <2>1, <1>1, SMTT(30) DEF IInv, HeaderInv, BootInv
  <2>8. CommitInv'
    BY <2>1, <1>1, Zenon DEF IInv, LogFits, TypeOK, CommitInv, Committing
  <2> QED
    BY <2>2, <2>5a, <2>6, <2>7, <2>8, <1>2, <1>6, <1>7, Zenon DEF IInv, LogFits
<1> QED
  BY <1>8, <1>9, Zenon

-----------------------------------------------------------------------------
\* The initial state.
LEMMA InitIInv == Init => IInv
<1> SUFFICES ASSUME Init PROVE IInv
  BY Zenon
<1> USE DEF Init
<1>1. TypeOK
  <2>1. Zero \in Value
    BY LogConstants, Zenon
  <2>2. tail \in 0 .. LOGSIZE
    BY Sizes
  <2>3. head \in Seq(Block) /\ lh \in Seq(Block)
    OBVIOUS
  <2>4. pc \in [Proc -> {"idle", "retry", "asleep"} \cup Running \cup Committing]
    BY Zenon
  <2>5. disk \in [Block -> Value] /\ logarea \in [1 .. nlog - 1 -> Value]
    BY <2>1, Zenon
  <2>6. cache \in [Block -> Value \cup {NONE}] /\ holds \in [Proc -> Block \cup {NONE}]
        /\ wrote \in [Proc -> SUBSET Block]
    BY Zenon
  <2>7. committing \in BOOLEAN /\ panicked \in BOOLEAN /\ outstanding \in Nat
    BY Zenon
  <2> QED
    BY <2>2, <2>3, <2>4, <2>5, <2>6, <2>7, Zenon DEF TypeOK
<1>2. Runners = {} /\ Committers = {}
  BY Zenon DEF Runners, Committers, Running, Committing
<1>3. LogFits /\ SleepersHaveWaker
  BY <1>1, LogConstants DEF LogFits, SleepersHaveWaker, IsInjective
<1>4. Counted
  BY <1>2, FS_EmptySet, Zenon DEF Counted
<1>5. Operations
  BY FS_EmptySet, LogConstants DEF Operations
<1>6. Reserved /\ Quiet
  BY <1>2, Zenon DEF Reserved, Quiet
<1>7. Clean
  BY Zenon DEF Clean, Content
<1>8. HeaderInv /\ CommitInv /\ BootInv
  BY LogConstants DEF HeaderInv, CommitInv, BootInv, IsInjective, InstalledUpTo
<1> QED
  BY <1>3, <1>4, <1>5, <1>6, <1>7, <1>8, Zenon DEF IInv

\* A crash leaves the disk as it is and nothing of the memory.
LEMMA CrashStep ==
    ASSUME IInv, crash
    PROVE  IInv'
<1> USE DEF crash, Reset, stable
<1>1. \A q \in Proc : pc'[q] = "idle" /\ holds'[q] = NONE /\ wrote'[q] = {}
  BY Zenon
<1>2. Runners' = {} /\ Committers' = {}
  BY <1>1, Zenon DEF Runners, Committers, Running, Committing
<1>3. LogFits'
  <2>1. lh' \in Seq(Block) /\ IsInjective(lh') /\ Len(lh') <= nlog - 1
    BY LogConstants DEF IsInjective
  <2>2. tail' \in 0 .. LOGSIZE
    BY Sizes
  <2>3. disk' \in [Block -> Value] /\ logarea' \in [1 .. nlog - 1 -> Value] /\ head' \in Seq(Block)
    BY Zenon DEF IInv, LogFits, TypeOK
  <2>4. cache' \in [Block -> Value \cup {NONE}] /\ holds' \in [Proc -> Block \cup {NONE}]
        /\ wrote' \in [Proc -> SUBSET Block]
    BY Zenon
  <2>5. pc' \in [Proc -> {"idle", "retry", "asleep"} \cup Running \cup Committing]
    BY Zenon
  <2>6. panicked' \in BOOLEAN /\ ~panicked' /\ committing' \in BOOLEAN /\ outstanding' \in Nat
    BY Zenon
  <2> QED
    BY <2>1, <2>2, <2>3, <2>4, <2>5, <2>6, SMTT(30) DEF LogFits, TypeOK
<1>4. Counted'
  BY <1>2, FS_EmptySet, Zenon DEF Counted
<1>5. Operations'
  BY <1>1, FS_EmptySet, Sizes DEF Operations, Running
<1>6. Reserved' /\ Quiet' /\ SleepersHaveWaker' /\ CommitInv' /\ Clean'
  BY <1>1, <1>2, Zenon DEF Reserved, Quiet, SleepersHaveWaker, CommitInv, Clean, Content
<1>7. HeaderInv' /\ BootInv'
  BY Zenon DEF IInv, HeaderInv, BootInv
<1> QED
  BY <1>3, <1>4, <1>5, <1>6, <1>7, Zenon DEF IInv

\* IInv is kept by every step.
LEMMA StepIInv == IInv /\ [Next]_vars => IInv'
<1> SUFFICES ASSUME IInv, [Next]_vars PROVE IInv'
  BY Zenon
<1>1. CASE UNCHANGED vars
  <2>1. Runners' = Runners /\ Committers' = Committers /\ Spare' = Spare
    BY <1>1, Zenon DEF Runners, Committers, Spare, Tokens, vars, calls
  <2>2. Counted' /\ Reserved' /\ Quiet' /\ SleepersHaveWaker'
    BY <2>1, <1>1, Zenon DEF IInv, Counted, Reserved, Quiet, SleepersHaveWaker, vars, logged
  <2>3. LogFits' /\ Operations' /\ HeaderInv'
    BY <1>1, ZenonT(30) DEF IInv, LogFits, TypeOK, Operations, HeaderInv, vars, stable,
                               cached, logged, calls
  <2>4. Clean'
    <3>1. cache' = cache /\ disk' = disk /\ lh' = lh /\ holds' = holds /\ boot' = boot
          /\ committing' = committing /\ pc' = pc /\ dirty' = dirty
      BY <1>1, Zenon DEF vars, stable, cached, logged, calls
    <3> QED
      BY <3>1, Zenon DEF IInv, Clean, Content, Held
  <2>5. CommitInv'
    <3>1. pc' = pc /\ lh' = lh /\ tail' = tail /\ logarea' = logarea /\ head' = head
          /\ disk' = disk /\ cache' = cache /\ dirty' = dirty
      BY <1>1, Zenon DEF vars, stable, cached, logged, calls
    <3>2. CommitInv
      BY Zenon DEF IInv
    <3>3. /\ (LoggedUpTo(tail))' <=> LoggedUpTo(tail)
          /\ (LoggedUpTo(Len(lh)))' <=> LoggedUpTo(Len(lh))
      BY <3>1, Zenon DEF LoggedUpTo, Content
    <3>4. /\ (InstalledUpTo(tail))' <=> InstalledUpTo(tail)
          /\ (InstalledUpTo(Len(lh)))' <=> InstalledUpTo(Len(lh))
      BY <3>1, Zenon DEF InstalledUpTo
    <3> QED
      BY <3>1, <3>2, <3>3, <3>4, Zenon DEF CommitInv
  <2>6. BootInv'
    <3>1. pc' = pc /\ boot' = boot /\ tail' = tail /\ head' = head /\ lh' = lh
          /\ disk' = disk /\ logarea' = logarea /\ cache' = cache
          /\ outstanding' = outstanding /\ committing' = committing /\ dirty' = dirty
      BY <1>1, Zenon DEF vars, stable, cached, logged, calls
    <3> QED
      BY <3>1, Zenon DEF IInv, BootInv, InstalledUpTo
  <2> QED
    BY <2>2, <2>3, <2>4, <2>5, <2>6, Zenon DEF IInv
<1>2. CASE \E p \in Proc : begin_op(p) \/ log_write(p) \/ end_op(p)
  BY <1>2, BeginStep, LogWriteStep, EndStep, Zenon
<1>3. CASE \E p \in Proc : commit(p)
  BY <1>3, WriteLogStep, WriteHeadStep, InstallStep, EraseStep, EndCommitStep, Zenon DEF commit
<1>4. CASE \E p \in Proc, b \in Block, v \in Value : modify(p, b, v)
  BY <1>4, ModifyStep, Zenon
<1>5. CASE \E b \in Block : bread(b) \/ recycle(b)
  BY <1>5, CacheStep, Zenon
<1>6. CASE read_head \/ recover \/ crash
  BY <1>6, ReadHeadStep, RecoverStep, CrashStep, Zenon
<1> QED
  BY <1>1, <1>2, <1>3, <1>4, <1>5, <1>6, Zenon DEF Next

\* IInv is an invariant.
THEOREM Invariance == Spec => []IInv
<1> QED
  BY InitIInv, StepIInv, PTL DEF Spec

\* The log never overflows, and log.c's panics are never reached.
THEOREM RoomInLog == Spec => []LogFits
<1>1. IInv => LogFits
  BY Zenon DEF IInv
<1> QED
  BY <1>1, Invariance, PTL

\* Nobody sleeps in begin_op with nobody to wake them.
THEOREM WakersExist == Spec => []SleepersHaveWaker
<1>1. IInv => SleepersHaveWaker
  BY Zenon DEF IInv
<1> QED
  BY <1>1, Invariance, PTL

\* A file system at rest is on disk.
THEOREM DurableAtRest == Spec => []QuiescentDurable
<1>1. ASSUME IInv, boot = "up", outstanding = 0, ~committing
      PROVE  /\ head = <<>> /\ lh = <<>> /\ dirty = {}
             /\ \A b \in Block : Content(b) = disk[b]
  <2>1. Committers = {} /\ Runners = {}
    BY <1>1, Zenon DEF IInv, Counted
  <2>2. lh = <<>> /\ head = <<>>
    BY <1>1, <2>1, Zenon DEF IInv, Quiet, HeaderInv, Committers, Committing
  <2>3. dirty = {}
    BY <1>1, <2>2 DEF IInv, Clean, Range
  <2>4. Held \subseteq {NONE}
    BY <1>1, <2>1, Zenon DEF IInv, Operations, Runners, Running, Held
  <2>5. \A b \in Block : Content(b) = disk[b]
    BY <1>1, <2>3, <2>4, LogConstants, Zenon DEF IInv, Clean
  <2> QED
    BY <2>2, <2>3, <2>5, Zenon
<1>2. IInv => QuiescentDurable
  BY <1>1, Zenon DEF QuiescentDurable
<1> QED
  BY <1>2, Invariance, PTL

-----------------------------------------------------------------------------
\* log.c implements the disk that changes by whole groups of operations, whatever the
\* moment of a crash, one in the middle of recovery included.
THEOREM Refinement == Spec => AtomicOperations
<1>1. Init => Atomic!Init
  <2> SUFFICES ASSUME Init PROVE Atomic!Init
    BY Zenon
  <2>1. Recovered \in [Block -> Value]
    BY InitIInv, RecoveredBlocks, Zenon
  <2>2. Current = Recovered
    BY Zenon DEF Init, Current
  <2>3. Runners = {}
    BY Zenon DEF Init, Runners, Running
  <2> QED
    BY <2>1, <2>2, <2>3, Zenon DEF Atomic!Init, Runners, Current
<1>2. IInv /\ IInv' /\ [Next]_vars => [Atomic!Next]_(Atomic!diskVars)
  <2> SUFFICES ASSUME IInv, IInv', [Next]_vars PROVE [Atomic!Next]_(Atomic!diskVars)
    BY Zenon
  <2>1. CASE UNCHANGED vars
    <3>1. Recovered' = Recovered /\ Current' = Current
      BY <2>1, Unseen, Zenon DEF vars
    <3>2. Runners' = Runners
      BY <2>1, Zenon DEF vars, Runners
    <3> QED
      BY <3>1, <3>2, Zenon DEF Atomic!diskVars, Runners, Current
  <2>2. CASE \E p \in Proc : \/ begin_op(p) \/ log_write(p) \/ end_op(p)
                             \/ \E b \in Block, v \in Value : modify(p, b, v)
    BY <2>2, OperationRefines, Zenon
  <2>3. CASE \E p \in Proc : commit(p)
    BY <2>3, CommitRefines, Zenon
  <2>4. CASE (\E b \in Block : bread(b) \/ recycle(b)) \/ read_head \/ recover \/ crash
    BY <2>4, RecoveryRefines, Zenon
  <2> QED
    BY <2>1, <2>2, <2>3, <2>4, Zenon DEF Next
<1>3. Spec => Atomic!Spec
  BY <1>1, <1>2, Invariance, PTL DEF Spec, Atomic!Spec
<1> QED
  BY <1>3, Zenon DEF AtomicOperations
=============================================================================
