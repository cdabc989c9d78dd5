# TLA+ models of the cs537 projects

The repository holds solutions to the projects of an operating systems course:
user programs in C (p1, p2B, p3a, p5) and changes to the xv6 kernel (p1B, p2A,
p3b, p4).  Each project is a system of its own; the kernels share the xv6 base.
This directory models the parts whose correctness depends on interleavings,
limits or long histories, checks them with TLC on small instances, and proves
most of the safety results with TLAPS for instances of every size.

All definitions follow the C source.  `PROJECT.json` gives, for each of them,
the lines it translates.  Names are those of the code where TLA+ allows it.
Definitions marked as mutants are wrong on purpose: each one replaces a definition
by a plausible bug, to show that a property notices it.

## 1. Inventory

| Part | State | Operations | What makes it hard | Modules |
|---|---|---|---|---|
| p3b ticket lock (`ulib.c`, `x86.h`) | `ticket`, `turn`; locals of the threads | `lock_acquire`, `lock_release` | release is a plain load and store; counters wrap | `TicketLock`, `FifoLock`, `TicketLockProofs` |
| p3a map phase (`mapreduce.c`) | `mQueue`, `mapTaskCount`, the mappers | `MR_Run`, `submitMapTask`, `startMapThread` | signal after unlock, `if` around the wait, one final task for all | `MapPool`, `MapPoolProofs` |
| p3a reduce phase | `arr_part` lists, `rQueue`, `pLocks`, the reducers | `insertionSort`, `submitReduceTask`, `startReduceThread`, `Get`, `findPrev` | `MR_Run` walks lists that reducers unlink | `ReducePhase` |
| p3a `MR_Run`, `MR_Emit` | both of the above | `MR_Emit`, `add` | composition | `MapReduce` |
| p3a hash map (`hashmap.c`) | `contents`, `capacity`, `size` | `MapPut`, `MapGet`, `resize_map` | probing around the end, rehash | `HashMap`, `KeyValueMap`, `HashMapProofs` |
| p3b threads (`proc.c`, `sysproc.c`, `exec.c`, `init.c`) | `ptable`, page directories | `fork`, `clone`, `exit`, `wait`, `join`, `kill`, `growproc`, `exec` | shared address spaces, orphans, exits between scan and sleep | `Threads`, `ThreadsProofs` |
| p2A scheduler (`proc.c`, `sysproc.c`, `sysfile.c`, `trap.c`) | `ptable` with tickets, boosts, sleep fields, `ticks` | `scheduler`, `hold_lottery`, `wakeup1`, `sys_sleep`, `settickets`, clock | arithmetic at `int` width, a wakeup that leaves some asleep | `Lottery`, `LotteryProofs` |
| p4 page encryption (`vm.c`, `trap.c`, `console.c`) | page tables, frames | `mencrypt`, `mdecrypt` in the page fault, `getpgtable`, `dump_rawphymem`, `sbrk`, `fork`, `exit` | a page can be neither present nor absent; faults inside the kernel | `PageCrypt`, `UserMemory` |
| xv6 log (`log.c`) | on-disk log, header, cached buffers | `begin_op`, `log_write`, `end_op`, `commit`, recovery | crashes between any two disk writes, a commit without the lock | `Log`, `AtomicDisk`, `LogProofs` |
| xv6 files and pipes (`file.c`, `pipe.c`, `sysfile.c`) | `ftable`, descriptors, ring buffers | `pipe`, `dup`, `close`, `fork`, `exit`, `kill`, `piperead`, `pipewrite`, `pipeclose` | shared ends, sleep and wakeup, counters that wrap | `Files`, `Channels`, `FilesProofs` |
| xv6 inodes and directories (`fs.c`, `sysfile.c`) | inode cache, link counts, directories | `namex`, `open`, `create`, `mkdir`, `link`, `unlink`, `chdir`, `close`, `iput` | locks let go of and taken again in the middle of a call | `Inodes` |
| p5 `runscan.c` | a disk image, tables of names | directory scan, copying | old entries half overwritten, holes, indirect blocks | `RunScan` |
| p3b `thread_create`, `thread_join` | the `malloc` free list | wrappers of `clone`, `join` | `free` of an address `malloc` did not return | not modelled |
| p2B `mysh.c` | alias list, line buffers | alias, unalias, run, redirect | fixed buffers, failing `fork` | not modelled |
| p1B `getiocounts` | two counters per process | `getiocounts` | little | not modelled |
| xv6 buffer cache, disk queue, spinlocks, `kalloc` | | | below the steps of the kernel modules | not modelled |
| xv6 devices, boot, user programs; p1 utilities; p3a drafts | | | no state of their own that outlives a call, or hardware | not modelled |

The hazards found during the survey, each at its source line, are in
`PROJECT.json` with the properties that cover them.

Correctness, per part.  Ticket lock: mutual exclusion, first come first served,
every waiter is served.  Map reduce: every word is counted once and `MR_Run`
returns.  Hash map: `MapGet` returns what was put last.  Threads: no exit is
missed, no process is without a live parent, memory lives as long as its users.
Scheduler: the share of a process is its tickets, `sleep(n)` ends on time, a
wakeup wakes.  Page encryption: programs cannot tell that it happens.  Log: a
crash leaves all of an operation or none of it.  Pipes: a queue of bytes, ends
open as long as somebody has them, nobody asleep without cause.  Inodes:
references and links are exact, and what nothing refers to is freed.  `runscan`:
a file is recovered byte for byte, under a name it had.

## 2. Modules and the code

**TicketLock** (`p3b/xv6-public/ulib.c:129-152`).  `Draw` is the fetch-and-add of
`lock_acquire`, `Poll` and `Wake` its loop around `sleep(1)`, `Load` and `Store`
the two halves of `lk->turn = lk->turn + 1`.  Both counters are words of
`Modulus` values.  `FifoLock` is the abstract lock: a line of threads whose head
holds it.  The mapping computes the line from the distance of each thread's
number to `turn`.

**MapPool** (`p3a/mapreduce.c`).  A critical section under `mutexQueue` is one
step.  The signal of `submitMapTask` comes after the unlock and is its own step.
A mapper that leaves `pthread_cond_wait` does not test `mapTaskCount` again.
`SpuriousWakeups` says whether POSIX's permission to wake without a signal is
used.

**ReducePhase**.  The partition lists are kept by their pointers, and an unlinked
node keeps its `next_key`.  `MR_Run` reads one pointer per step without a lock
(`Advance`).  `search` goes along a list one node per step, under the lock of its
partition, with the globals `head` and `current` that every search uses, whatever
its partition.  `Cell` says where `current` is: in memory, or in a register of the
thread when the build is optimised.  The variable `build`, which never changes,
fixes that, the number of partitions and the partition function.  A reducer holds
`pLocks[p]` from `LockPartition` to the end of its `Get`.  `MR_Run` is given any
number of the reducers, from one up.

**MapReduce** extends both.  Mappers emit the words of their file: `MR_Emit` takes
the partition's lock, `WalkInAdd` is a step of the search in `add`, and `FinishEmit`
adds the value or a node.  `ReducePhase` starts from the lists that remain.

**HashMap**.  Slots, capacity and size as in the code; the FNV hash is any
function of the key.  `resize_map` is a recursive function of the old slot its loop
has come to.  It implements `KeyValueMap`.

**Threads** (`p3b/xv6-public/proc.c`).  The process table slot by slot.  Work
under `ptable.lock` is one step; `fork`, `clone` and `growproc`, which drop the
lock or never take it, are two.  `Habits` names what programs do beyond the
disciplined use of threads that the tests show: leaving threads unjoined
(`abandon`), threads that themselves grow, fork or exec (`nested`), `clone` with
a stack outside the process (`badstack`), and `kill`.  The variable `program`,
which never changes, fixes the habits and the size of the table.

**Lottery** (`p2A/xv6-public/proc.c`).  One CPU, as in the Makefile.  The random
number is any number.  `ticks` has `TickValues` values and `int` ends at
`IntMax`.  `TicketsHeld` is the set of the tickets of the RUNNABLE processes, one by
one: the draw is said to be fair while there are no more of them than an `int` counts.

**PageCrypt** (`p4/vm.c`).  Page tables entry by entry with `PTE_P`, `PTE_E` and
`PTE_U`, and frames with the bytes that are in memory.  What an access does is a
function on the machine (`UserTouch`, `KernelTouch`), because several calls touch
a page before they go on.  Memory counts in units, a page has two; `sbrk` may end
inside a page.  `UserMemory` is the abstract memory: private images that only
stores, `sbrk`, `fork` and `exit` change.  The mapping reads encrypted pages
through the XOR.  The variable `workload` fixes which calls are made.

**Log** (`p4/log.c`; the text is the same in every kernel).  Each write of a disk
block, in `write_log`, `write_head`, `install_trans` and in recovery, is a step,
and `crash` may come between any two: it empties the cache and the header in
memory, and the machine recovers.  A changed buffer stays in the cache because
`log_write` makes it `B_DIRTY`; any other may be recycled at any time.
`AtomicDisk` is the abstract disk: operations write, and what a crash would leave
changes only while no operation is open, by all the writes made so far.  The
mapping takes for durable what recovery would install from the header on disk.

**Files** (`p1B/xv6-public/file.c`, `pipe.c`, the descriptor calls of `sysfile.c`).
A section under `ftable.lock` or the pipe's lock is a step; `fileclose` frees the
entry in one and closes the pipe in another.  `nread` and `nwrite` wrap at
`UWRAP`.  `Channels` is the abstract pipe, an unbounded queue; the mapping reads the
bytes between `nread` and `nwrite` out of the ring (`Contents`), and the open ends
out of the flags (`OpenEnds`).  Bytes leave a queue only by being read, or when the
last of its two ends is closed.

**Inodes** (`p1B/xv6-public/fs.c`, `sysfile.c`).  A call is a sequence of steps
from lock to lock (`pc`), with the inodes it holds references to in its record.
`iput` looks at `ref` under the inode's lock and drops its reference after it has
let go of it: two steps.

**RunScan** (`p5/runscan.c`).  Directory blocks are arrays of four-byte words.
`addEntry` and `removeEntry` change them as ext2 does and leave old words behind;
then the two passes of `main` run, an inode per step.  A word means what its
position makes of it: read as an inode number, the letters of a name are a number
beyond the table, or some inode's when there are only one or two; read as a
length they are anything in `Letters`.  A file is its `i_block` with the blocks of
pointers behind it; the copying goes through direct, single and double indirect
blocks in the nested loops of the code (`Reached`), and is compared with what ext2
says about the block of each position (`BlockOf`).  There is one output directory:
`ByNumber` and `ByName` write to it in the order of `main`, and a name may be
`file-2`, which is also the output of inode 2.

## 3. Runs

Runs that pass:

| Run | Instance | Shows |
|---|---|---|
| `ticket_lock` | 3 threads, words of 4 values | mutual exclusion, `NumbersInService` (no number skipped or given twice), every waiter served, implements `FifoLock` |
| `mapreduce` | 2 mappers, 1 or 2 reducers, 2 files, 4 words, spurious wake-ups; an optimised build with 2 partitions and an unoptimised one with 1 | the queue holds the untaken files in order, no file taken twice, the partition function set in time, lists in agreement with the files, `MR_Run`'s unlocked walk pushes every key once, counts right, and with one reducer `MR_Run` returns |
| `hash_map` | 5 keys, 3 to 12 slots | `MapGet` right, a free slot remains, implements `KeyValueMap` |
| `threads` | 4 slots with disciplined programs, 3 slots with the largest sets of habits a property allows | no missed exit and live parents whatever programs do; memory owned, no panic, sizes agree, nobody waits for a child that cannot exit, each for all habits but the ones the property names |
| `lottery` | 3 slots, `ticks` wraps | the draw is fair while the sum of the tickets is an `int`, `sleep` ends on time, a wakeup wakes everybody who was not killed |
| `page_crypt` | 2 processes, or 1 with `dump_rawphymem` or with `getpgtable`; 8 frames | frames conserved, present xor encrypted, refines `UserMemory`; `dump_rawphymem` delivers, to a buffer at any offset, all but what falls in an encrypted second page; `getpgtable` stays in its buffer when asked for an entry or more |
| `log` | 3 processes, 3 blocks, a log of 3 data blocks | the log never overflows, no panic, nothing is left to recover when nothing runs, a sleeper has somebody to wake it, implements `AtomicDisk` |
| `files` | 3 processes, 2 files, a pipe of 2 bytes, counters of 4 values | no freed pipe in use, whatever is shared, ends open exactly while somebody has them, no wakeup lost but one, implements `Channels` (no byte lost before both ends are closed) |
| `inodes` | 2 processes, 3 inodes, 4 calls on `a`, `b`, `a/b` | references and links exact, nothing points at a free inode, no panic, what nothing refers to is free unless its last two `iput`s overlapped |
| `runscan` | 4 inodes, 2 blocks of 16 words, 4 names of 1 to 3 words, two of them outputs of other inodes, 5 changes; files with every pattern of missing blocks | contents exact, names only ones that were entered, live entries of the first block met when all names take the same room |

Runs that show a disagreement between the code and what the repository says of
it (quoted under "findings" in `PROJECT.json`):

| Run | The code |
|---|---|
| `map_phase_loses_files` | a late signal makes a mapper take an empty queue for the end; with one mapper the remaining files are never mapped |
| `lottery_lost_wakeup` | a process killed in `sleep(n)` keeps `sleepticks` and misses its next wakeup |

Other behaviour of the code that the models contain and that limits what the
passing runs can claim:

* Two waiting reducers: the one that reads the final task leaves without waking
  the other (`mapreduce.c:87`; the mappers' code at line 65 signals), and
  `MR_Run` waits in `pthread_join` for ever.  `MR_RunReturns` needs one reducer, and
  would not notice if more of the reducers' code went wrong in this way.
* `search` keeps its place in the globals `head` and `current`, and the locks are
  per partition.  Compiled without optimisation and with more than one partition,
  two searches use one `current`, and words are lost.  `SearchPrivate`, an
  assumption on the builds, excludes this one: in the repository only
  `test-mapreduce.sh:170,261,379` defines `NUM_REDUCERS`, always with `-O`, under
  which `current` stays in a register for the length of a search, and every other
  build has one partition.  `ListsMatchFiles`, `CountsMatchFiles` and
  `WalkPushesEachKeyOnce` are about the builds that are left.
* `iput` reads `ref` and decrements it under different holds of `icache.lock`.
  When two processes drop the last two references to an unlinked file, both read
  2, neither frees the inode, and it stays allocated with no link and no
  reference; `p1B/xv6-public/fs.c:119-120` says "iput() frees if the reference and
  link counts have fallen to zero".  `UnusedIsFree` excepts the inodes whose last
  two `iput`s overlapped.
* `create` ends with `iunlockput(dp)` for the parent while it holds the new
  inode's lock, and `iput` takes the parent's lock again.  If another process has
  meanwhile locked the parent in `unlink` of the same name and waits for the new
  inode, both wait for ever.  The `inodes` run contains this state, which is why
  it does not check for deadlock.
* A process whose working directory has been removed can still look up `..` in it.
  The parent may have been removed and freed as well, and `ilock` panics ("ilock: no
  type").  `NoDangling` is about paths without `.` and `..`.
* `begin_op` reserves against `LOGSIZE`, but one of the `nlog = LOGSIZE` blocks is
  the header.  Three operations that each write all of their `MAXOPBLOCKS = 10`
  blocks log 30, one more than there is room for, and `log_write` panics.
  `LogFits` is about operations that write at least one block less than they may
  (`OpBlocks < MAXOPBLOCKS`).
* A writer that finds itself killed in a pipe it has just filled returns without
  waking the readers, which sleep on beside its bytes; `SleepersJustified`
  excepts this case.  A `kill` between the test of `killed` and the sleep leaves
  the process asleep until its peer comes.
* `runscan` reads every directory block from byte 24, so that the first entries of
  a second block are skipped or met in their middle; it steps by the length of
  names, so that a shorter name in the place of a longer one hides the entries
  behind it; it never reads the last inode; the holes of a file close up in the
  copy.  A removed entry with its inode number cleared ends the walk of its block,
  so that the entries behind it are not met.  An inode whose name is
  `file-<i>.jpg` for an earlier `i` truncates the copy of inode `i`;
  `FilesRecovered` excepts that copy, and files with holes.  Where the walk is out
  of step, a name that ends in one or two letters can be taken for an inode
  number, and the file gets a name that is none; if the name cannot be opened, the
  program ends there.  `NamedOutputs` is about names that do not end so,
  `LiveNamesFound` about names of the same room. The model contains the other
  cases, and both fail in them.
* `p3b/xv6-public/user.h:4-5` swaps the comments on the two fields of `lock_t`.
* A thread that is not joined before its process ends goes to init, whose `wait`
  skips it: its slot is never freed, and it runs on in an address space that has
  been freed.  So does the thread of a killed process.  `MemoryOwned` needs programs
  that join and that are not killed.
* `sbrk` in a thread does not reach its parent and siblings; `SizesAgree` needs
  programs in which only the main thread grows the process.
* A `clone` whose `copyout` fails leaves an EMBRYO slot, for which the parent's
  next `wait` sleeps; `WaitersHaveChildren` needs valid stacks.
* `settickets` can make the sum of the tickets overflow, and nobody is scheduled.
  `DrawIsFair` is about sums that fit.  A tick asleep can earn two boosts, one
  from `wakeup1` and one from the lottery.
* `dump_rawphymem` has only the first page of its buffer decrypted.  What it
  copies to an encrypted second page is later read inverted; `DumpDelivers` is
  about the bytes in the first page and in a second one that is not encrypted.
  `getpgtable` for 0 entries writes all of them, so `EntriesInBuffer` is about one
  or more.
* An encrypted page that began with 0xFF, a page fault of a program on an address
  it does not have, and a page fault in `consoleread` or `consolewrite` stop the
  machine; `RefinesUserMemory` is about the time before.

The type invariant of a module is a conjunct of one of its safety invariants, or of
the inductive invariant that is proved.

### Bounds

* `Modulus = 4` with three threads lets both counters wrap while threads wait;
  the numbers of waiting threads lie on both sides of the wrap.
* Two mappers and two files: one thread can wait while the other holds a task,
  and a file is still to be pushed when the first one is done.  The proofs cover
  every number of both.  `QueueSize` is the least the code needs; running past
  1000 entries is listed as a hazard and excluded by an assumption.
* Three keys in one partition, for an unlink in front of, at and behind `MR_Run`'s
  pointer; the fourth makes the second partition non-empty.  The build with two
  partitions lets searches in different partitions overlap, the one with one
  partition keeps `current` in memory.  With two reducers one
  can unlink while the other waits for the partition's lock.
* The hash values collide, wrap around the end of the table and are separated by
  a resize.
* Four slots: init, a shell, a process and a thread.  With habits, three slots keep
  the state space small and still hold a thread of the shell; only the largest sets
  of habits a property allows are run, because fewer habits give fewer behaviours.
  The view identifies states that differ in what freed slots still hold, which no
  step reads.
* `ticks` starts next to its wrap.  With 14 tickets and `IntMax = 31` two processes
  fit and three, or a boosted one and another, overflow.  `MaxTicks` bounds the
  timer interrupts and `MaxBoost` the boosts.
* Eight frames are just enough for a process with a heap page and its child.
  With seven no process with an encrypted heap page can fork, and a `mappages`
  that forgets `PTE_E` goes unnoticed.  Bytes are 0 and 255, each the complement
  of the other.  Processes share no page, so the two calls that only read or
  write one address space are checked with one process, `dump_rawphymem` with
  buffers at both ends of a page.  All addresses lie under the one page table that
  `exec` makes: `uva2ka` does not test what `walkpgdir` returns, and an address
  without a page table would be a null pointer to it.
* Three processes at the log: two in operations and one that has to wait, with
  `LOGSIZE = 2 * MAXOPBLOCKS`, so that the reservation is what stops it.
  Operations and crashes go on for ever; the run is not cut.
* A pipe of two bytes and a message of three: a write must sleep half way.
  Counters of four values wrap every other write.  Two entries in the file table
  are the two ends of one pipe, and a second pipe must wait for the first one's.
* Three inodes and `MaxCalls = 4`: the root, a directory and a file or a second
  directory; two calls that set the scene and two that overlap.
* A directory block has room for two or three entries, so that a third or fourth
  opens the second block; five changes are enough to remove an entry, put a
  shorter one in its place and leave a third behind it.  Files have one direct
  block, a single indirect one with two entries and a double one with two blocks of
  two.  Of the two names that are outputs of other inodes, one is of an inode that is
  copied before the file with the name and one of an inode that is copied after it.

Deadlock checking is off where the system may stop: after `MR_Run` has returned
or can no longer return, after a panic, when a bound on ticks, calls or changes is
reached, when every process has exited (`files`), and in the deadlock of `create`
and `unlink` described above.

### Fairness

* Ticket lock: weak fairness of each thread's steps other than `Draw`.  The
  kernel keeps scheduling runnable threads, `sleep(1)` ends, and a program leaves
  its critical section.
* `MapReduce`: weak fairness of `Work`, all steps but spurious wake-ups.  No step
  can be taken for ever, so this says no more than that threads that can run do.
  A thread in `pthread_cond_wait` has no fair step: only a signal moves it.
* The other modules state safety only.  The lottery guarantees no process the CPU,
  xv6's sleep and wakeup guarantee no process its turn, and so there is no
  fairness to assume; that sleepers have a cause and a waker is stated as
  invariants (`NoMissedExit`, `SleepersHaveWaker`, `SleepersJustified`).

## 4. Proofs

Every theorem holds for all values of the constants that satisfy the named ASSUME of
the module it is about, and every one of those is evaluated by a run.  Each proof module
has the same plan: definitions that strengthen the safety properties to an inductive
invariant, lemmas about the operators, a lemma per action, the theorem `Invariance`, and
then the properties of the runs as consequences.

**TicketLockProofs**, for every finite set of threads and every word with at least as
many values as threads (`ThreadsFinite`, `ModulusAssumption`).  Mutual exclusion is not
inductive: two threads must not hold equal numbers, and the value `lock_release` loaded
must still be `turn` when it is stored.  The invariant is
`IInv == TypeOK /\ NumbersInService /\ HolderServed`.  `NumbersInService` says that the
numbers drawn and not yet served are exactly those from `turn` up to `ticket`, one for
each thread; it gives distinctness across the wrap.  Theorems: `TypeCorrect`, `Mutex`,
`NumbersTracked`, and `Refinement`: the lock implements `FifoLock`.  `Draw` adds the
thread at the end of the line because its number is as far from `turn` as the line is
long, and `Store` moves every number one place nearer.

**MapPoolProofs**, for every set of mappers and every number of files that fits the
queue (`MapConstants`), with or without spurious wake-ups.  The invariant is
`MInv == MapTypeOK /\ PhaseInv /\ QueueIsRest /\ FilesTakenOnce`.  `QueueIsRest`
alone says which task `mQueue[0]` is, `PhaseInv` ties the number of pushes to
where `MR_Run` is, and together they show that the task taken is new.  Theorems:
`TypeCorrect`, `QueueInOrder`, `TakenOnce`, `PartitionerInTime`.

**HashMapProofs**, for any keys, any hash function and any initial capacity from three
up (`MapConstants`).  The invariant says of the table that each key has one pair and
that a search from the hash of a key comes to its pair before it comes to a free slot
(`Sound`), and that `size` counts the pairs and is less than `capacity`.  A put stores at
the first free slot, which breaks nobody's path; `resize_map` is followed turn by turn:
after n turns the new table is sound and has exactly the pairs of the first n old slots
(`Moved`), and since what `MapGet` returns depends only on the pairs of a sound table
(`SamePairs`), it is the same after the resize.  Theorems: `SlotsKept` (`SlotsRight`) and
`Refinement`: the hash map implements `KeyValueMap`.

**ThreadsProofs**, for any number of slots, with more page directories than slots
(`ThreadsConstants`).  The invariant is in two layers.  What holds whatever programs do:
who is in which call, a half-made slot is nobody else's, everybody has a living parent,
init is always there (`TableInv`, `MakingInv`, `InitInv`).  What holds for programs
without certain habits, each as an implication: every page directory in use has one
owner and maps what the owner's size says (`OwnersInv`), and threads agree with their
parents (`ThreadsInv`).  Theorems: `ExitsNoticed`, `NobodyOrphaned`, `WaitersServed`,
`OneOwner`, `SizesKept`, which are all the properties of the run `threads`.

**LotteryProofs**, for any number of slots, any width of an `int` and of `ticks`, any
tickets and naps (`LotteryConstants`); the counter may wrap, once, in a history of
`MaxTicks < TickValues` interrupts.  The invariant says of each live process that it is
in `sys_sleep` with the time since the tick it came in (`Napping`), or has no
`sleepticks` left over unless it was killed.  Theorems: `SleepsOnTime` (`NoOversleep`),
`LiveWoken` (`WakeupWakesLive`) and `FairDraw` (`DrawIsFair`).  For the last,
`total_tickets` and the partial sums that `hold_lottery` walks along are shown, slot by
slot, to be the number of tickets held up to that slot (`Upto`, `TotalFacts`) as long as
the sum is an `int`; the numbers that make a process win are then an interval as long as
its share (`OwnsItsShare`).  That one process runs at a time and that everybody has a
ticket is a second invariant, `TableInv`.

**LogProofs**, for finitely many processes, any blocks and any log of at least
`2 * MAXOPBLOCKS`, as long as operations write less than they may
(`LogConstants`, `OpBlocks < MAXOPBLOCKS`; with equality `log_write` can panic, see
above).  `LogFits` needs to know what the running operations may still write: one token
for each such block, and the log has room for all tokens (`Reserved`).  `CommitInv` and
`BootInv` say how far a commit or a recovery is and what is already in its place;
`Clean` says that a buffer that may be recycled is as its block on disk.  Theorems:
`RoomInLog`, `WakersExist`, `DurableAtRest`, and `Refinement`: with crashes between any
two disk writes the log implements `AtomicDisk`.  Only the write of the header changes
what recovery would restore.

**FilesProofs**, for finitely many processes, any descriptors, files
and pipes, and counters whose wrap is a multiple of the ring's size and larger
(`FileConstants`).  `ref` is the number of tokens, one for each descriptor (`FileInv`);
each end of a pipe is one entry of `ftable` or one `pipeclose` on its way (`EndInv`,
`OpenInv`); a process in a call holds the end it uses (`CallInv`).  Theorems: `NoneFreed`,
`EndsTold`, `SleepersKnown`, and `Refinement`: the pipes implement the queues of
`Channels`.  For the last, it is shown that byte k after `nread` is at the same
place of the ring before and after a wrap of the counter, so that a write appends to
`Contents` and overwrites nothing in it, and a read drops its head; `pipeclose` is
the close of an open end, and empties the queue exactly when it is the last.

What these modules know about recursive functions (`resize_map`, the sums of the lottery)
is proved by the least counterexample: `LeastExists` takes it from the well-foundedness
of the naturals, and so no theorem with an operator parameter is needed.

Only model-checked:

* liveness, `EventuallyServed` and `MR_RunReturns`, which is out of the prover's reach;
* the reduce phase and its composition with the map phase (`ListsMatchFiles`,
  `CountsMatchFiles`, `WalkPushesEachKeyOnce`): lists are followed through pointers, and
  the proof would need an induction along the list for every step;
* `PageCrypt` (`FramesConserved`, `RefinesUserMemory`, `DumpDelivers`,
  `EntriesInBuffer`): what an access does is a function on the whole machine, applied
  several times in one step;
* `Inodes` (`RefsCounted`, `LinksCounted`, `NoDangling`, `UnusedIsFree`) and `RunScan`
  (`FilesRecovered`, `LiveNamesFound`, `NamedOutputs`), whose walks over directory
  blocks need a proof about every arrangement of old and new entries in a block.

## 5. Left out, and why

* `exec` in `PageCrypt`: it builds a fresh image and frees the old one as `exit`
  does.  The contents of a `pt_entry` are any byte.
* Open files, pids and the user stack in `Threads`; `runticks` and `getpinfo` in
  `Lottery`: no property depends on them.
* `MapGet` next to a `MapPut`: every program calls it after the threads that put
  have been joined.
* `fork` by a thread while another shrinks the memory is in `Threads` (`nested`);
  `copyuvm` can panic there, and `SizesAgree` does not exclude it.
* A second `MR_Run` in one process (`wordcount_multi.c`), which starts from the
  queues the first one left.
* Builds of `mapreduce.c` with several partitions and without optimisation, whose
  searches share `current` (`SearchPrivate`, see section 3).
* A failing `pthread_create` in `MR_Run`: `mapT[i]` stays uninitialised, and
  `pthread_join` reads it.
* In `Inodes`, paths without an element (`/` or the empty string): for `nameiparent`
  of one, `namex` gives its reference back and fails (`fs.c:652-655`).
* Page tables themselves, kernel frames and device code.
* In `Log`, how `bio.c` finds a buffer, and the request queue of `ide.c`: a disk
  write is one step.  In `Inodes`, what files contain (`bmap`, `readi`, `writei`),
  `mknod`, and the references that `fork` and `exit` make and drop.  In `Files`,
  files that are inodes, and which number a descriptor has.  In `RunScan`,
  directories with indirect blocks, whose three loops have the same body, and
  the arithmetic of `read_ext2.c`.
* `i_num` and `filenames` in `runscan.c` hold ten times the block size; nothing
  checks the count.

Not modelled at all:

* `mysh.c`: one process that parses lines, calls `fork`, `execv` and `waitpid` in
  sequence and keeps a list of aliases.  Nothing runs next to it.
* `thread_create` and `thread_join`: they add `malloc` and `free` to calls that
  `Threads` has.  `thread_join` frees an address that is not the one `malloc`
  returned, so the model that would say something is one of `umalloc.c`.
* The counters of `getiocounts`: each is written and read by its own process.
* The buffer cache, spinlocks, `kalloc`, drivers, boot code, user programs, the p1
  utilities and the drafts in p3a.

The repository contains the whole xv6 kernel five times (p1B, p2A, p3b, p4 and
`p1B/temp`), most of it unchanged.  A definition is mapped to one copy, so the
share of all lines in the repository that the map covers is small even where a
component is modelled completely.

## 6. Plan

1. The buffer cache (`bio.c`, `sleeplock.c`, `ide.c`) against what `Log` assumes
   of it.
2. `umalloc.c` with `thread_create` and `thread_join`.
3. `mysh.c`: the alias list against a function, and the run loop with failing
   calls.
4. A second `MR_Run` in `MapReduce`; file contents in `Inodes`.
5. Proofs: `RefsCounted` and `NoDangling` of `Inodes`; `FramesConserved` of
   `PageCrypt`; the reduce phase.
