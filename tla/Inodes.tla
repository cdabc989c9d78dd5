------------------------------- MODULE Inodes -------------------------------
(***************************************************************************)
(* Inodes, directories and the calls that change them: iget, ilock, iput,  *)
(* ialloc, dirlookup, dirlink and namex of fs.c, and link, unlink, open,   *)
(* create, mkdir and chdir of sysfile.c (p1B/xv6-public; fs.c is the same  *)
(* in every kernel of the repository).                                     *)
(*                                                                         *)
(* A call is a sequence of steps, each from taking an inode's sleep-lock   *)
(* to the next point where the process may wait or has let go of a lock    *)
(* and comes back for it.  iput takes the lock, looks at ref, releases the *)
(* lock and only then drops its reference: two steps.  The inode cache is  *)
(* write-through and every change is followed by iupdate before the lock   *)
(* is released, so that one record stands for the inode on disk and in     *)
(* memory.  What a file contains is not modelled.                          *)
(***************************************************************************)
EXTENDS Integers, Sequences, FiniteSets, FiniteSetsExt

CONSTANTS Proc, Name,
          NINODES,    \* inodes of the disk, numbered from 1, the root
          Paths,      \* paths of calls: names, "." and "..", at least one of them
          MaxCalls,   \* bound: calls that begin, close not counted
          NoProc

ASSUME InodeConstants ==
    /\ NINODES \in Nat \ {0} /\ MaxCalls \in Nat
    /\ Paths \subseteq Seq(Name \cup {".", ".."}) \ {<<>>}
    /\ NoProc \notin Proc

ROOTINO == 1
Inum == 1 .. NINODES
Ops == {"open", "create", "mkdir", "unlink", "link", "chdir"}

VARIABLES ino,      \* ino[i]: type, nlink, and for a directory its entries
          ref,      \* ref[i]: references of its cache entry
          valid,    \* the inodes whose cache entry is valid
          lock,     \* lock[i]: the process that holds its sleep-lock
          pc,
          op,       \* op[p]: the call p is in
          rest,     \* rest[p]: what namex has still to walk
          new,      \* new[p]: the second path of p's link
          cur,      \* cur[p]: namex's ip, and the dp it returns; 0 if none
          ip,       \* ip[p]: the other inode of the call, 0 if none
          puts,     \* puts[p]: inodes that p is to iput before it goes on
          dropped,  \* dropped[p]: has the iput on its way released the lock
          cwd, fd,  \* p's current directory and open file (0 if none)
          calls,    \* the calls begun
          panicked,
          orphans,  \* history: inodes whose entry went with a truncated directory
          raced     \* history: inodes without links that were passed over by an iput
                    \* while another one had yet to drop its reference

disk == <<ino, orphans, raced>>
frame == <<cwd, fd, calls>>
vars == <<disk, ref, valid, lock, pc, op, rest, new, cur, ip, puts, dropped, frame, panicked>>

FreeInode == [type |-> "free", nlink |-> 0, ents |-> [n \in Name |-> 0], up |-> 0]

\* The file system of mkfs, and processes that start in its root.
Init ==
    /\ ino = [i \in Inum |-> IF i = ROOTINO THEN [FreeInode EXCEPT !.type = "dir", !.nlink = 1,
                                                                  !.up = ROOTINO]
                             ELSE FreeInode]
    /\ ref = [i \in Inum |-> IF i = ROOTINO THEN Cardinality(Proc) ELSE 0]
    /\ valid = {}
    /\ lock = [i \in Inum |-> NoProc]
    /\ pc = [p \in Proc |-> "user"]
    /\ op = [p \in Proc |-> "none"]
    /\ rest = [p \in Proc |-> <<>>]
    /\ new = [p \in Proc |-> <<>>]
    /\ cur = [p \in Proc |-> 0]
    /\ ip = [p \in Proc |-> 0]
    /\ puts = [p \in Proc |-> <<>>]
    /\ dropped = [p \in Proc |-> FALSE]
    /\ cwd = [p \in Proc |-> ROOTINO]
    /\ fd = [p \in Proc |-> 0]
    /\ calls = 0
    /\ panicked = FALSE
    /\ orphans = {} /\ raced = {}

-----------------------------------------------------------------------------
Set(f, p, v) == f' = [f EXCEPT ![p] = v]

\* dirlookup, without its iget.
Lookup(i, name) == CASE name = "."  -> i
                     [] name = ".." -> ino[i].up
                     [] OTHER       -> ino[i].ents[name]

Unlocked(i) == lock[i] = NoProc

\* Process p is at label l, with nothing left to iput.
At(p, l) == ~panicked /\ pc[p] = l /\ puts[p] = <<>>

\* ilock reads the inode if need be, and panics if it is free.
ilock(S) ==
    /\ valid' = valid \cup S
    /\ panicked' = (panicked \/ \E i \in S : ino[i].type = "free")

iget(i) == ref' = [ref EXCEPT ![i] = @ + 1]

\* The call is over once S is iput; p holds nothing else.
Return(p, S) ==
    /\ Set(puts, p, S)
    /\ Set(pc, p, "user")
    /\ Set(op, p, "none")
    /\ Set(cur, p, 0)
    /\ Set(ip, p, 0)
    /\ Set(rest, p, <<>>)
    /\ Set(new, p, <<>>)

-----------------------------------------------------------------------------
\* iput up to the release of the sleep-lock: the last reference to an inode without
\* links frees it and its content.
NeverLastPut(i) == FALSE                             \* mutants of LastPut
LastPutAny(i) == i \in valid /\ ino[i].nlink = 0
LastPut(i) == i \in valid /\ ino[i].nlink = 0 /\ ref[i] = 1

iput(p) ==
    LET i == Head(puts[p]) IN
    /\ ~panicked /\ puts[p] # <<>> /\ ~dropped[p]
    /\ Unlocked(i)
    /\ IF LastPut(i)
       THEN /\ ino' = [ino EXCEPT ![i] = FreeInode]
            /\ valid' = valid \ {i}
            /\ orphans' = (orphans \ {i})
                             \cup {j \in Inum : \E n \in Name : ino[i].ents[n] = j}
            /\ raced' = raced \ {i}
       ELSE /\ raced' = IF ino[i].nlink = 0 /\ \E q \in Proc : dropped[q] /\ Head(puts[q]) = i
                        THEN raced \cup {i} ELSE raced
            /\ UNCHANGED <<ino, valid, orphans>>
    /\ Set(dropped, p, TRUE)
    /\ UNCHANGED <<ref, lock, pc, op, rest, new, cur, ip, puts, frame, panicked>>

\* ip->ref--, under icache.lock.
iputDrop(p) ==
    LET i == Head(puts[p]) IN
    /\ ~panicked /\ dropped[p]
    /\ ref' = [ref EXCEPT ![i] = @ - 1]
    /\ valid' = IF ref[i] = 1 THEN valid \ {i} ELSE valid
    /\ Set(puts, p, Tail(puts[p]))
    /\ Set(dropped, p, FALSE)
    /\ UNCHANGED <<disk, lock, pc, op, rest, new, cur, ip, frame, panicked>>

-----------------------------------------------------------------------------
\* A call begins: namex starts from the root or from the current directory.
begin(p, o, path, start) ==
    /\ At(p, "user") /\ calls < MaxCalls
    /\ calls' = calls + 1
    /\ Set(op, p, o)
    /\ Set(rest, p, path)
    /\ \E path2 \in IF o = "link" THEN Paths ELSE {<<>>} : Set(new, p, path2)
    /\ Set(cur, p, start)
    /\ iget(start)
    /\ Set(pc, p, "namex")
    /\ UNCHANGED <<disk, valid, lock, ip, puts, dropped, cwd, fd, panicked>>

WantsParent(o) == o \in {"create", "mkdir", "unlink", "dirlink"}

\* iunlockput of the inode where namex fails, or of dp.
ReleasedNever(i) == <<>>                    \* mutant of Released
Released(i) == <<i>>

\* A call fails at inode i: link has a link count to take back.
Fail(p, i) ==
    IF op[p] = "dirlink"
    THEN /\ Set(pc, p, "bad") /\ Set(puts, p, Released(i)) /\ Set(cur, p, 0)
         /\ UNCHANGED <<op, rest, new, ip>>
    ELSE Return(p, Released(i))

\* One turn of the loop of namex.
namex(p) ==
    LET i == cur[p]
        next == Lookup(i, Head(rest[p]))
    IN
    /\ At(p, "namex")
    /\ Unlocked(i)
    /\ ilock({i})
    /\ \/ /\ ino[i].type # "dir"
          /\ Fail(p, i)
          /\ UNCHANGED ref
       \/ /\ ino[i].type = "dir" /\ WantsParent(op[p]) /\ Len(rest[p]) = 1
          /\ Set(pc, p, op[p])
          /\ UNCHANGED <<ref, puts, op, cur, ip, rest, new>>
       \/ /\ ino[i].type = "dir" /\ ~(WantsParent(op[p]) /\ Len(rest[p]) = 1)
          /\ next = 0
          /\ Fail(p, i)
          /\ UNCHANGED ref
       \/ /\ ino[i].type = "dir" /\ ~(WantsParent(op[p]) /\ Len(rest[p]) = 1)
          /\ next # 0
          /\ iget(next)
          /\ Set(puts, p, <<i>>)
          /\ Set(cur, p, next)
          /\ Set(rest, p, Tail(rest[p]))
          /\ Set(pc, p, IF Len(rest[p]) = 1 THEN op[p] ELSE "namex")
          /\ UNCHANGED <<op, ip, new>>
    /\ UNCHANGED <<disk, lock, dropped, frame>>

-----------------------------------------------------------------------------
\* sys_open of an existing file, for reading, and sys_close.  A process has one
\* descriptor: fdalloc fails when it is in use.
open(p) ==
    LET i == cur[p] IN
    /\ At(p, "open")
    /\ Unlocked(i)
    /\ ilock({i})
    /\ Set(fd, p, IF fd[p] = 0 THEN i ELSE fd[p])
    /\ Return(p, IF fd[p] = 0 THEN <<>> ELSE <<i>>)
    /\ UNCHANGED <<disk, ref, lock, dropped, cwd, calls>>

close(p) ==
    /\ At(p, "user")
    /\ fd[p] # 0
    /\ Set(fd, p, 0)
    /\ Set(puts, p, <<fd[p]>>)
    /\ UNCHANGED <<disk, ref, valid, lock, pc, op, rest, new, cur, ip, dropped, cwd, calls, panicked>>

chdir(p) ==
    LET i == cur[p]
        isdir == ino[i].type = "dir"
    IN
    /\ At(p, "chdir")
    /\ Unlocked(i)
    /\ ilock({i})
    /\ Set(cwd, p, IF isdir THEN i ELSE cwd[p])
    /\ Return(p, IF isdir THEN <<cwd[p]>> ELSE <<i>>)
    /\ UNCHANGED <<disk, ref, lock, dropped, fd, calls>>

\* create, up to its iunlockput(dp): a name that exists is left to created.
NoLinkForDotDot(d, t) == ino[d].nlink           \* mutant of NewLinks
NewLinks(d, t) == IF t = "dir" THEN ino[d].nlink + 1 ELSE ino[d].nlink

\* The inode that ialloc would take.  It panics when none is free: that process goes no
\* further, which the others cannot tell from its being slow.
Free == {i \in Inum : ino[i].type = "free"}
ialloc == Min(Free)

create(p) ==
    LET dp == cur[p]
        name == Head(rest[p])
        found == Lookup(dp, name)
        t == IF op[p] = "mkdir" THEN "dir" ELSE "file"
    IN
    /\ pc[p] \in {"create", "mkdir"} /\ At(p, pc[p])
    /\ Unlocked(dp)
    /\ \/ /\ found # 0
          /\ ilock({dp})
          /\ iget(found)
          /\ Set(ip, p, found)
          /\ Set(pc, p, "exists")
          /\ UNCHANGED <<ino, lock>>
       \/ /\ found = 0 /\ Free # {}
          /\ Unlocked(ialloc)
          /\ iget(ialloc)
          /\ lock' = [lock EXCEPT ![ialloc] = p]
          /\ ino' = [ino EXCEPT
                       ![ialloc] = [FreeInode EXCEPT !.type = t, !.nlink = 1,
                                                !.up = IF t = "dir" THEN dp ELSE 0],
                       ![dp].nlink = NewLinks(dp, t),
                       ![dp].ents[name] = ialloc]
          /\ valid' = valid \cup {dp, ialloc}
          /\ panicked' = (ino[dp].type = "free")
          /\ Set(ip, p, ialloc)
          /\ Set(pc, p, "created")
    /\ Set(puts, p, <<dp>>)
    /\ Set(cur, p, 0)
    /\ UNCHANGED <<op, rest, new, dropped, frame, orphans, raced>>

\* The rest of sys_open or sys_mkdir, with ip locked since ialloc.
created(p) ==
    LET opens == op[p] = "create" /\ fd[p] = 0 IN
    /\ At(p, "created")
    /\ lock' = [lock EXCEPT ![ip[p]] = NoProc]
    /\ Set(fd, p, IF opens THEN ip[p] ELSE fd[p])
    /\ Return(p, IF opens THEN <<>> ELSE <<ip[p]>>)
    /\ UNCHANGED <<disk, ref, valid, dropped, cwd, calls, panicked>>

\* The name existed: O_CREATE opens a file, everything else fails.
exists(p) ==
    LET opens == op[p] = "create" /\ ino[ip[p]].type = "file" /\ fd[p] = 0 IN
    /\ At(p, "exists")
    /\ Unlocked(ip[p])
    /\ ilock({ip[p]})
    /\ Set(fd, p, IF opens THEN ip[p] ELSE fd[p])
    /\ Return(p, IF opens THEN <<>> ELSE <<ip[p]>>)
    /\ UNCHANGED <<disk, ref, lock, dropped, cwd, calls>>

-----------------------------------------------------------------------------
\* sys_unlink: dp is locked, and stays locked while p waits for ip.
unlink(p) ==
    LET dp == cur[p]
        name == Head(rest[p])
        found == Lookup(dp, name)
    IN
    /\ At(p, "unlink")
    /\ Unlocked(dp)
    /\ ilock({dp})
    /\ \/ /\ name \in {".", ".."} \/ found = 0
          /\ Return(p, <<dp>>)
          /\ UNCHANGED <<ref, lock>>
       \/ /\ name \notin {".", ".."} /\ found # 0
          /\ iget(found)
          /\ lock' = [lock EXCEPT ![dp] = p]
          /\ Set(ip, p, found)
          /\ Set(pc, p, "unlinkIp")
          /\ UNCHANGED <<puts, op, cur, rest, new>>
    /\ UNCHANGED <<disk, dropped, frame>>

isdirempty(i) == \A n \in Name : ino[i].ents[n] = 0
Removable(i) == ino[i].type = "dir" => isdirempty(i)

\* ilock(ip), and on success the writes to dp and iunlock(dp); ip stays locked
\* during iput(dp), as dp does during iput(ip) when ip is a directory in use.
unlinkIp(p) ==
    LET dp == cur[p]
        i == ip[p]
        name == Head(rest[p])
    IN
    /\ At(p, "unlinkIp")
    /\ Unlocked(i)
    /\ valid' = valid \cup {i}
    /\ panicked' = (ino[i].type = "free" \/ ino[i].nlink < 1)
    /\ \/ /\ ~Removable(i)
          /\ Set(pc, p, "unlockDp")
          /\ Set(puts, p, <<i>>)
          /\ Set(ip, p, 0)
          /\ UNCHANGED <<ino, lock, op, cur, rest, new>>
       \/ /\ Removable(i)
          /\ lock' = [lock EXCEPT ![dp] = NoProc, ![i] = p]
          /\ ino' = [ino EXCEPT ![dp].ents[name] = 0,
                                ![dp].nlink = IF ino[i].type = "dir" THEN @ - 1 ELSE @]
          /\ Set(pc, p, "unlinked")
          /\ Set(puts, p, <<dp>>)
          /\ Set(cur, p, 0)
          /\ UNCHANGED <<op, rest, new, ip>>
    /\ UNCHANGED <<ref, dropped, frame, orphans, raced>>

unlinked(p) ==
    /\ At(p, "unlinked")
    /\ ino' = [ino EXCEPT ![ip[p]].nlink = @ - 1]
    /\ lock' = [lock EXCEPT ![ip[p]] = NoProc]
    /\ Return(p, <<ip[p]>>)
    /\ UNCHANGED <<ref, valid, dropped, frame, panicked, orphans, raced>>

-----------------------------------------------------------------------------
\* sys_link: the count of the old file goes up before the new entry is made.
link(p) ==
    LET i == cur[p] IN
    /\ At(p, "link")
    /\ Unlocked(i)
    /\ \/ /\ ino[i].type = "dir"
          /\ ilock({i})
          /\ Return(p, <<i>>)
          /\ UNCHANGED <<ino, ref>>
       \/ /\ ino[i].type # "dir"
          /\ valid' = valid \cup {i}
          /\ panicked' = (ino[i].type = "free")
          /\ ino' = [ino EXCEPT ![i].nlink = @ + 1]
          /\ \E start \in {ROOTINO, cwd[p]} : iget(start) /\ Set(cur, p, start)
          /\ Set(ip, p, i)
          /\ Set(op, p, "dirlink")
          /\ Set(rest, p, new[p])
          /\ Set(new, p, <<>>)
          /\ Set(pc, p, "namex")
          /\ UNCHANGED puts
    /\ UNCHANGED <<lock, dropped, frame, orphans, raced>>

\* dirlink in dp: a name that is there already is iput with dp locked.
dirlink(p) ==
    LET dp == cur[p]
        name == Head(rest[p])
        found == Lookup(dp, name)
    IN
    /\ At(p, "dirlink")
    /\ Unlocked(dp)
    /\ ilock({dp})
    /\ \/ /\ found # 0
          /\ iget(found)
          /\ lock' = [lock EXCEPT ![dp] = p]
          /\ Set(puts, p, <<found>>)
          /\ Set(pc, p, "unlockDp")
          /\ UNCHANGED <<ino, op, cur, rest, new, ip>>
       \/ /\ found = 0
          /\ ino' = [ino EXCEPT ![dp].ents[name] = ip[p]]
          /\ Return(p, <<dp, ip[p]>>)
          /\ UNCHANGED <<ref, lock>>
    /\ UNCHANGED <<dropped, frame, orphans, raced>>

\* iunlockput(dp) of an unlink or a link that fails.
unlockDp(p) ==
    /\ At(p, "unlockDp")
    /\ lock' = [lock EXCEPT ![cur[p]] = NoProc]
    /\ Fail(p, cur[p])
    /\ UNCHANGED <<disk, ref, valid, dropped, frame, panicked>>

\* bad: the count goes down again.
bad(p) ==
    /\ At(p, "bad")
    /\ Unlocked(ip[p])
    /\ ilock({ip[p]})
    /\ ino' = [ino EXCEPT ![ip[p]].nlink = @ - 1]
    /\ Return(p, <<ip[p]>>)
    /\ UNCHANGED <<ref, lock, dropped, frame, orphans, raced>>

-----------------------------------------------------------------------------
Step(p) ==
    \/ iput(p) \/ iputDrop(p) \/ namex(p) \/ open(p) \/ close(p) \/ chdir(p)
    \/ create(p) \/ created(p) \/ exists(p)
    \/ unlink(p) \/ unlinkIp(p) \/ unlinked(p)
    \/ link(p) \/ dirlink(p) \/ unlockDp(p) \/ bad(p)

Next ==
    \E p \in Proc :
        \/ Step(p)
        \/ \E o \in Ops, path \in Paths, start \in {ROOTINO, cwd[p]} : begin(p, o, path, start)

Spec == Init /\ [][Next]_vars

-----------------------------------------------------------------------------
\* The variables are of their types.
TypeOK ==
    /\ ino \in [Inum -> [type : {"free", "dir", "file"}, nlink : Nat,
                         ents : [Name -> Inum \cup {0}], up : Inum \cup {0}]]
    /\ ref \in [Inum -> Nat]
    /\ valid \subseteq Inum
    /\ lock \in [Inum -> Proc \cup {NoProc}]
    /\ {cur[p] : p \in Proc} \cup {ip[p] : p \in Proc} \subseteq Inum \cup {0}
    /\ \A p \in Proc : puts[p] \in Seq(Inum)
    /\ dropped \in [Proc -> BOOLEAN]
    /\ cwd \in [Proc -> Inum] /\ fd \in [Proc -> Inum \cup {0}]
    /\ panicked \in BOOLEAN /\ orphans \subseteq Inum

RefsOf(p, i) ==
    Cardinality({x \in {"cwd", "fd", "cur", "ip"} :
        CASE x = "cwd" -> cwd[p] = i [] x = "fd" -> fd[p] = i
          [] x = "cur" -> cur[p] = i [] x = "ip" -> ip[p] = i})
    + Cardinality({k \in DOMAIN puts[p] : puts[p][k] = i})

\* ref of a cache entry is the number of pointers to it: open files, current
\* directories and calls on their way, iputs not yet done included.
RefsCounted ==
    /\ TypeOK
    /\ \A i \in Inum : ref[i] = MapThenSumSet(LAMBDA p : RefsOf(p, i), Proc)

Dirs == {d \in Inum : ino[d].type = "dir"}
Entries(i) == Cardinality({<<d, n>> \in Dirs \X Name : ino[d].ents[n] = i})
SubDirs(i) == Cardinality({n \in Name : i \in Dirs /\ ino[i].ents[n] \in Dirs})
InFlight(i) ==
    Cardinality({p \in Proc : /\ ip[p] = i
                              /\ \/ pc[p] \in {"unlinked", "bad", "dirlink", "unlockDp"}
                                 \/ (pc[p] = "namex" /\ op[p] = "dirlink")})

\* nlink is the number of entries that name the inode and, for a directory, of its
\* subdirectories, but for the calls that are between the two writes; an inode whose
\* entry went with a directory that was removed while the entry was being made keeps
\* its count for ever.
LinksCounted ==
    \A i \in Inum \ orphans :
        ino[i].nlink = Entries(i) + SubDirs(i) + InFlight(i) + (IF i = ROOTINO THEN 1 ELSE 0)

\* A directory entry never names a free inode, nor does a reference: no process locks
\* an inode that has been freed ("ilock: no type"), and unlink never finds an entry of
\* an inode without links, however namex, open, link and unlink of several processes
\* overlap, on paths without "." and "..".
NoDangling ==
    /\ ~panicked
    /\ \A i \in Inum : ino[i].type = "free" =>
          /\ Entries(i) = 0
          /\ \A p \in Proc : RefsOf(p, i) > 0 => puts[p] # <<>> /\ Head(puts[p]) = i /\ dropped[p]

\* "iput() frees if the reference and link counts have fallen to zero" (fs.c, on
\* inodes): an inode without links and without references is free, unless its last two
\* references were dropped by iputs that overlapped, each of which saw the other's.
UnusedIsFree ==
    \A i \in Inum \ raced : ino[i].nlink = 0 /\ ref[i] = 0 => ino[i].type = "free"
=============================================================================
