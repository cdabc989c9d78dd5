----------------------------- MODULE PageCrypt -----------------------------
(***************************************************************************)
(* Page encryption in the p4 kernel (p4/vm.c, with the page-fault case of  *)
(* p4/trap.c and the console).  mencrypt XORs pages with 0xFF, sets PTE_E  *)
(* and clears PTE_P; the first access to such a page faults and mdecrypt   *)
(* undoes both.                                                            *)
(*                                                                         *)
(* Addresses count in units; a page has PGSIZE of them.  A process image   *)
(* is what exec builds, a text page, the guard page without PTE_U and a    *)
(* stack page, and a heap that sbrk moves.  A process makes a system call  *)
(* only while its text and its stack are present: fetching the instruction *)
(* and the arguments (argint) would fault first.  Processes share no page, *)
(* so what one of them does to its page table is one step.  Frames of the  *)
(* kernel and of the page tables themselves are left out, and so is exec.  *)
(***************************************************************************)
EXTENDS Integers, FiniteSets, Functions

CONSTANTS Proc,       \* slots of the process table that are used
          Boot,       \* the process that runs first
          NFRAMES,    \* how many physical frames kalloc has to give
          MaxSz,      \* bound: sbrk beyond it stops
          Targets,    \* the addresses programs pass to the kernel or access
          Bytes,      \* the bytes they store
          Lens,       \* lengths given to mencrypt
          Workloads   \* what programs do: see workload


VARIABLES pte,       \* pte[p][g]: the page table entry of page g
          sz,        \* proc->sz, 0 for a free slot
          mem,       \* mem[f]: the bytes of a frame, as they are in memory
          freelist,  \* kmem.freelist, as a set
          panic,     \* the panic that stopped the machine, or "none"
          workload   \* never changes: how many processes there may be, and the
                     \* arguments of sbrk, the buffers of dump_rawphymem and the
                     \* entry counts of getpgtable that programs use

vars == <<pte, sz, mem, freelist, panic, workload>>

PGSIZE == 2
Offsets == 0 .. PGSIZE - 1
Page(va) == va \div PGSIZE
Off(va) == va % PGSIZE
PGROUNDUP(n) == (n + PGSIZE - 1) \div PGSIZE

Frames == 1 .. NFRAMES
NoFrame == 0

Guard == 1
Stack == 2
ImageSz == 3 * PGSIZE
Pages == 0 .. PGROUNDUP(MaxSz)

ASSUME PageCryptConstants ==
    /\ Boot \in Proc
    /\ NFRAMES \in Nat /\ NFRAMES >= 3
    /\ MaxSz \in Nat /\ MaxSz >= ImageSz
    /\ Bytes \subseteq 0 .. 255
    /\ Workloads \subseteq [procs : Nat, sbrkBy : SUBSET Int, dumpAt : SUBSET Nat,
                            nums : SUBSET (Nat \ {0})]

NoPte == [P |-> FALSE, E |-> FALSE, U |-> FALSE, ppn |-> NoFrame]

Mapped(e) == e.P \/ e.E
Flip(bytes) == [o \in Offsets |-> 255 - bytes[o]]

Junk == [o \in Offsets |-> 1]
Zero == [o \in Offsets |-> 0]

\* kalloc for each page of the set gs, in order.  Frames are interchangeable:
\* the one taken is the least that is free.
kalloc(gs, free) ==
    [g \in gs |-> CHOOSE f \in free :
        Cardinality({x \in free : x < f}) = Cardinality({h \in gs : h < g})]

Init ==
    LET f == kalloc(0 .. 2, Frames)
    IN /\ pte = [p \in Proc |-> [g \in Pages |->
                   IF p = Boot /\ g <= 2
                   THEN [P |-> TRUE, E |-> FALSE, U |-> g # Guard, ppn |-> f[g]]
                   ELSE NoPte]]
       /\ mem = [x \in Frames |-> IF x \in Range(f) THEN Zero ELSE Junk]
       /\ freelist = Frames \ Range(f)
       /\ sz = [p \in Proc |-> IF p = Boot THEN ImageSz ELSE 0]
       /\ panic = "none"
       /\ workload \in Workloads

-----------------------------------------------------------------------------
(* What an access does to the machine, as functions from [pte, mem, panic] *)

Machine == [pte |-> pte, mem |-> mem, panic |-> panic]

Become(m) == pte' = m.pte /\ mem' = m.mem /\ panic' = m.panic

Entry(m, p, g) == IF g \in Pages THEN m.pte[p][g] ELSE NoPte

\* uva2ka finds the page: present or encrypted, and for the user.  It dereferences what
\* walkpgdir returns, which is null where there is no page table; all of Pages lie
\* under the one page table that exec has made.
uva2ka(m, p, g) == Mapped(Entry(m, p, g)) /\ Entry(m, p, g).U

\* mdecrypt, and the panic of trap() when it fails.  The bits change before
\* the checks; a first byte that is 0 in memory counts as a failure.
mdecrypt(m, p, g) ==
    LET e == Entry(m, p, g)
        opened == [m EXCEPT !.pte[p][g].E = FALSE, !.pte[p][g].P = TRUE]
    IN IF e = NoPte THEN [m EXCEPT !.panic = "Memory fault"]
       ELSE IF ~ e.U \/ m.mem[e.ppn][0] = 0
            THEN [opened EXCEPT !.panic = "Memory fault"]
            ELSE [opened EXCEPT !.mem[e.ppn] = Flip(m.mem[e.ppn])]

\* A load or store in user mode: needs PTE_P and PTE_U.
UserTouch(m, p, va) ==
    LET e == Entry(m, p, Page(va))
    IN IF e.P /\ e.U THEN m ELSE mdecrypt(m, p, Page(va))

\* The kernel through a user address: PTE_P is enough.
KernelTouch(m, p, va) ==
    IF Entry(m, p, Page(va)).P THEN m ELSE mdecrypt(m, p, Page(va))

Put(m, p, va, b) ==
    IF m.panic # "none" THEN m
    ELSE [m EXCEPT !.mem[Entry(m, p, Page(va)).ppn][Off(va)] = b]

-----------------------------------------------------------------------------
Up == panic = "none"
Alive(p) == sz[p] > 0

\* p is at an instruction that traps into the kernel.
Calls(p) ==
    /\ Up /\ Alive(p)
    /\ pte[p][0].P /\ pte[p][Stack].P

\* User code reads va; this includes fetching instructions.
Load(p, va) ==
    /\ Up /\ Alive(p)
    /\ Become(UserTouch(Machine, p, va))
    /\ UNCHANGED <<sz, freelist>>

Store(p, va, b) ==
    /\ Calls(p)
    /\ Become(Put(UserTouch(Machine, p, va), p, va, b))
    /\ UNCHANGED <<sz, freelist>>

\* read() from a file or a pipe: the kernel stores through the user address.
sys_read(p, va, b) ==
    /\ Calls(p) /\ va < sz[p]
    /\ Become(Put(KernelTouch(Machine, p, va), p, va, b))
    /\ UNCHANGED <<sz, freelist>>

\* consoleread: the store happens with cons.lock held.  The cprintf of the
\* page fault finds the lock held, does not acquire it and releases it, so
\* that consoleread's own release panics.
consoleread(p, va, b) ==
    /\ Calls(p) /\ va < sz[p]
    /\ LET done == Put(KernelTouch(Machine, p, va), p, va, b)
       IN Become(IF Entry(Machine, p, Page(va)).P \/ done.panic # "none"
                 THEN done ELSE [done EXCEPT !.panic = "release"])
    /\ UNCHANGED <<sz, freelist>>

\* consolewrite reads the buffer with cons.lock held.
consolewrite(p, va) ==
    /\ Calls(p) /\ va < sz[p]
    /\ LET done == KernelTouch(Machine, p, va)
       IN Become(IF Entry(Machine, p, Page(va)).P \/ done.panic # "none"
                 THEN done ELSE [done EXCEPT !.panic = "release"])
    /\ UNCHANGED <<sz, freelist>>

\* The pages a call mencrypt(va, len) names.
Span(va, len) == Page(va) .. Page(va) + len - 1

\* sys_mencrypt and mencrypt.  Every page is looked up before the first is
\* encrypted; pages that already are stay as they are.  A len that is
\* negative or zero returns at once, a bad page returns -1, and neither
\* changes anything.
mencrypt(p, va, len) ==
    /\ Calls(p) /\ va < sz[p] /\ len > 0
    /\ \A g \in Span(va, len) : uva2ka(Machine, p, g)
    /\ LET todo == {g \in Span(va, len) : ~ pte[p][g].E}
       IN /\ pte' = [pte EXCEPT ![p] = [g \in Pages |->
                       IF g \in todo THEN [@[g] EXCEPT !.E = TRUE, !.P = FALSE]
                       ELSE @[g]]]
          /\ mem' = [f \in Frames |->
                       IF \E g \in todo : pte[p][g].ppn = f
                       THEN Flip(mem[f]) ELSE mem[f]]
    /\ UNCHANGED <<sz, freelist, panic>>

-----------------------------------------------------------------------------
(* sbrk, fork and exit *)

\* New zeroed pages for p: page g in frame new[g].
Zeroed(p, new) ==
    /\ pte' = [pte EXCEPT ![p] = [g \in Pages |->
                  IF g \in DOMAIN new
                  THEN [P |-> TRUE, E |-> FALSE, U |-> TRUE, ppn |-> new[g]]
                  ELSE @[g]]]
    /\ mem' = [f \in Frames |-> IF f \in Range(new) THEN Zero ELSE mem[f]]
    /\ freelist' = freelist \ Range(new)

\* growproc with n > 0, through allocuvm.  When the frames run out the pages
\* allocated so far are freed again and nothing has changed.
grow(p, n) ==
    /\ Calls(p) /\ n > 0 /\ sz[p] + n <= MaxSz
    /\ LET gs == PGROUNDUP(sz[p]) .. PGROUNDUP(sz[p] + n) - 1
       IN Cardinality(gs) <= Cardinality(freelist) /\ Zeroed(p, kalloc(gs, freelist))
    /\ sz' = [sz EXCEPT ![p] = @ + n]
    /\ UNCHANGED panic

\* MUTANT of deallocuvm: only pages that are present are freed.
deallocuvmPresent(p, first) ==
    LET gone == {g \in Pages : g >= first /\ pte[p][g].P}
        frames == {pte[p][g].ppn : g \in gone}
    IN /\ pte' = [pte EXCEPT ![p] = [g \in Pages |->
                    IF g \in gone THEN NoPte ELSE @[g]]]
       /\ mem' = [f \in Frames |-> IF f \in frames THEN Junk ELSE mem[f]]
       /\ freelist' = freelist \union frames

\* deallocuvm from page first on: frees what is present or encrypted, and
\* kfree fills it with junk.
deallocuvm(p, first) ==
    LET gone == {g \in Pages : g >= first /\ Mapped(pte[p][g])}
        frames == {pte[p][g].ppn : g \in gone}
    IN /\ pte' = [pte EXCEPT ![p] = [g \in Pages |->
                    IF g \in gone THEN NoPte ELSE @[g]]]
       /\ mem' = [f \in Frames |-> IF f \in frames THEN Junk ELSE mem[f]]
       /\ freelist' = freelist \union frames

\* growproc with n < 0.  A new size of 0 is deallocuvm's error value: the
\* pages are gone and proc->sz is not changed.
shrink(p, n) ==
    /\ Calls(p) /\ n < 0 /\ sz[p] + n >= 0
    /\ deallocuvm(p, PGROUNDUP(sz[p] + n))
    /\ sz' = [sz EXCEPT ![p] = IF @ + n = 0 THEN @ ELSE @ + n]
    /\ UNCHANGED panic

\* MUTANT of mappages: every page it maps is present.
mappagesPresent(flags, f) == [flags EXCEPT !.ppn = f, !.P = TRUE, !.E = FALSE]

\* mappages with the flags of a page of the parent: PTE_P is added to a page
\* that is not encrypted, where it is set already.
mappages(flags, f) == [flags EXCEPT !.ppn = f]

\* fork, through copyuvm: bytes and flags are copied as they are, encrypted
\* pages included.  Without enough frames the copy is freed again.
fork(p, c) ==
    /\ Calls(p) /\ ~ Alive(c)
    /\ Cardinality({q \in Proc : Alive(q)}) < workload.procs
    /\ PGROUNDUP(sz[p]) <= Cardinality(freelist)
    /\ LET new == kalloc(0 .. PGROUNDUP(sz[p]) - 1, freelist) IN
         /\ pte' = [pte EXCEPT ![c] = [g \in Pages |->
                       IF g \in DOMAIN new THEN mappages(pte[p][g], new[g])
                       ELSE NoPte]]
         /\ mem' = [f \in Frames |-> IF f \in Range(new)
                       THEN mem[pte[p][AntiFunction(new)[f]].ppn]
                       ELSE mem[f]]
         /\ freelist' = freelist \ Range(new)
    /\ sz' = [sz EXCEPT ![c] = sz[p]]
    /\ UNCHANGED panic

\* exit, and the freevm of the parent's wait.
exit(p) ==
    /\ Calls(p) /\ p # Boot
    /\ deallocuvm(p, 0)
    /\ sz' = [sz EXCEPT ![p] = 0]
    /\ UNCHANGED panic

-----------------------------------------------------------------------------
(* dump_rawphymem and getpgtable *)

\* One turn of copyout's loop: n bytes of frame f to va, within one page.
Copy(m, p, va, f, from, n) ==
    LET to == Entry(m, p, Page(va)).ppn
    IN [m EXCEPT !.mem[to] = [o \in Offsets |->
          IF o - Off(va) \in 0 .. n - 1
          THEN m.mem[f][from + o - Off(va)] ELSE m.mem[to][o]]]

\* copyout of the page in frame f: straight into the frames, whether or not
\* they hold encrypted bytes; it stops at a page uva2ka does not find.
copyout(m, p, va, f) ==
    LET n == PGSIZE - Off(va)
        first == Copy(m, p, va, f, 0, n)
    IN IF ~ uva2ka(m, p, Page(va)) THEN m
       ELSE IF n = PGSIZE \/ ~ uva2ka(m, p, Page(va) + 1) THEN first
       ELSE Copy(first, p, va + n, f, n, PGSIZE - n)

\* MUTANT of dump_rawphymem: the buffer is not touched first.
dump_rawphymemUntouched(p, f, va) ==
    /\ Calls(p) /\ va + PGSIZE <= sz[p]
    /\ Become(copyout(Machine, p, va, f))
    /\ UNCHANGED <<sz, freelist>>

\* dump_rawphymem touches the first byte of the buffer to have its page
\* decrypted.
dump_rawphymem(p, f, va) ==
    /\ Calls(p) /\ va + PGSIZE <= sz[p]
    /\ LET m == KernelTouch(Machine, p, va)
       IN Become(IF m.panic = "none" THEN copyout(m, p, va, f) ELSE m)
    /\ UNCHANGED <<sz, freelist>>

\* MUTANT of Listed: one entry too many.
ListedPast(p, num) == num + 1

\* How many entries getpgtable writes: one per user page from the top down,
\* until num are written.  The test comes after the first entry, so a num
\* of 0 never stops it.
Listed(p, num) ==
    LET n == Cardinality({g \in Pages : g < PGROUNDUP(sz[p]) /\ uva2ka(Machine, p, g)})
    IN IF num \in 1 .. n THEN num ELSE n

\* getpgtable into the buffer at va.  An entry is one unit, stored through
\* the user address, and its contents are any byte.
getpgtable(p, va, num, b) ==
    /\ Calls(p) /\ va < sz[p] /\ va + num <= sz[p]
    /\ LET entry[i \in 0 .. Listed(p, num)] ==
             IF i = 0 THEN Machine
             ELSE LET m == entry[i - 1]
                  IN IF m.panic # "none" THEN m
                     ELSE Put(KernelTouch(m, p, va + i - 1), p, va + i - 1, b)
       IN Become(entry[Listed(p, num)])
    /\ UNCHANGED <<sz, freelist>>

Step ==
    \E p \in Proc :
      \/ \E va \in Targets :
           \/ Load(p, va)
           \/ \E b \in Bytes : Store(p, va, b) \/ sys_read(p, va, b) \/ consoleread(p, va, b)
           \/ consolewrite(p, va)
           \/ \E len \in Lens : mencrypt(p, va, len)
           \/ \E num \in workload.nums, b \in Bytes : getpgtable(p, va, num, b)
      \/ \E n \in workload.sbrkBy : grow(p, n) \/ shrink(p, n)
      \/ \E c \in Proc : fork(p, c)
      \/ exit(p)
      \/ \E f \in Frames, va \in workload.dumpAt : dump_rawphymem(p, f, va)

Next == Step /\ UNCHANGED workload

Spec == Init /\ [][Next]_vars

-----------------------------------------------------------------------------
(* Properties *)

\* Types of the page tables, the frames and the sizes (p4/mmu.h, p4/proc.h).
TypeOK ==
    /\ pte \in [Proc -> [Pages -> [P : BOOLEAN, E : BOOLEAN, U : BOOLEAN,
                                   ppn : Frames \union {NoFrame}]]]
    /\ sz \in [Proc -> 0 .. MaxSz]
    /\ mem \in [Frames -> [Offsets -> 0 .. 255]]
    /\ freelist \subseteq Frames
    /\ panic \in {"none", "Memory fault", "release"}

\* Every frame is free or belongs to exactly one page of one process, however
\* pages are encrypted, copied, decrypted and freed: mencrypt hides a page
\* from PTE_P, and copyuvm, deallocuvm and freevm must still find it.  Such a
\* page is present or encrypted and never both, so that an encrypted page
\* always faults.
FramesConserved ==
    /\ TypeOK
    /\ \A f \in Frames :
          Cardinality({x \in Proc \X Pages : pte[x[1]][x[2]].ppn = f})
            = IF f \in freelist THEN 0 ELSE 1
    /\ \A p \in Proc, g \in Pages :
          pte[p][g].ppn # NoFrame => (pte[p][g].P <=> ~ pte[p][g].E)

\* What p can address, as it would read it.
View(p) ==
    [va \in {a \in 0 .. PGSIZE * Cardinality(Pages) - 1 : uva2ka(Machine, p, Page(a))} |->
       LET e == pte[p][Page(va)]
           b == mem[e.ppn][Off(va)]
       IN IF e.E THEN 255 - b ELSE b]

\* Programs that have the kernel fill buffers of several bytes are left to the two
\* properties below: UserMemory has stores of one byte, and all it sees of them is a
\* machine that is not up.
Observed == Up /\ workload.dumpAt = {} /\ workload.nums = {}

Views == [p \in Proc |-> IF Observed THEN View(p) ELSE [a \in {} |-> 0]]

BootImage == [a \in {x \in 0 .. ImageSz - 1 : Page(x) # Guard} |-> 0]

UM == INSTANCE UserMemory WITH
    image <- Views, up <- Observed,
    InitImages <- {[p \in Proc |-> IF p = Boot THEN BootImage ELSE [a \in {} |-> 0]]}

\* Encryption is invisible: with the bytes of encrypted pages read through
\* the XOR of mdecrypt, the kernel implements private memories that only
\* stores, sbrk, fork and exit change, until it panics.
RefinesUserMemory == UM!MemSpec

\* After dump_rawphymem returned, a program that reads its buffer, aligned to a
\* page or not, finds the bytes that were in the frame: in the first page of the
\* buffer even if that was encrypted when it made the call, and in the second if
\* that was not.  It touches the first byte only, so that a second page which is
\* encrypted stays so, copyout stores into it as it is, and what is read back is
\* inverted.  A dump of the buffer's own frames is left out.
DumpDelivers ==
    [][\A p \in Proc, f \in Frames, va \in workload.dumpAt :
         /\ dump_rawphymem(p, f, va) /\ panic' = "none"
         /\ \A a \in va .. va + PGSIZE - 1 :
              uva2ka(Machine, p, Page(a)) /\ pte[p][Page(a)].ppn # f
         => \A i \in Offsets :
              LET a == va + i IN
              Page(a) = Page(va) \/ ~ pte[p][Page(a)].E => View(p)'[a] = mem[f][i]]_vars

\* getpgtable stores into the num entries of its buffer and nowhere else.
EntriesInBuffer ==
    [][\A p \in Proc, va \in Targets, num \in workload.nums, b \in Bytes :
         getpgtable(p, va, num, b) =>
           /\ panic' # "none" => \E a \in va .. va + num - 1 : ~ pte[p][Page(a)].P
           /\ panic' = "none" =>
                \A a \in DOMAIN View(p) \ (va .. va + num - 1) :
                  View(p)'[a] = View(p)[a]]_vars
=============================================================================
