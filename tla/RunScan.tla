------------------------------ MODULE RunScan ------------------------------
(***************************************************************************)
(* p5/runscan.c, with read_ext2.c: a program that reads an ext2 image and  *)
(* writes every JPEG it finds to file-<inode>.jpg and, when some directory *)
(* gives the inode a name, to that name.  It looks at deleted entries and  *)
(* deleted inodes too, because it steps through a directory by the length  *)
(* of the names and not by rec_len.                                        *)
(*                                                                         *)
(* The image is made first: names are added to and removed from a          *)
(* directory the way ext2 does it, in place, so that old entries stay      *)
(* behind, whole or partly overwritten.  Then the two passes of main run,  *)
(* one inode per step.                                                     *)
(*                                                                         *)
(* Directory blocks are arrays of four-byte words; an entry is its inode   *)
(* number, a word with name_len, and the words of the name.  A name is as  *)
(* many words as NameWords says.  Data blocks are two units long.          *)
(***************************************************************************)
EXTENDS Integers, SequencesExt, FiniteSetsExt, TLC

CONSTANTS NI,          \* inodes_per_block * itable_blocks
          Names, NameWords,
          Short,       \* names with one or two letters in their last word
          Numbered,    \* Numbered[s]: the i of a name s that reads file-<i>.jpg
          Letters,     \* what a letter of a name stands for when it is read as a length
          WORDS,       \* words of a directory block
          MaxChanges,  \* bound: changes made to the directory
          Layouts      \* the regular files whose blocks are scanned

Inodes == 1 .. NI
NDIR == 1              \* EXT2_NDIR_BLOCKS: 12
PTRS == 2              \* block_size / sizeof(unsigned int): 256
BLOCK == 2             \* block_size
Dir == 1               \* the directory's inode

\* A file by its i_block (direct, then single and double indirect, 0 where there is
\* none), the numbers its indirect blocks hold, its size, and the blocks that start like
\* a JPEG.
IsFile(f) ==
    /\ f.i_block \in [1 .. NDIR + 2 -> Nat] /\ f.size \in Nat /\ f.jpg \subseteq Nat \ {0}
    /\ f.ptrs \in [DOMAIN f.ptrs -> [1 .. PTRS -> Nat]]
    /\ {f.i_block[NDIR + 1], f.i_block[NDIR + 2]} \ {0} \subseteq DOMAIN f.ptrs
    /\ f.i_block[NDIR + 2] # 0 => Range(f.ptrs[f.i_block[NDIR + 2]]) \ {0} \subseteq DOMAIN f.ptrs
NBLOCKS == NDIR + PTRS + PTRS * PTRS   \* the blocks a file can have

ASSUME RunScanConstants ==
    /\ NI \in Nat /\ NI >= 4
    /\ NameWords \in [Names -> Nat \ {0}]
    /\ Short \subseteq Names /\ Letters \subseteq 0 .. WORDS /\ Letters # {}
    /\ WORDS \in Nat /\ WORDS > 6
    /\ MaxChanges \in Nat
    /\ \A f \in Layouts : IsFile(f)
    /\ DOMAIN Numbered \subseteq Names /\ Range(Numbered) \subseteq Inodes

VARIABLES pc, n,         \* which pass main is in, and its loop variable
          words,         \* words[b][o]: the directory's two blocks
          live,          \* live[b]: the offsets of its entries by rec_len
          changes,       \* the changes made
          ever,          \* history: the pairs of inode and name ever entered
          file,          \* file[i]: the regular files of the inode table
          found,         \* i_num and filenames: the pairs read from directories
          out            \* what was written: output name -> content

image == <<words, live, changes, ever, file>>
vars == <<pc, n, image, found, out>>

-----------------------------------------------------------------------------
(* How ext2 changes a directory (external)                                 *)

Zero == <<"zero">>
Word == {Zero} \cup {"ino", "len"} \X (0 .. NI + WORDS)
               \cup {"chr"} \X (Names \cup {".", ".."}) \X (1 .. WORDS)
Offsets == 0 .. WORDS - 1

\* An entry at offset o: inode i, name s of w words.
Entered(block, o, i, s, w) ==
    [x \in Offsets |->
        CASE x = o                      -> <<"ino", i>>
          [] x = o + 1                  -> <<"len", w>>
          [] x \in o + 2 .. o + 1 + w   -> <<"chr", s, x - o - 1>>
          [] OTHER                      -> block[x]]

Fresh == [o \in Offsets |-> Zero]
Dots == Entered(Entered(Fresh, 0, Dir, ".", 1), 3, Dir, "..", 1)

\* The end of the entry at o by rec_len: the next one, or the end of the block.
RecEnd(b, o) == Min({x \in live[b] : x > o} \cup {WORDS})

\* The first word of the entry at o that can be given away: behind its name, or all of
\* it when its inode is 0.
SpareFrom(b, o) == IF words[b][o] = <<"ino", 0>> THEN o ELSE o + 2 + words[b][o + 1][2]

\* Where name s can be entered, and the place that is taken: the first.
Places(s) ==
    {x \in {1, 2} \X Offsets : /\ x[2] \in live[x[1]]
                              /\ SpareFrom(x[1], x[2]) + 2 + NameWords[s] <= RecEnd(x[1], x[2])}
FirstPlace(s) ==
    CHOOSE x \in Places(s) : \A y \in Places(s) : x[1] < y[1] \/ (x[1] = y[1] /\ x[2] <= y[2])

\* The pairs of inode and name that block b of the directory holds.
LiveIn(b) == {<<words[b][o][2], words[b][o + 2][2]>> : o \in {x \in live[b] : words[b][x][2] # 0}}
LiveEntries == LiveIn(1) \cup LiveIn(2)

addEntry(s, i) ==
    LET x == IF Places(s) # {} THEN FirstPlace(s) ELSE <<2, 0>>
        o == IF Places(s) # {} THEN SpareFrom(x[1], x[2]) ELSE 0
    IN
    /\ pc = "image" /\ changes < MaxChanges
    /\ s \notin {e[2] : e \in LiveEntries}
    /\ Places(s) # {} \/ live[2] = {}
    /\ words' = [words EXCEPT ![x[1]] = Entered(@, o, i, s, NameWords[s])]
    /\ live' = [live EXCEPT ![x[1]] = @ \cup {o}]
    /\ ever' = ever \cup {<<i, s>>}
    /\ changes' = changes + 1
    /\ UNCHANGED <<pc, n, file, found, out>>

\* The entry joins the one in front of it; drivers differ in whether its inode number
\* is cleared as well.  The first entry of a block keeps its place without an inode.
removeEntry(b, o) ==
    /\ pc = "image" /\ changes < MaxChanges
    /\ o \in live[b] /\ words[b][o][2] \notin {0, Dir}
    /\ LET cleared == [words EXCEPT ![b][o] = <<"ino", 0>>] IN
       IF o = 0
       THEN words' = cleared /\ UNCHANGED live
       ELSE /\ words' \in {words, cleared}
            /\ live' = [live EXCEPT ![b] = @ \ {o}]
    /\ changes' = changes + 1
    /\ UNCHANGED <<pc, n, ever, file, found, out>>

\* runscan is started on the image.
start ==
    /\ pc = "image"
    /\ pc' = "directories" /\ n' = 0
    /\ UNCHANGED <<image, found, out>>

-----------------------------------------------------------------------------
(* The first pass: directories                                             *)

\* What a word of a directory block means as dentry->inode: rec_len with name_len and
\* the letters of a name are numbers beyond the table, but one or two letters alone may
\* be the number of some inode.
Far == NI + 1
AsInode(w, alias) ==
    CASE w[1] = "ino"                                                  -> w[2]
      [] w[1] = "chr" /\ w[2] \in Short /\ w[3] = NameWords[w[2]]       -> alias
      [] w[1] = "zero"                                                 -> 0
      [] OTHER                                                         -> Far

\* And as the word with name_len, of which one byte counts: that of an inode number
\* below 65536 is 0, that of a name is a letter.
AsLen(w, letter) == CASE w[1] = "len" -> w[2] [] w[1] = "chr" -> letter[w[2]] [] OTHER -> 0

WordAt(block, o) == IF o \in Offsets THEN block[o] ELSE Zero

\* strncpy of the name: one that was entered, or something else.
NameAt(block, o, w) ==
    LET s == {t \in Names : /\ NameWords[t] = w
                            /\ \A j \in 1 .. w : WordAt(block, o + 1 + j) = <<"chr", t, j>>}
    IN IF s = {} THEN "garbled" ELSE CHOOSE t \in s : TRUE

\* Every block is read from its 24th byte on.
StartAt == 6

StepPastFull(w) == 3 + w                 \* mutant of Step: pads full words too
Step(w) == 2 + w

\* The entries read from a block: by name_len, up to an inode 0 or the end.
Entries(block, alias, letter) ==
    LET from[o \in 0 .. 2 * WORDS + 2] ==
            IF o >= WORDS \/ AsInode(WordAt(block, o), alias) = 0 THEN <<>>
            ELSE LET w == AsLen(WordAt(block, o + 1), letter) IN
                 <<<<AsInode(block[o], alias), NameAt(block, o, w)>>>> \o from[o + Step(w)]
    IN from[StartAt]

\* No name that was ever entered ends in one or two letters.
NoShortNames == ~\E e \in ever : e[2] \in Short

\* One inode of the first pass.  Inode 0, the end of the block in front of the table,
\* is neither a file nor a directory.  Only short names need an alias, and only names
\* that were entered have letters in a block.
scanDirectory ==
    /\ pc = "directories"
    /\ IF n = Dir
       THEN \E alias \in IF NoShortNames THEN {Far} ELSE Inodes \ {Dir},
               letter \in [{e[2] : e \in ever} -> Letters] :
                found' = Entries(words[1], alias, letter)
                         \o (IF live[2] # {} THEN Entries(words[2], alias, letter) ELSE <<>>)
       ELSE UNCHANGED found
    /\ IF n + 1 < NI THEN n' = n + 1 /\ UNCHANGED pc ELSE n' = 0 /\ pc' = "files"
    /\ UNCHANGED <<image, out>>

-----------------------------------------------------------------------------
(* The second pass: regular files                                          *)

\* The blocks that the loops over i_block reach, in their order; an entry that is 0 is
\* skipped wherever it stands.
HasNumber(b) == b # 0
Pointers(f, b) == IF b = 0 THEN <<>> ELSE SelectSeq(f.ptrs[b], HasNumber)
DirectBlocks(f) == SelectSeq(SubSeq(f.i_block, 1, NDIR), HasNumber)
SingleIndirect(f) == Pointers(f, f.i_block[NDIR + 1])
DoubleIndirect(f) ==
    FoldLeft(LAMBDA s, b : s \o Pointers(f, b), <<>>, Pointers(f, f.i_block[NDIR + 2]))
Reached(f) == DirectBlocks(f) \o SingleIndirect(f) \o DoubleIndirect(f)

\* The units of block b.
Data(b) == [u \in 1 .. BLOCK |-> <<b, u>>]

\* copy_data: of each block at most what is left of the size.
CopyWhole(content, b, size) == content \o Data(b)                     \* mutant of CopyBlock
CopyBlock(content, b, size) ==
    content \o SubSeq(Data(b), 1, Min({size - Len(content), BLOCK}))
copy_data(f) == FoldLeft(LAMBDA content, b : CopyBlock(content, b, f.size), <<>>, Reached(f))

\* copy_data_name has the same loops.
copy_data_name(f) == copy_data(f)

is_jpg(f) == \E i \in DOMAIN Reached(f) : Reached(f)[i] \in f.jpg

\* get_index: the first pair read for the inode, 0 if there is none.
get_indexAny(i) == IF found = <<>> THEN 0 ELSE 1                       \* mutant of get_index
get_index(i) == SelectInSeq(found, LAMBDA x : x[1] = i)

\* The outputs are files of one directory: a name may be that of an output by number.
ByNumber(i) == <<"file", i>>
ByName(s) == IF s \in DOMAIN Numbered THEN ByNumber(Numbered[s]) ELSE <<"name", s>>

\* One inode of the second pass.  A file in which more than one block looks like a
\* JPEG may be written again, to the same names with the same bytes.  A name that is
\* none (empty, or with a slash in it) cannot be opened, and this ends the program.
scanFile ==
    LET k == get_index(n)
        named == IF k = 0 THEN {} ELSE {ByName(found[k][2])}
        jpg == n \in DOMAIN file /\ is_jpg(file[n])
    IN
    /\ pc = "files"
    /\ \E opened \in SUBSET named :
        /\ jpg => named \ opened \subseteq {ByName("garbled")}
        /\ out' = IF jpg THEN [x \in opened |-> copy_data_name(file[n])]
                              @@ (ByNumber(n) :> copy_data(file[n])) @@ out
                         ELSE out
        /\ \/ jpg /\ opened # named /\ pc' = "exited" /\ UNCHANGED n
           \/ (jpg => opened = named) /\ n + 1 < NI /\ n' = n + 1 /\ UNCHANGED pc
           \/ (jpg => opened = named) /\ n + 1 = NI /\ n' = 0 /\ pc' = "done"
    /\ UNCHANGED <<image, found>>

-----------------------------------------------------------------------------
\* The files whose pairs the directory may hold, each a JPEG of one block.
Plain(i) == [i_block |-> [j \in 1 .. NDIR + 2 |-> IF j = 1 THEN i ELSE 0], ptrs |-> <<>>,
             size |-> 1, jpg |-> {i}]

\* Either the directory is left alone and a file has any of the layouts, or it is changed,
\* with plain files.
Init ==
    /\ pc = "image" /\ n = 0
    /\ words = <<Dots, Fresh>>
    /\ live = <<{0, 3}, {}>>
    /\ ever = {}
    /\ \/ changes = MaxChanges /\ \E f \in Layouts : file = [i \in Inodes \ {Dir} |->
                                        IF i = 2 THEN f ELSE Plain(i)]
       \/ changes = 0 /\ file = [i \in Inodes \ {Dir} |-> Plain(i)]
    /\ found = <<>>
    /\ out = <<>>

Next ==
    \/ start \/ scanDirectory \/ scanFile
    \/ \E s \in Names, i \in Inodes \ {Dir} : addEntry(s, i)
    \/ \E b \in {1, 2}, o \in Offsets : removeEntry(b, o)

Spec == Init /\ [][Next]_vars

-----------------------------------------------------------------------------
\* The directory's words are words of entries, the pairs read are numbers with names,
\* and the output files are named by an inode or a name.
TypeOK ==
    /\ pc \in {"image", "directories", "files", "done", "exited"} /\ n \in 0 .. NI - 1
    /\ changes \in 0 .. MaxChanges
    /\ live \in [{1, 2} -> SUBSET Offsets] /\ words \in [{1, 2} -> [Offsets -> Word]]
    /\ ever \subseteq (Inodes \ {Dir}) \X Names
    /\ DOMAIN file = Inodes \ {Dir} /\ \A i \in DOMAIN file : IsFile(file[i])
    /\ found \in Seq((1 .. Far) \X (Names \cup {"garbled"}))
    /\ DOMAIN out \subseteq ({"file"} \X Inodes) \cup ({"name"} \X (Names \cup {"garbled"}))

\* The number of a file's logical block b, counted from 0, as ext2 finds it; and what the
\* file holds.
BlockOf(f, b) ==
    LET x == b - NDIR - PTRS
        entry(t, k) == IF t = 0 THEN 0 ELSE f.ptrs[t][k + 1]
    IN CASE b < NDIR            -> f.i_block[b + 1]
         [] b - NDIR \in 0 .. PTRS - 1 -> entry(f.i_block[NDIR + 1], b - NDIR)
         [] OTHER               -> entry(entry(f.i_block[NDIR + 2], x \div PTRS), x % PTRS)
Content(f) == [u \in 1 .. f.size |-> <<BlockOf(f, (u - 1) \div BLOCK), ((u - 1) % BLOCK) + 1>>]
HasHole(f) == \E u \in 1 .. f.size : BlockOf(f, (u - 1) \div BLOCK) = 0

\* Every regular inode that main has passed, never the last of the table, and that has
\* a block which starts like a JPEG is written to file-<inode>.jpg byte for byte, over
\* the direct, single and double indirect blocks in their logical order, whatever blocks
\* lie behind its size.  This leaves out a file with holes (copy_data skips the blocks it
\* does not have) and one whose output a later inode truncates, because it once had the
\* name file-<inode>.jpg; an earlier inode of this name does no harm.
FilesRecovered ==
    /\ TypeOK
    /\ \A i \in Inodes \ {Dir, NI} :
          LET f == file[i] IN
          /\ pc = "done" \/ (pc = "files" /\ i < n)
          /\ \E b \in 0 .. NBLOCKS - 1 : BlockOf(f, b) \in f.jpg
          /\ ~HasHole(f)
          /\ ~\E e \in ever : ByName(e[2]) = ByNumber(i) /\ e[1] > i
          => ByNumber(i) \in DOMAIN out /\ out[ByNumber(i)] = Content(f)

\* When all names that were ever entered take the same room, and the driver cleared no
\* inode number, the walk over the first block meets every entry that the directory has
\* there, across whatever was deleted and reused.  An inode number that was cleared ends
\* the walk, and the entries behind it are not met.
LiveNamesFound ==
    /\ pc \in {"files", "done"}
    /\ \A d, e \in ever : NameWords[d[2]] = NameWords[e[2]]
    /\ \A o \in Offsets : words[1][o] # <<"ino", 0>>
    => \A e \in LiveIn(1) : e[1] # Dir => e \in ToSet(found)

\* So long as no name ended in one or two letters: a pair that the walk records for an
\* inode of the table was entered in the directory at some time, however its old entries
\* were overwritten and wherever the walk went out of step; a file written under a name
\* is the whole content of an inode that once had this name, although two inodes may
\* have had it and the second output replaces the first, or of inode i if the name reads
\* file-<i>.jpg; and no name that cannot be opened ends the program before the last
\* inode.
NamedOutputs ==
    NoShortNames =>
        /\ \A k \in DOMAIN found : found[k][1] \in Inodes => found[k] \in ever
        /\ pc # "exited"
        /\ \A s \in Names \cup {"garbled"} : ByName(s) \in DOMAIN out =>
               \E i \in Inodes \ {Dir, NI} :
                   /\ <<i, s>> \in ever \/ ByName(s) = ByNumber(i)
                   /\ HasHole(file[i]) \/ out[ByName(s)] = Content(file[i])
=============================================================================
