------------------------------ MODULE HashMap ------------------------------
(***************************************************************************)
(* The open-addressing hash map of p3a/hashmap.c.  contents[h] is the      *)
(* MapPair stored in slot h or Empty.  HashOf[k] is the 64-bit FNV hash of *)
(* k before it is reduced modulo the capacity.                             *)
(*                                                                         *)
(* MapPut runs with mutexQueue held from its first to its last statement   *)
(* and is one step.  MapGet takes no lock: the programs of p3a call it     *)
(* only once the threads that put are joined, and it is an operator here.  *)
(***************************************************************************)
EXTENDS Integers, FiniteSets, FiniteSetsExt

CONSTANTS Keys, Values, HashOf,
          InitCapacity,   \* MAP_INIT_CAPACITY, 11 in the code
          MaxCapacity,    \* bound: puts that would double beyond it stop
          Absent          \* MapGet's NULL

\* With fewer than three slots the map could fill up before it is resized.
ASSUME MapConstants ==
    /\ HashOf \in [Keys -> Nat]
    /\ InitCapacity \in Nat /\ InitCapacity >= 3
    /\ MaxCapacity \in Nat /\ MaxCapacity >= InitCapacity
    /\ Absent \notin Values

VARIABLES contents, capacity, size

vars == <<contents, capacity, size>>

Empty == <<>>

MapInit ==
    /\ contents = [h \in 0 .. InitCapacity - 1 |-> Empty]
    /\ capacity = InitCapacity
    /\ size = 0

\* The i-th slot tried for k in a table of c slots.
Slot(k, i, c) == ((HashOf[k] % c) + i) % c

\* MUTANT of Probe: the search stops at the end of the table.
ProbeNoWrap(table, c, k) ==
    LET stops == {h \in (HashOf[k] % c) .. (c - 1) : table[h] = Empty \/ table[h][1] = k}
    IN IF stops = {} THEN c - 1 ELSE Min(stops)

\* The loop of MapPut and MapGet: the first slot, from k's hash on and around
\* the end of the table, that is free or holds k.
Probe(table, c, k) ==
    LET stops == {i \in 0 .. c - 1 :
                     \/ table[Slot(k, i, c)] = Empty
                     \/ table[Slot(k, i, c)][1] = k}
    IN Slot(k, Min(stops), c)

\* resize_map, the rehash of one old slot into the new table: the first free
\* slot from the hash of its key on.
rehash(table, pair) ==
    IF pair = Empty THEN table
    ELSE LET c == 2 * capacity
             free == {i \in 0 .. c - 1 : table[Slot(pair[1], i, c)] = Empty}
         IN [table EXCEPT ![Slot(pair[1], Min(free), c)] = pair]

\* MUTANT of resize_map: the entries keep their slots.
resize_mapCopy ==
    [h \in 0 .. 2 * capacity - 1 |-> IF h < capacity THEN contents[h] ELSE Empty]

\* resize_map: the table of twice the capacity; temp[i] is its table temp when the
\* loop over the old one has come to slot i.
resize_map ==
    LET temp[i \in 0 .. capacity] ==
            IF i = 0 THEN [h \in 0 .. 2 * capacity - 1 |-> Empty]
            ELSE rehash(temp[i - 1], contents[i - 1])
    IN temp[capacity]

\* The table and capacity MapPut stores into, resized first when more than
\* half of the slots are used.
NeedsResize == size > capacity \div 2

\* MUTANT of MapPut: the table is never resized.
MapPutNoResize(k, v) ==
    LET h == Probe(contents, capacity, k) IN
    /\ contents' = [contents EXCEPT ![h] = <<k, v>>]
    /\ UNCHANGED capacity
    /\ size' = IF contents[h] = Empty THEN size + 1 ELSE size

\* MapPut
MapPut(k, v) ==
    LET c == IF NeedsResize THEN 2 * capacity ELSE capacity
        table == IF NeedsResize THEN resize_map ELSE contents
        h == Probe(table, c, k)
    IN /\ c <= MaxCapacity
       /\ contents' = [table EXCEPT ![h] = <<k, v>>]
       /\ capacity' = c
       /\ size' = IF table[h] = Empty THEN size + 1 ELSE size

\* MapGet
MapGet(k) ==
    LET h == Probe(contents, capacity, k)
    IN IF contents[h] = Empty THEN Absent ELSE contents[h][2]

Next == \E k \in Keys, v \in Values : MapPut(k, v)

Spec == MapInit /\ [][Next]_vars

-----------------------------------------------------------------------------
Slots == 0 .. capacity - 1

\* Types of the table, and size counts the slots in use.
TypeOK ==
    /\ capacity \in InitCapacity .. MaxCapacity
    /\ contents \in [Slots -> {Empty} \cup (Keys \X Values)]
    /\ size \in Nat

\* MapSize counts the keys, each of them has one pair, and at least one slot
\* stays free, without which MapGet of a key that was never put would not end.
SlotsRight ==
    /\ TypeOK
    /\ size = Cardinality({h \in Slots : contents[h] # Empty})
    /\ size < capacity
    /\ \A g, h \in Slots :
          contents[g] # Empty /\ contents[h] # Empty /\ contents[g][1] = contents[h][1]
              => g = h

KV == INSTANCE KeyValueMap WITH store <- [k \in Keys |-> MapGet(k)]

\* The table implements a map: MapGet finds what MapPut stored last and nothing
\* for a key that was never put, and a MapPut changes what it returns for its own
\* key only, across collisions, wrap-around and the steps that rehash the table.
ImplementsMap == KV!Spec
=============================================================================
