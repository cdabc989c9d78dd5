--------------------------- MODULE HashMapProofs ----------------------------
(***************************************************************************)
(* The open-addressing hash map for any set of keys and any hash function: *)
(* the table keeps a free slot and one pair for each key, and MapGet finds *)
(* what MapPut stored last, across collisions, the end of the table and    *)
(* the tables that resize_map makes.                                       *)
(***************************************************************************)
EXTENDS HashMap, FiniteSetTheorems, WellFoundedInduction, TLAPS

Tables(c) == [0 .. c - 1 -> {Empty} \cup (Keys \X Values)]
Used(table, c) == {h \in 0 .. c - 1 : table[h] # Empty}

\* One pair for each key.
OneEach(table, c) ==
    \A g, h \in Used(table, c) : table[g][1] = table[h][1] => g = h

\* A search that starts at the hash of a key comes to its pair before it comes to a
\* free slot.
Reached(table, c) ==
    \A h \in Used(table, c) :
        \E i \in 0 .. c - 1 :
            /\ Slot(table[h][1], i, c) = h
            /\ \A j \in 0 .. i - 1 : table[Slot(table[h][1], j, c)] # Empty

Sound(table, c) ==
    /\ table \in Tables(c)
    /\ OneEach(table, c)
    /\ Reached(table, c)

\* The m-th slot tried for k is the first one that is free; no pair has the key k.
FirstFree(table, c, k, m) ==
    /\ table[Slot(k, m, c)] = Empty
    /\ \A j \in 0 .. m - 1 : table[Slot(k, j, c)] # Empty

Stored(after, table, s, pair) == after = [table EXCEPT ![s] = pair]

Lacks(table, c, k) == \A h \in Used(table, c) : table[h][1] # k

\* What MapGet returns for k with this table.
Find(table, c, k) ==
    LET h == Probe(table, c, k) IN IF table[h] = Empty THEN Absent ELSE table[h][2]

IInv ==
    /\ capacity \in InitCapacity .. MaxCapacity
    /\ size \in Nat /\ size < capacity
    /\ Sound(contents, capacity)
    /\ size = Cardinality(Used(contents, capacity))

-----------------------------------------------------------------------------
\* A set of numbers that is not empty has a least one.
LEMMA LeastExists ==
    ASSUME NEW T \in SUBSET Nat, T # {}
    PROVE  \E x \in T : \A y \in T : x <= y
<1> DEFINE R == {ss \in Nat \X Nat : ss[1] < ss[2]}
<1>1. R = OpToRel(<, Nat)
  BY DEF OpToRel
<1>2. IsWellFoundedOn(R, Nat)
  BY <1>1, NatLessThanWellFounded, Zenon
<1> HIDE DEF R
<1>3. \E x \in T : \A y \in T : ~ (<<y, x>> \in R)
  BY <1>2, WFMin, Zenon
<1>4. \A x, y \in T : ~(<<y, x>> \in R) => x <= y
  BY DEF R
<1> QED
  BY <1>3, <1>4, Zenon

LEMMA MinFacts ==
    ASSUME NEW T \in SUBSET Nat, T # {}
    PROVE  Min(T) \in T /\ \A y \in T : Min(T) <= y
<1>1. \E x \in T : \A y \in T : x <= y
  BY LeastExists, Zenon
<1> QED
  BY <1>1, Zenon DEF Min

\* The slots tried for a key: each slot of the table once.
LEMMA SlotFacts ==
    ASSUME NEW c \in Nat, c > 0, NEW k \in Keys
    PROVE  /\ \A i \in 0 .. c - 1 : Slot(k, i, c) \in 0 .. c - 1
           /\ \A i, j \in 0 .. c - 1 : Slot(k, i, c) = Slot(k, j, c) => i = j
           /\ \A h \in 0 .. c - 1 : \E i \in 0 .. c - 1 : Slot(k, i, c) = h
<1>1. HashOf[k] \in Nat
  BY MapConstants
<1>2. PICK a \in 0 .. c - 1 : a = HashOf[k] % c
  BY <1>1
<1>3. ASSUME NEW i \in 0 .. c - 1
      PROVE  Slot(k, i, c) = IF a + i < c THEN a + i ELSE a + i - c
  <2>1. Slot(k, i, c) = (a + i) % c
    BY <1>2, Zenon DEF Slot
  <2>2. a + i \in 0 .. 2 * c - 1
    OBVIOUS
  <2>3. (a + i) % c = IF a + i < c THEN a + i ELSE a + i - c
    BY <2>2
  <2> QED
    BY <2>1, <2>3, Zenon
<1>4. ASSUME NEW h \in 0 .. c - 1 PROVE \E i \in 0 .. c - 1 : Slot(k, i, c) = h
  <2>1. CASE h >= a
    <3>1. h - a \in 0 .. c - 1 /\ a + (h - a) < c /\ a + (h - a) = h
      BY <2>1
    <3> QED
      BY <3>1, <1>3
  <2>2. CASE h < a
    <3>1. h - a + c \in 0 .. c - 1 /\ ~(a + (h - a + c) < c) /\ a + (h - a + c) - c = h
      BY <2>2
    <3> QED
      BY <3>1, <1>3
  <2> QED
    BY <2>1, <2>2
<1>5. \A i \in 0 .. c - 1 : Slot(k, i, c) \in 0 .. c - 1
  BY <1>3
<1>6. \A i, j \in 0 .. c - 1 : Slot(k, i, c) = Slot(k, j, c) => i = j
  BY <1>3
<1> QED
  BY <1>4, <1>5, <1>6, Zenon

LEMMA PairFacts ==
    ASSUME NEW c \in Nat, NEW table \in Tables(c), NEW h \in Used(table, c)
    PROVE  /\ h \in 0 .. c - 1
           /\ table[h] \in Keys \X Values
           /\ table[h][1] \in Keys /\ table[h][2] \in Values
           /\ table[h] = <<table[h][1], table[h][2]>>
           /\ table[h] # Empty
<1>1. table[h] \in Keys \X Values /\ h \in 0 .. c - 1 /\ table[h] # Empty
  BY Zenon DEF Tables, Used
<1> QED
  BY <1>1

LEMMA NotEmpty ==
    ASSUME NEW k, NEW v
    PROVE  <<k, v>> # Empty
BY DEF Empty

-----------------------------------------------------------------------------
\* The search for k stops at the first slot that is free or has k.
LEMMA ProbeFacts ==
    ASSUME NEW c \in Nat, c > 0, NEW table, NEW k \in Keys,
           \E h \in 0 .. c - 1 : table[h] = Empty
    PROVE  \E m \in 0 .. c - 1 :
              /\ Probe(table, c, k) = Slot(k, m, c)
              /\ table[Slot(k, m, c)] = Empty \/ table[Slot(k, m, c)][1] = k
              /\ \A j \in 0 .. m - 1 : /\ table[Slot(k, j, c)] # Empty
                                       /\ table[Slot(k, j, c)][1] # k
<1> DEFINE stops == {i \in 0 .. c - 1 : \/ table[Slot(k, i, c)] = Empty
                                        \/ table[Slot(k, i, c)][1] = k}
<1>1. Probe(table, c, k) = Slot(k, Min(stops), c)
  BY Zenon DEF Probe
<1>2. stops # {}
  <2>1. PICK h \in 0 .. c - 1 : table[h] = Empty
    BY Zenon
  <2>2. PICK i \in 0 .. c - 1 : Slot(k, i, c) = h
    BY SlotFacts, Zenon
  <2>3. i \in stops
    BY <2>1, <2>2, Zenon
  <2> QED
    BY <2>3, Zenon
<1>3. stops \in SUBSET Nat
  OBVIOUS
<1> HIDE DEF stops
<1>4. Min(stops) \in stops /\ \A y \in stops : Min(stops) <= y
  BY <1>2, <1>3, MinFacts, Zenon
<1>5. PICK m : m = Min(stops)
  OBVIOUS
<1>6. m \in 0 .. c - 1 /\ (table[Slot(k, m, c)] = Empty \/ table[Slot(k, m, c)][1] = k)
  BY <1>4, <1>5, Zenon DEF stops
<1>7. ASSUME NEW j \in 0 .. m - 1
      PROVE  table[Slot(k, j, c)] # Empty /\ table[Slot(k, j, c)][1] # k
  <2>1. j \in 0 .. c - 1 /\ ~(m <= j)
    BY <1>6
  <2>2. j \notin stops
    BY <1>4, <1>5, <2>1, Zenon
  <2> QED
    BY <2>1, <2>2, Zenon DEF stops
<1> QED
  BY <1>1, <1>5, <1>6, <1>7, Zenon

\* A sound table with a free slot: the search finds the pair of a key that has one, and
\* a free slot for a key that has none.
LEMMA ProbeSound ==
    ASSUME NEW c \in Nat, c > 0, NEW table, Sound(table, c), NEW k \in Keys,
           \E h \in 0 .. c - 1 : table[h] = Empty
    PROVE  /\ Probe(table, c, k) \in 0 .. c - 1
           /\ \A h \in Used(table, c) : table[h][1] = k => Probe(table, c, k) = h
           /\ (\A h \in Used(table, c) : table[h][1] # k) => table[Probe(table, c, k)] = Empty
           /\ table[Probe(table, c, k)] = Empty => \A h \in Used(table, c) : table[h][1] # k
<1>1. PICK m \in 0 .. c - 1 :
              /\ Probe(table, c, k) = Slot(k, m, c)
              /\ table[Slot(k, m, c)] = Empty \/ table[Slot(k, m, c)][1] = k
              /\ \A j \in 0 .. m - 1 : /\ table[Slot(k, j, c)] # Empty
                                       /\ table[Slot(k, j, c)][1] # k
  BY ProbeFacts, Zenon
<1>2. \A i \in 0 .. c - 1 : Slot(k, i, c) \in 0 .. c - 1
  BY SlotFacts, Zenon
<1>3. ASSUME NEW h \in Used(table, c), table[h][1] = k PROVE Slot(k, m, c) = h
  <2>1. PICK i \in 0 .. c - 1 : /\ Slot(k, i, c) = h
                                /\ \A j \in 0 .. i - 1 : table[Slot(k, j, c)] # Empty
    BY <1>3, Zenon DEF Sound, Reached
  <2>2. table[Slot(k, i, c)] # Empty /\ table[Slot(k, i, c)][1] = k
    BY <1>3, <2>1, Zenon DEF Used
  <2>3. ~(i < m)
    <3>1. i < m => i \in 0 .. m - 1
      OBVIOUS
    <3> QED
      BY <1>1, <2>2, <3>1, Zenon
  <2>4. ~(m < i)
    <3>1. m < i => m \in 0 .. i - 1
      OBVIOUS
    <3>2. SUFFICES ASSUME m < i PROVE FALSE
      BY Zenon
    <3>3. table[Slot(k, m, c)] # Empty
      BY <2>1, <3>1, <3>2, Zenon
    <3>4. Slot(k, m, c) \in Used(table, c) /\ table[Slot(k, m, c)][1] = k
      BY <1>1, <1>2, <3>3, Zenon DEF Used
    <3>5. Slot(k, m, c) = Slot(k, i, c)
      BY <1>3, <2>1, <3>4, Zenon DEF Sound, OneEach
    <3>6. m = i
      BY <3>5, SlotFacts, Zenon
    <3> QED
      BY <3>2, <3>6
  <2>5. m = i
    BY <2>3, <2>4
  <2> QED
    BY <2>1, <2>5, Zenon
<1>4. Slot(k, m, c) \in 0 .. c - 1
  BY <1>2, Zenon
<1> QED
  BY <1>1, <1>3, <1>4, Zenon DEF Used

\* What MapGet returns depends on the pairs only, not on where they are.
LEMMA FindFacts ==
    ASSUME NEW c \in Nat, c > 0, NEW table, Sound(table, c), NEW k \in Keys,
           \E h \in 0 .. c - 1 : table[h] = Empty
    PROVE  /\ \A h \in Used(table, c) : table[h][1] = k => Find(table, c, k) = table[h][2]
           /\ (\A h \in Used(table, c) : table[h][1] # k) => Find(table, c, k) = Absent
<1>1. \A h \in Used(table, c) : table[h] # Empty
  BY Zenon DEF Used
<1>2. PICK p : p = Probe(table, c, k)
  BY Zenon
<1>3. Find(table, c, k) = IF table[p] = Empty THEN Absent ELSE table[p][2]
  BY <1>2, Zenon DEF Find
<1>4. /\ \A h \in Used(table, c) : table[h][1] = k => p = h
      /\ (\A h \in Used(table, c) : table[h][1] # k) => table[p] = Empty
  BY <1>2, ProbeSound, Zenon
<1> QED
  BY <1>1, <1>3, <1>4, Zenon

LEMMA SamePairs ==
    ASSUME NEW c \in Nat, c > 0, NEW table, Sound(table, c),
           \E h \in 0 .. c - 1 : table[h] = Empty,
           NEW d \in Nat, d > 0, NEW other, Sound(other, d),
           \E h \in 0 .. d - 1 : other[h] = Empty,
           \A h \in Used(table, c) : \E g \in Used(other, d) : other[g] = table[h],
           \A g \in Used(other, d) : \E h \in Used(table, c) : other[g] = table[h],
           NEW k \in Keys
    PROVE  Find(other, d, k) = Find(table, c, k)
<1>1. /\ \A h \in Used(table, c) : table[h][1] = k => Find(table, c, k) = table[h][2]
      /\ (\A h \in Used(table, c) : table[h][1] # k) => Find(table, c, k) = Absent
  BY FindFacts
<1>2. /\ \A h \in Used(other, d) : other[h][1] = k => Find(other, d, k) = other[h][2]
      /\ (\A h \in Used(other, d) : other[h][1] # k) => Find(other, d, k) = Absent
  BY FindFacts
<1>3. CASE \E h \in Used(table, c) : table[h][1] = k
  <2>1. PICK h \in Used(table, c) : table[h][1] = k
    BY <1>3, Zenon
  <2>2. PICK g \in Used(other, d) : other[g] = table[h]
    BY Zenon
  <2> QED
    BY <1>1, <1>2, <2>1, <2>2, Zenon
<1>4. CASE \A h \in Used(table, c) : table[h][1] # k
  <2>1. ASSUME NEW g \in Used(other, d) PROVE other[g][1] # k
    <3>1. PICK h \in Used(table, c) : other[g] = table[h]
      BY Zenon
    <3> QED
      BY <1>4, <3>1, Zenon
  <2> QED
    BY <1>1, <1>2, <1>4, <2>1, Zenon
<1> QED
  BY <1>3, <1>4, Zenon

-----------------------------------------------------------------------------
\* A pair is stored in the first free slot for its key, which has no pair yet.
LEMMA Placed ==
    ASSUME NEW c \in Nat, c > 0, NEW table, Sound(table, c),
           NEW k \in Keys, NEW v \in Values, NEW m \in 0 .. c - 1,
           FirstFree(table, c, k, m), Lacks(table, c, k),
           NEW after, Stored(after, table, Slot(k, m, c), <<k, v>>)
    PROVE  /\ Sound(after, c)
           /\ Used(after, c) = Used(table, c) \cup {Slot(k, m, c)}
           /\ Slot(k, m, c) \notin Used(table, c)
           /\ after[Slot(k, m, c)] = <<k, v>>
           /\ \A h \in Used(table, c) : after[h] = table[h]
<1> USE DEF FirstFree, Lacks, Stored
<1>1. PICK s \in 0 .. c - 1 : s = Slot(k, m, c)
  BY SlotFacts, Zenon
<1>2. table \in Tables(c)
  BY Zenon DEF Sound
<1>3. after[s] = <<k, v>> /\ \A h \in 0 .. c - 1 : h # s => after[h] = table[h]
  BY <1>1, <1>2, Zenon DEF Tables
<1>4. after \in Tables(c)
  <2>1. <<k, v>> \in Keys \X Values
    OBVIOUS
  <2> QED
    BY <1>1, <1>2, <2>1, Zenon DEF Tables
<1>5. after[s] # Empty /\ table[s] = Empty
  BY <1>1, <1>3, NotEmpty, Zenon
<1>6. Used(after, c) = Used(table, c) \cup {s} /\ s \notin Used(table, c)
  BY <1>3, <1>5 DEF Used
<1>7. \A h \in Used(table, c) : after[h] = table[h]
  BY <1>3, <1>5, Zenon DEF Used
<1>8. after[s][1] = k
  BY <1>3
<1>9. OneEach(after, c)
  <2> SUFFICES ASSUME NEW g \in Used(after, c), NEW h \in Used(after, c),
                      after[g][1] = after[h][1]
               PROVE  g = h
    BY Zenon DEF OneEach
  <2>1. CASE g \in Used(table, c) /\ h \in Used(table, c)
    BY <1>7, <2>1, Zenon DEF Sound, OneEach
  <2>2. CASE g = s
    BY <1>6, <1>7, <1>8, <2>2, Zenon
  <2>3. CASE h = s
    BY <1>6, <1>7, <1>8, <2>3, Zenon
  <2> QED
    BY <1>6, <2>1, <2>2, <2>3, Zenon
<1>10. \A h \in 0 .. c - 1 : table[h] # Empty => after[h] # Empty
  BY <1>3, <1>5, Zenon
<1>11. Reached(after, c)
  <2> SUFFICES ASSUME NEW h \in Used(after, c)
               PROVE  \E i \in 0 .. c - 1 :
                         /\ Slot(after[h][1], i, c) = h
                         /\ \A j \in 0 .. i - 1 : after[Slot(after[h][1], j, c)] # Empty
    BY Zenon DEF Reached
  <2>1. CASE h \in Used(table, c)
    <3>1. PICK i \in 0 .. c - 1 :
                  /\ Slot(table[h][1], i, c) = h
                  /\ \A j \in 0 .. i - 1 : table[Slot(table[h][1], j, c)] # Empty
      BY <2>1, Zenon DEF Sound, Reached
    <3>2. after[h] = table[h] /\ table[h][1] \in Keys
      BY <1>2, <1>7, <2>1, PairFacts, Zenon
    <3>3. \A j \in 0 .. i - 1 : Slot(table[h][1], j, c) \in 0 .. c - 1
      <4>1. \A j \in 0 .. i - 1 : j \in 0 .. c - 1
        OBVIOUS
      <4> QED
        BY <3>2, <4>1, SlotFacts, Zenon
    <3> QED
      BY <1>10, <3>1, <3>2, <3>3, Zenon
  <2>2. CASE h = s
    <3>1. \A j \in 0 .. m - 1 : Slot(k, j, c) \in 0 .. c - 1
      <4>1. \A j \in 0 .. m - 1 : j \in 0 .. c - 1
        OBVIOUS
      <4> QED
        BY <4>1, SlotFacts, Zenon
    <3> QED
      BY <1>1, <1>8, <1>10, <2>2, <3>1, Zenon
  <2> QED
    BY <1>6, <2>1, <2>2, Zenon
<1> QED
  BY <1>1, <1>3, <1>4, <1>6, <1>7, <1>9, <1>11, Zenon DEF Sound

\* The pair of a key is replaced where it is.
LEMMA Replaced ==
    ASSUME NEW c \in Nat, c > 0, NEW table, Sound(table, c), NEW s \in Used(table, c),
           NEW v \in Values, NEW after, Stored(after, table, s, <<table[s][1], v>>)
    PROVE  /\ Sound(after, c)
           /\ Used(after, c) = Used(table, c)
           /\ after[s] = <<table[s][1], v>>
           /\ \A h \in Used(table, c) : h # s => after[h] = table[h]
<1> USE DEF Stored
<1>1. table \in Tables(c)
  BY Zenon DEF Sound
<1>2. table[s][1] \in Keys /\ s \in 0 .. c - 1
  BY <1>1, PairFacts, Zenon
<1>3. after[s] = <<table[s][1], v>> /\ \A h \in 0 .. c - 1 : h # s => after[h] = table[h]
  BY <1>1, <1>2, Zenon DEF Tables
<1>4. after \in Tables(c)
  <2>1. <<table[s][1], v>> \in Keys \X Values
    BY <1>2
  <2> QED
    BY <1>1, <2>1, Zenon DEF Tables
<1>5. after[s] # Empty /\ table[s] # Empty
  BY <1>3, NotEmpty, Zenon DEF Used
<1>6. \A h \in 0 .. c - 1 : after[h] = Empty <=> table[h] = Empty
  BY <1>3, <1>5, Zenon
<1>7. Used(after, c) = Used(table, c)
  BY <1>6, Zenon DEF Used
<1>8. \A h \in Used(table, c) : after[h][1] = table[h][1]
  <2>1. after[s][1] = table[s][1]
    BY <1>3
  <2> QED
    BY <1>3, <2>1, Zenon DEF Used
<1>9. OneEach(after, c)
  BY <1>7, <1>8, Zenon DEF Sound, OneEach
<1>10. Reached(after, c)
  <2> SUFFICES ASSUME NEW h \in Used(table, c)
               PROVE  \E i \in 0 .. c - 1 :
                         /\ Slot(after[h][1], i, c) = h
                         /\ \A j \in 0 .. i - 1 : after[Slot(after[h][1], j, c)] # Empty
    BY <1>7, Zenon DEF Reached
  <2>1. PICK i \in 0 .. c - 1 :
                /\ Slot(table[h][1], i, c) = h
                /\ \A j \in 0 .. i - 1 : table[Slot(table[h][1], j, c)] # Empty
    BY Zenon DEF Sound, Reached
  <2>2. after[h][1] = table[h][1] /\ table[h][1] \in Keys
    BY <1>1, <1>8, PairFacts, Zenon
  <2>3. \A j \in 0 .. i - 1 : Slot(table[h][1], j, c) \in 0 .. c - 1
    <3>1. \A j \in 0 .. i - 1 : j \in 0 .. c - 1
      OBVIOUS
    <3> QED
      BY <2>2, <3>1, SlotFacts, Zenon
  <2> QED
    BY <1>6, <2>1, <2>2, <2>3, Zenon
<1> QED
  BY <1>3, <1>4, <1>7, <1>9, <1>10, Zenon DEF Sound, Used

-----------------------------------------------------------------------------
LEMMA UsedFinite ==
    ASSUME NEW c \in Nat, NEW table
    PROVE  /\ IsFiniteSet(Used(table, c)) /\ Cardinality(Used(table, c)) \in Nat
           /\ Cardinality(Used(table, c)) <= c
<1>1. IsFiniteSet(0 .. c - 1) /\ Cardinality(0 .. c - 1) = c
  BY FS_Interval
<1>2. Used(table, c) \subseteq 0 .. c - 1
  BY Zenon DEF Used
<1>3. IsFiniteSet(Used(table, c)) /\ Cardinality(Used(table, c)) <= Cardinality(0 .. c - 1)
  BY <1>1, <1>2, FS_Subset, Zenon
<1>4. Cardinality(Used(table, c)) \in Nat
  BY <1>3, FS_CardinalityType, Zenon
<1> QED
  BY <1>1, <1>3, <1>4, Zenon

\* A table with fewer pairs than slots has a free one.
LEMMA RoomFacts ==
    ASSUME NEW c \in Nat, NEW table, Cardinality(Used(table, c)) < c
    PROVE  \E h \in 0 .. c - 1 : table[h] = Empty
<1>1. SUFFICES ASSUME \A h \in 0 .. c - 1 : table[h] # Empty PROVE FALSE
  BY Zenon
<1>2. Used(table, c) = 0 .. c - 1
  BY <1>1, Zenon DEF Used
<1>3. Cardinality(0 .. c - 1) = c
  BY FS_Interval
<1> QED
  BY <1>2, <1>3

\* One entry is rehashed.
LEMMA RehashFacts ==
    ASSUME capacity \in Nat, capacity > 0, NEW table, Sound(table, 2 * capacity),
           \E h \in 0 .. 2 * capacity - 1 : table[h] = Empty,
           NEW pair \in Keys \X Values, Lacks(table, 2 * capacity, pair[1])
    PROVE  \E s \in 0 .. 2 * capacity - 1 :
              /\ Sound(rehash(table, pair), 2 * capacity)
              /\ Used(rehash(table, pair), 2 * capacity) = Used(table, 2 * capacity) \cup {s}
              /\ s \notin Used(table, 2 * capacity)
              /\ rehash(table, pair)[s] = pair
              /\ \A h \in Used(table, 2 * capacity) : rehash(table, pair)[h] = table[h]
<1>1. PICK c \in Nat : c = 2 * capacity /\ c > 0
  OBVIOUS
<1>c. c \in Nat /\ c > 0
  BY <1>1, Zenon
<1>2. pair[1] \in Keys /\ pair[2] \in Values /\ pair = <<pair[1], pair[2]>>
  OBVIOUS
<1>3. PICK k \in Keys, v \in Values : pair = <<k, v>> /\ k = pair[1] /\ v = pair[2]
  BY <1>2, Zenon
<1> DEFINE free == {i \in 0 .. c - 1 : table[Slot(k, i, c)] = Empty}
<1>4. free # {}
  <2>1. PICK h \in 0 .. c - 1 : table[h] = Empty
    BY <1>1, Zenon
  <2>2. PICK i \in 0 .. c - 1 : Slot(k, i, c) = h
    BY <1>c, SlotFacts, Zenon
  <2>3. i \in free
    BY <2>1, <2>2, Zenon
  <2> QED
    BY <2>3, Zenon
<1>5. free \in SUBSET Nat
  OBVIOUS
<1>6. rehash(table, pair) = [table EXCEPT ![Slot(k, Min(free), c)] = pair]
  <2>1. pair # Empty
    BY <1>3, NotEmpty, Zenon
  <2> QED
    BY <1>1, <1>3, <2>1, Zenon DEF rehash
<1>7. /\ \A i \in free : i \in 0 .. c - 1 /\ table[Slot(k, i, c)] = Empty
      /\ \A i \in 0 .. c - 1 : i \notin free => table[Slot(k, i, c)] # Empty
  BY Zenon
<1> HIDE DEF free
<1>8. Min(free) \in free /\ \A y \in free : Min(free) <= y
  BY <1>4, <1>5, MinFacts, Zenon
<1>9. PICK m : m = Min(free)
  BY Zenon
<1>10. m \in 0 .. c - 1 /\ table[Slot(k, m, c)] = Empty
  BY <1>7, <1>8, <1>9, Zenon
<1>11. ASSUME NEW j \in 0 .. m - 1 PROVE table[Slot(k, j, c)] # Empty
  <2>1. j \in 0 .. c - 1 /\ ~(m <= j)
    BY <1>10
  <2> QED
    BY <1>7, <1>8, <1>9, <2>1, Zenon
<1>12. Sound(table, c) /\ Lacks(table, c, k)
  BY <1>1, <1>3, Zenon
<1>13. PICK after : after = rehash(table, pair)
  BY Zenon
<1>14. after = [table EXCEPT ![Slot(k, m, c)] = <<k, v>>]
  BY <1>3, <1>6, <1>9, <1>13, Zenon
<1>15. /\ Sound(after, c)
       /\ Used(after, c) = Used(table, c) \cup {Slot(k, m, c)}
       /\ Slot(k, m, c) \notin Used(table, c)
       /\ after[Slot(k, m, c)] = <<k, v>>
       /\ \A h \in Used(table, c) : after[h] = table[h]
  <2>1. FirstFree(table, c, k, m) /\ Lacks(table, c, k) /\ m \in 0 .. c - 1
    BY <1>10, <1>11, <1>12, Zenon DEF FirstFree
  <2>2. Sound(table, c) /\ Stored(after, table, Slot(k, m, c), <<k, v>>)
    BY <1>12, <1>14, Zenon DEF Stored
  <2> QED
    BY <1>c, <2>1, <2>2, Placed
<1>16. Slot(k, m, c) \in 0 .. c - 1
  BY <1>c, <1>10, SlotFacts, Zenon
<1> QED
  BY <1>1, <1>3, <1>13, <1>15, <1>16, Zenon

\* The loop of resize_map: the table after every number of turns.
LEMMA TempExists ==
    ASSUME NEW n \in Nat
    PROVE  \E f : f = [i \in 0 .. n |->
                          IF i = 0 THEN [h \in 0 .. 2 * capacity - 1 |-> Empty]
                          ELSE rehash(f[i - 1], contents[i - 1])]
<1> DEFINE first == [h \in 0 .. 2 * capacity - 1 |-> Empty]
           Is(f, a) == f = [i \in 0 .. a |-> IF i = 0 THEN first
                                             ELSE rehash(f[i - 1], contents[i - 1])]
           T == {a \in Nat : ~ \E f : Is(f, a)}
<1>1. SUFFICES ASSUME T # {} PROVE FALSE
  BY Zenon
<1>2. PICK a \in T : \A b \in T : a <= b
  <2>1. T \in SUBSET Nat
    OBVIOUS
  <2> HIDE DEF T
  <2> QED
    BY <1>1, <2>1, LeastExists, Zenon
<1>3. a \in Nat /\ ~ \E f : Is(f, a)
  BY Zenon
<1>4. CASE a = 0
  <2> DEFINE g == [i \in 0 .. a |-> first]
  <2>1. \A i \in 0 .. a : g[i] = IF i = 0 THEN first ELSE rehash(g[i - 1], contents[i - 1])
    BY <1>4
  <2>2. g = [i \in 0 .. a |-> g[i]]
    BY Zenon
  <2> HIDE DEF g, first
  <2>3. Is(g, a)
    BY <2>1, <2>2, Zenon
  <2> QED
    BY <1>3, <2>3, Zenon
<1>5. CASE a # 0
  <2>1. a - 1 \in Nat /\ ~(a <= a - 1)
    BY <1>3, <1>5
  <2>2. PICK f : Is(f, a - 1)
    BY <1>2, <2>1, Zenon
  <2> DEFINE g == [i \in 0 .. a |-> IF i = a THEN rehash(f[a - 1], contents[a - 1]) ELSE f[i]]
  <2>3. g = [i \in 0 .. a |-> g[i]]
    BY Zenon
  <2>4. ASSUME NEW i \in 0 .. a
        PROVE  g[i] = IF i = 0 THEN first ELSE rehash(g[i - 1], contents[i - 1])
    <3>1. CASE i = a
      <4>1. a - 1 \in 0 .. a /\ a - 1 # a
        BY <1>3, <2>1
      <4>2. g[a - 1] = f[a - 1]
        BY <4>1, Zenon
      <4> QED
        BY <1>5, <3>1, <4>2, Zenon
    <3>2. CASE i # a
      <4>1. i \in 0 .. a - 1
        BY <1>3, <3>2
      <4>2. g[i] = f[i]
        BY <3>2, Zenon
      <4>3. i # 0 => i - 1 \in 0 .. a /\ i - 1 # a
        BY <1>3
      <4>4. i # 0 => g[i - 1] = f[i - 1]
        BY <4>3, Zenon
      <4>5. f[i] = IF i = 0 THEN first ELSE rehash(f[i - 1], contents[i - 1])
        <5> HIDE DEF first, g
        <5> QED
          BY <2>2, <4>1, Zenon
      <4> HIDE DEF first, g
      <4> QED
        BY <4>2, <4>4, <4>5, Zenon
    <3> QED
      BY <3>1, <3>2, Zenon
  <2> HIDE DEF g, first
  <2>5. Is(g, a)
    BY <2>3, <2>4, Zenon
  <2> QED
    BY <1>3, <2>5, Zenon
<1> QED
  BY <1>4, <1>5, Zenon

\* resize_map has the old entries, each of them once and where a search finds it.
UsedTo(n) == {g \in 0 .. n - 1 : contents[g] # Empty}

Moved(table, n) ==
    /\ Sound(table, 2 * capacity)
    /\ Cardinality(Used(table, 2 * capacity)) = Cardinality(UsedTo(n))
    /\ \A h \in Used(table, 2 * capacity) : \E g \in UsedTo(n) : table[h] = contents[g]
    /\ \A g \in UsedTo(n) : \E h \in Used(table, 2 * capacity) : table[h] = contents[g]

LEMMA MovedNone ==
    ASSUME capacity \in Nat, capacity > 0
    PROVE  Moved([h \in 0 .. 2 * capacity - 1 |-> Empty], 0)
<1>1. PICK table : table = [h \in 0 .. 2 * capacity - 1 |-> Empty]
  BY Zenon
<1>2. Used(table, 2 * capacity) = {}
  BY <1>1, Zenon DEF Used
<1>3. UsedTo(0) = {}
  BY DEF UsedTo
<1>4. table \in Tables(2 * capacity)
  BY <1>1, Zenon DEF Tables
<1>5. Sound(table, 2 * capacity)
  BY <1>2, <1>4, Zenon DEF Sound, OneEach, Reached
<1> QED
  BY <1>1, <1>2, <1>3, <1>5, Zenon DEF Moved

LEMMA MovedOne ==
    ASSUME capacity \in Nat, capacity > 0, Sound(contents, capacity),
           NEW n \in 1 .. capacity, NEW table, Moved(table, n - 1)
    PROVE  Moved(rehash(table, contents[n - 1]), n)
<1>0. contents \in Tables(capacity)
  BY Zenon DEF Sound
<1>1. n - 1 \in 0 .. capacity - 1 /\ n - 1 \in 0 .. n - 1 /\ n - 1 \notin 0 .. (n - 1) - 1
      /\ n \in Nat /\ n - 1 \in Nat
  OBVIOUS
<1>2. \A g : g \in 0 .. n - 1 <=> (g \in 0 .. (n - 1) - 1 \/ g = n - 1)
  OBVIOUS
<1>3. CASE contents[n - 1] = Empty
  <2>1. UsedTo(n) = UsedTo(n - 1)
    BY <1>2, <1>3, Zenon DEF UsedTo
  <2>2. rehash(table, contents[n - 1]) = table
    BY <1>3, Zenon DEF rehash
  <2> QED
    BY <2>1, <2>2, Zenon DEF Moved
<1>4. CASE contents[n - 1] # Empty
  <2>1. UsedTo(n) = UsedTo(n - 1) \cup {n - 1} /\ n - 1 \notin UsedTo(n - 1)
    BY <1>1, <1>2, <1>4, Zenon DEF UsedTo
  <2>2. \A g \in UsedTo(n) : g \in Used(contents, capacity)
    <3>1. \A g \in 0 .. n - 1 : g \in 0 .. capacity - 1
      OBVIOUS
    <3> QED
      BY <3>1, Zenon DEF UsedTo, Used
  <2>3. PICK pair \in Keys \X Values : pair = contents[n - 1]
    BY <1>0, <2>1, <2>2, PairFacts, Zenon
  <2>4. ASSUME NEW h \in Used(table, 2 * capacity) PROVE table[h][1] # pair[1]
    <3>1. PICK g \in UsedTo(n - 1) : table[h] = contents[g]
      BY Zenon DEF Moved
    <3>2. g # n - 1 /\ g \in Used(contents, capacity) /\ n - 1 \in Used(contents, capacity)
      BY <2>1, <2>2, Zenon
    <3> QED
      BY <2>3, <3>1, <3>2, Zenon DEF Sound, OneEach
  <2>5. IsFiniteSet(UsedTo(n - 1)) /\ Cardinality(UsedTo(n - 1)) \in Nat
        /\ Cardinality(UsedTo(n - 1)) <= n - 1
    <3>1. UsedTo(n - 1) = Used(contents, n - 1)
      BY Zenon DEF UsedTo, Used
    <3> QED
      BY <1>1, <3>1, UsedFinite, Zenon
  <2>6. \E h \in 0 .. 2 * capacity - 1 : table[h] = Empty
    <3>1. Cardinality(Used(table, 2 * capacity)) = Cardinality(UsedTo(n - 1))
      BY Zenon DEF Moved
    <3>2. Cardinality(Used(table, 2 * capacity)) < 2 * capacity /\ 2 * capacity \in Nat
      BY <2>5, <3>1
    <3> QED
      BY <3>2, RoomFacts, Zenon
  <2>7. PICK after : after = rehash(table, pair)
    BY Zenon
  <2>8. PICK s \in 0 .. 2 * capacity - 1 :
              /\ Sound(after, 2 * capacity)
              /\ Used(after, 2 * capacity) = Used(table, 2 * capacity) \cup {s}
              /\ s \notin Used(table, 2 * capacity)
              /\ after[s] = pair
              /\ \A h \in Used(table, 2 * capacity) : after[h] = table[h]
    <3>1. Sound(table, 2 * capacity)
      BY Zenon DEF Moved
    <3>2. Lacks(table, 2 * capacity, pair[1])
      BY <2>4, Zenon DEF Lacks
    <3> QED
      BY <2>6, <2>7, <3>1, <3>2, RehashFacts
  <2>9. Cardinality(Used(after, 2 * capacity)) = Cardinality(UsedTo(n))
    <3>1. IsFiniteSet(Used(table, 2 * capacity))
          /\ Cardinality(Used(table, 2 * capacity)) = Cardinality(UsedTo(n - 1))
      <4>1. 2 * capacity \in Nat
        OBVIOUS
      <4> QED
        BY <4>1, UsedFinite, Zenon DEF Moved
    <3>2. Cardinality(Used(after, 2 * capacity)) = Cardinality(Used(table, 2 * capacity)) + 1
      BY <2>8, <3>1, FS_AddElement, Zenon
    <3>3. Cardinality(UsedTo(n)) = Cardinality(UsedTo(n - 1)) + 1
      BY <2>1, <2>5, FS_AddElement, Zenon
    <3> QED
      BY <3>1, <3>2, <3>3, Zenon
  <2>10. ASSUME NEW h \in Used(after, 2 * capacity) PROVE \E g \in UsedTo(n) : after[h] = contents[g]
    <3>1. CASE h \in Used(table, 2 * capacity)
      <4>1. PICK g \in UsedTo(n - 1) : table[h] = contents[g]
        BY <3>1, Zenon DEF Moved
      <4> QED
        BY <2>1, <2>8, <3>1, <4>1, Zenon
    <3>2. CASE h = s
      BY <2>1, <2>3, <2>8, <3>2, Zenon
    <3> QED
      BY <2>8, <3>1, <3>2, Zenon
  <2>11. ASSUME NEW g \in UsedTo(n) PROVE \E h \in Used(after, 2 * capacity) : after[h] = contents[g]
    <3>1. CASE g \in UsedTo(n - 1)
      <4>1. PICK h \in Used(table, 2 * capacity) : table[h] = contents[g]
        BY <3>1, Zenon DEF Moved
      <4> QED
        BY <2>8, <4>1, Zenon
    <3>2. CASE g = n - 1
      BY <2>3, <2>8, <3>2, Zenon
    <3> QED
      BY <2>1, <3>1, <3>2, Zenon
  <2>12. Moved(after, n)
    BY <2>8, <2>9, <2>10, <2>11, Zenon DEF Moved
  <2> QED
    BY <2>3, <2>7, <2>12, Zenon
<1> QED
  BY <1>3, <1>4, Zenon

LEMMA ResizeFacts ==
    ASSUME capacity \in Nat, capacity > 0, Sound(contents, capacity)
    PROVE  Moved(resize_map, capacity)
<1> DEFINE first == [h \in 0 .. 2 * capacity - 1 |-> Empty]
<1>1. PICK f : /\ f = [i \in 0 .. capacity |-> IF i = 0 THEN first
                                               ELSE rehash(f[i - 1], contents[i - 1])]
               /\ resize_map = f[capacity]
  BY TempExists, Zenon DEF resize_map
<1>2. /\ f[0] = first
      /\ \A i \in 1 .. capacity : f[i] = rehash(f[i - 1], contents[i - 1])
  <2>1. 0 \in 0 .. capacity /\ \A i \in 1 .. capacity : i \in 0 .. capacity /\ i # 0
    OBVIOUS
  <2> HIDE DEF first
  <2> QED
    BY <1>1, <2>1, Zenon
<1> DEFINE T == {n \in 0 .. capacity : ~ Moved(f[n], n)}
<1>3. T = {}
  <2>1. SUFFICES ASSUME T # {} PROVE FALSE
    BY Zenon
  <2>2. PICK n \in T : \A b \in T : n <= b
    <3>1. T \in SUBSET Nat
      OBVIOUS
    <3> HIDE DEF T
    <3> QED
      BY <2>1, <3>1, LeastExists, Zenon
  <2>3. n \in 0 .. capacity /\ ~ Moved(f[n], n)
    BY Zenon
  <2>4. n # 0
    BY <1>2, <2>3, MovedNone, Zenon
  <2>5. n \in 1 .. capacity /\ n - 1 \in 0 .. capacity /\ ~(n <= n - 1)
    BY <2>3, <2>4
  <2>6. Moved(f[n - 1], n - 1)
    BY <2>2, <2>5, Zenon
  <2>7. Moved(rehash(f[n - 1], contents[n - 1]), n)
    BY <2>5, <2>6, MovedOne, Zenon
  <2> QED
    BY <1>2, <2>3, <2>5, <2>7, Zenon
<1>4. capacity \in 0 .. capacity
  OBVIOUS
<1> QED
  BY <1>1, <1>3, <1>4, Zenon

-----------------------------------------------------------------------------
\* The part of MapPut after the resize.
LEMMA PutFacts ==
    ASSUME NEW c \in Nat, c > 0, NEW table, Sound(table, c),
           Cardinality(Used(table, c)) + 1 < c,
           NEW k \in Keys, NEW v \in Values,
           NEW after, Stored(after, table, Probe(table, c, k), <<k, v>>)
    PROVE  /\ Sound(after, c)
           /\ Cardinality(Used(after, c)) =
                 IF table[Probe(table, c, k)] = Empty THEN Cardinality(Used(table, c)) + 1
                 ELSE Cardinality(Used(table, c))
           /\ \A q \in Keys : Find(after, c, q) = IF q = k THEN v ELSE Find(table, c, q)
<1>1. IsFiniteSet(Used(table, c)) /\ Cardinality(Used(table, c)) \in Nat
      /\ Cardinality(Used(table, c)) < c
  BY UsedFinite
<1>2. \E h \in 0 .. c - 1 : table[h] = Empty
  BY <1>1, RoomFacts, Zenon
<1>3. PICK m \in 0 .. c - 1 :
              /\ Probe(table, c, k) = Slot(k, m, c)
              /\ table[Slot(k, m, c)] = Empty \/ table[Slot(k, m, c)][1] = k
              /\ \A j \in 0 .. m - 1 : /\ table[Slot(k, j, c)] # Empty
                                       /\ table[Slot(k, j, c)][1] # k
  BY <1>2, ProbeFacts
<1>4. PICK s : s = Probe(table, c, k)
  BY Zenon
<1>5. s \in 0 .. c - 1 /\ s = Slot(k, m, c) /\ Stored(after, table, s, <<k, v>>)
  <2>1. s = Slot(k, m, c)
    BY <1>3, <1>4, Zenon
  <2>2. Slot(k, m, c) \in 0 .. c - 1
    BY SlotFacts, Zenon
  <2> QED
    BY <1>4, <2>1, <2>2, Zenon
\* what is the same in both cases
<1>6. /\ Sound(after, c)
      /\ Used(after, c) = Used(table, c) \cup {s}
      /\ after[s] = <<k, v>>
      /\ \A h \in Used(table, c) : h # s => after[h] = table[h]
      /\ \A h \in Used(table, c) : h # s => table[h][1] # k
  <2>1. CASE table[s] = Empty
    <3>1. Lacks(table, c, k)
      <4>1. table[Probe(table, c, k)] = Empty => \A h \in Used(table, c) : table[h][1] # k
        BY <1>2, ProbeSound
      <4> QED
        BY <1>4, <2>1, <4>1, Zenon DEF Lacks
    <3>2. FirstFree(table, c, k, m) /\ Stored(after, table, Slot(k, m, c), <<k, v>>)
      BY <1>3, <1>5, <2>1, Zenon DEF FirstFree
    <3>3. /\ Sound(after, c)
          /\ Used(after, c) = Used(table, c) \cup {Slot(k, m, c)}
          /\ after[Slot(k, m, c)] = <<k, v>>
          /\ \A h \in Used(table, c) : after[h] = table[h]
      BY <3>1, <3>2, Placed
    <3> QED
      BY <1>5, <3>1, <3>3, Zenon DEF Lacks
  <2>2. CASE table[s] # Empty
    <3>1. s \in Used(table, c) /\ table[s][1] = k
      BY <1>3, <1>5, <2>2, Zenon DEF Used
    <3>2. Stored(after, table, s, <<table[s][1], v>>)
      BY <1>5, <3>1, Zenon
    <3>3. /\ Sound(after, c)
          /\ Used(after, c) = Used(table, c)
          /\ after[s] = <<table[s][1], v>>
          /\ \A h \in Used(table, c) : h # s => after[h] = table[h]
      BY <3>1, <3>2, Replaced
    <3>4. \A h \in Used(table, c) : h # s => table[h][1] # k
      BY <3>1, Zenon DEF Sound, OneEach
    <3>5. Used(after, c) = Used(table, c) \cup {s}
      BY <3>1, <3>3, Zenon
    <3> QED
      BY <3>1, <3>3, <3>4, <3>5, Zenon
  <2> QED
    BY <2>1, <2>2, Zenon
<1>7. Cardinality(Used(after, c)) = IF table[s] = Empty THEN Cardinality(Used(table, c)) + 1
                                    ELSE Cardinality(Used(table, c))
  <2>1. CASE table[s] = Empty
    <3>1. s \notin Used(table, c)
      BY <2>1, Zenon DEF Used
    <3>2. Cardinality(Used(table, c) \cup {s}) = Cardinality(Used(table, c)) + 1
      BY <1>1, <3>1, FS_AddElement, Zenon
    <3> QED
      BY <1>6, <2>1, <3>2, Zenon
  <2>2. CASE table[s] # Empty
    <3>1. Used(table, c) \cup {s} = Used(table, c)
      BY <1>5, <2>2, Zenon DEF Used
    <3> QED
      BY <1>6, <2>2, <3>1, Zenon
  <2> QED
    BY <2>1, <2>2, Zenon
<1>8. \E h \in 0 .. c - 1 : after[h] = Empty
  <2>1. Cardinality(Used(after, c)) < c
    BY <1>1, <1>7
  <2> QED
    BY <2>1, RoomFacts, Zenon
<1>9. ASSUME NEW q \in Keys PROVE Find(after, c, q) = IF q = k THEN v ELSE Find(table, c, q)
  <2>1. /\ \A h \in Used(after, c) : after[h][1] = q => Find(after, c, q) = after[h][2]
        /\ (\A h \in Used(after, c) : after[h][1] # q) => Find(after, c, q) = Absent
    BY <1>6, <1>8, FindFacts
  <2>2. /\ \A h \in Used(table, c) : table[h][1] = q => Find(table, c, q) = table[h][2]
        /\ (\A h \in Used(table, c) : table[h][1] # q) => Find(table, c, q) = Absent
    BY <1>2, FindFacts
  <2>3. after[s][1] = k /\ after[s][2] = v /\ s \in Used(after, c)
    BY <1>6
  <2>4. CASE q = k
    BY <2>1, <2>3, <2>4, Zenon
  <2>5. CASE q # k /\ \E h \in Used(table, c) : table[h][1] = q
    <3>1. PICK h \in Used(table, c) : table[h][1] = q
      BY <2>5, Zenon
    <3>2. h # s
      <4>1. CASE table[s] = Empty
        BY <4>1, Zenon DEF Used
      <4>2. CASE table[s] # Empty
        BY <1>3, <1>5, <2>5, <3>1, <4>2, Zenon
      <4> QED
        BY <4>1, <4>2, Zenon
    <3>3. h \in Used(after, c) /\ after[h] = table[h]
      BY <1>6, <3>2, Zenon
    <3> QED
      BY <2>1, <2>2, <2>5, <3>1, <3>3, Zenon
  <2>6. CASE q # k /\ \A h \in Used(table, c) : table[h][1] # q
    <3>1. ASSUME NEW h \in Used(after, c) PROVE after[h][1] # q
      <4>1. CASE h = s
        BY <2>3, <2>6, <4>1, Zenon
      <4>2. CASE h # s
        BY <1>6, <2>6, <4>2, Zenon
      <4> QED
        BY <4>1, <4>2, Zenon
    <3> QED
      BY <2>1, <2>2, <2>6, <3>1, Zenon
  <2> QED
    BY <2>4, <2>5, <2>6, Zenon
<1> QED
  BY <1>4, <1>6, <1>7, <1>9, Zenon

\* The table MapPut stores into, old or resized: it has room for the pair and one more,
\* and MapGet would return from it what it returns now.
LEMMA TableFacts ==
    ASSUME IInv, NEW c, c = IF NeedsResize THEN 2 * capacity ELSE capacity,
           NEW table, table = IF NeedsResize THEN resize_map ELSE contents
    PROVE  /\ c \in Nat /\ c >= capacity /\ c > 0
           /\ Sound(table, c)
           /\ Cardinality(Used(table, c)) = size
           /\ size + 1 < c
           /\ \A q \in Keys : Find(table, c, q) = MapGet(q)
<1>1. capacity \in Nat /\ capacity >= 3 /\ size \in Nat /\ size < capacity
      /\ size = Cardinality(Used(contents, capacity))
  BY MapConstants DEF IInv
<1>2. Sound(contents, capacity)
  BY Zenon DEF IInv
<1>3. \A q \in Keys : MapGet(q) = Find(contents, capacity, q)
  BY Zenon DEF MapGet, Find
<1>4. CASE ~NeedsResize
  <2>1. c = capacity /\ table = contents
    BY <1>4, Zenon
  <2>2. size + 1 < capacity
    <3>1. size <= capacity \div 2
      BY <1>1, <1>4 DEF NeedsResize
    <3>2. capacity \div 2 + 1 < capacity
      BY <1>1
    <3>3. capacity \div 2 \in Nat
      BY <1>1
    <3> QED
      BY <1>1, <3>1, <3>2, <3>3
  <2>3. c \in Nat /\ c >= capacity /\ c > 0
    BY <1>1, <2>1
  <2> QED
    BY <1>1, <1>2, <1>3, <2>1, <2>2, <2>3, Zenon
<1>5. CASE NeedsResize
  <2>1. c = 2 * capacity /\ table = resize_map
    BY <1>5, Zenon
  <2>2. c \in Nat /\ c >= capacity /\ c > 0 /\ size + 1 < c /\ capacity > 0
    BY <1>1, <2>1
  <2>3. Moved(table, capacity)
    BY <1>1, <1>2, <2>1, <2>2, ResizeFacts, Zenon
  <2>4. UsedTo(capacity) = Used(contents, capacity)
    BY Zenon DEF UsedTo, Used
  <2>5. /\ Sound(table, c)
        /\ Cardinality(Used(table, c)) = size
        /\ \A h \in Used(table, c) : \E g \in Used(contents, capacity) : table[h] = contents[g]
        /\ \A g \in Used(contents, capacity) : \E h \in Used(table, c) : table[h] = contents[g]
    BY <1>1, <2>1, <2>3, <2>4, Zenon DEF Moved
  <2>6. Cardinality(Used(table, c)) < c
    BY <1>1, <2>2, <2>5
  <2>7. \E h \in 0 .. c - 1 : table[h] = Empty
    BY <2>2, <2>6, RoomFacts, Zenon
  <2>8. \E h \in 0 .. capacity - 1 : contents[h] = Empty
    BY <1>1, RoomFacts, Zenon
  <2>9. ASSUME NEW q \in Keys PROVE Find(table, c, q) = Find(contents, capacity, q)
    BY <1>1, <1>2, <2>2, <2>5, <2>7, <2>8, SamePairs
  <2> QED
    BY <1>3, <2>2, <2>5, <2>9, Zenon
<1> QED
  BY <1>4, <1>5, Zenon

\* A MapPut keeps IInv and changes what MapGet returns for its own key only.
LEMMA PutStep ==
    ASSUME IInv, NEW k \in Keys, NEW v \in Values, MapPut(k, v)
    PROVE  IInv' /\ \A q \in Keys : MapGet(q)' = IF q = k THEN v ELSE MapGet(q)
<1>1. PICK c : c = IF NeedsResize THEN 2 * capacity ELSE capacity
  BY Zenon
<1>2. PICK table : table = IF NeedsResize THEN resize_map ELSE contents
  BY Zenon
<1>3. /\ c <= MaxCapacity /\ capacity' = c
      /\ Stored(contents', table, Probe(table, c, k), <<k, v>>)
      /\ size' = IF table[Probe(table, c, k)] = Empty THEN size + 1 ELSE size
  BY <1>1, <1>2, Zenon DEF MapPut, Stored
<1>4. /\ c \in Nat /\ c >= capacity /\ c > 0
      /\ Sound(table, c)
      /\ Cardinality(Used(table, c)) = size
      /\ size + 1 < c
      /\ \A q \in Keys : Find(table, c, q) = MapGet(q)
  BY <1>1, <1>2, TableFacts, Zenon
<1>5. PICK after : after = contents'
  BY Zenon
<1>6. /\ Sound(after, c)
      /\ Cardinality(Used(after, c)) =
            IF table[Probe(table, c, k)] = Empty THEN Cardinality(Used(table, c)) + 1
            ELSE Cardinality(Used(table, c))
      /\ \A q \in Keys : Find(after, c, q) = IF q = k THEN v ELSE Find(table, c, q)
  <2>1. Cardinality(Used(table, c)) + 1 < c
    BY <1>4, Zenon
  <2>2. Stored(after, table, Probe(table, c, k), <<k, v>>)
    BY <1>3, <1>5, Zenon
  <2> QED
    BY <1>4, <2>1, <2>2, PutFacts
<1>7. \A q \in Keys : MapGet(q)' = Find(after, c, q)
  BY <1>3, <1>5, Zenon DEF MapGet, Find
<1>8. Sound(contents', capacity') /\ size' = Cardinality(Used(contents', capacity'))
  BY <1>3, <1>4, <1>5, <1>6, Zenon
<1>9. capacity' \in InitCapacity .. MaxCapacity /\ size' \in Nat /\ size' < capacity'
  BY <1>3, <1>4, MapConstants DEF IInv
<1>10. IInv'
  BY <1>8, <1>9, Zenon DEF IInv
<1> QED
  BY <1>4, <1>6, <1>7, <1>10, Zenon

LEMMA InitIInv == MapInit => IInv /\ \A q \in Keys : MapGet(q) = Absent
<1> SUFFICES ASSUME MapInit PROVE IInv /\ \A q \in Keys : MapGet(q) = Absent
  BY Zenon
<1>1. contents = [h \in 0 .. capacity - 1 |-> Empty] /\ capacity = InitCapacity /\ size = 0
  BY Zenon DEF MapInit
<1>2. capacity \in InitCapacity .. MaxCapacity /\ capacity \in Nat /\ capacity > 0
  BY <1>1, MapConstants
<1>3. Used(contents, capacity) = {}
  BY <1>1, Zenon DEF Used
<1>4. size = Cardinality(Used(contents, capacity)) /\ size \in Nat /\ size < capacity
  BY <1>1, <1>2, <1>3, FS_EmptySet
<1>5. contents \in Tables(capacity)
  BY <1>1, Zenon DEF Tables
<1>6. Sound(contents, capacity)
  BY <1>3, <1>5, Zenon DEF Sound, OneEach, Reached
<1>7. \E h \in 0 .. capacity - 1 : contents[h] = Empty
  BY <1>2, <1>4, RoomFacts, Zenon
<1>8. ASSUME NEW q \in Keys PROVE MapGet(q) = Absent
  <2>1. (\A h \in Used(contents, capacity) : contents[h][1] # q)
            => Find(contents, capacity, q) = Absent
    BY <1>2, <1>6, <1>7, FindFacts
  <2>2. MapGet(q) = Find(contents, capacity, q)
    BY Zenon DEF MapGet, Find
  <2> QED
    BY <1>3, <2>1, <2>2, Zenon
<1> QED
  BY <1>2, <1>4, <1>6, <1>8, Zenon DEF IInv

LEMMA StepIInv == IInv /\ [Next]_vars => IInv'
<1> SUFFICES ASSUME IInv, [Next]_vars PROVE IInv'
  BY Zenon
<1>1. CASE UNCHANGED vars
  BY <1>1, Zenon DEF IInv, vars
<1>2. CASE Next
  BY <1>2, PutStep, Zenon DEF Next
<1> QED
  BY <1>1, <1>2, Zenon

\* IInv holds in every state: the table is sound and has a free slot.
THEOREM Invariance == Spec => []IInv
BY InitIInv, StepIInv, PTL DEF Spec

\* MapSize counts the keys, each of them has one pair and a slot stays free, for any
\* keys, hashes and capacities: no search of MapPut or MapGet goes on for ever.
THEOREM SlotsKept == Spec => []SlotsRight
<1>1. ASSUME IInv PROVE SlotsRight
  <2>1. Used(contents, capacity) = {h \in Slots : contents[h] # Empty}
    BY Zenon DEF Used, Slots
  <2>2. TypeOK
    BY <1>1, Zenon DEF IInv, Sound, Tables, TypeOK, Slots
  <2>3. \A g, h \in Slots :
           contents[g] # Empty /\ contents[h] # Empty /\ contents[g][1] = contents[h][1]
              => g = h
    BY <1>1, <2>1, Zenon DEF IInv, Sound, OneEach
  <2> QED
    BY <1>1, <2>1, <2>2, <2>3, Zenon DEF IInv, SlotsRight
<1> QED
  BY <1>1, Invariance, PTL

\* The hash map implements the plain map: MapGet finds what MapPut stored last, a MapPut
\* changes what it returns for its own key only, and resize_map changes nothing.
THEOREM Refinement == Spec => ImplementsMap
<1>1. MapInit => KV!Init
  BY InitIInv, Zenon DEF KV!Init
<1>2. IInv /\ [Next]_vars => [KV!Next]_([k \in Keys |-> MapGet(k)])
  <2> SUFFICES ASSUME IInv, [Next]_vars PROVE [KV!Next]_([k \in Keys |-> MapGet(k)])
    BY Zenon
  <2>1. CASE UNCHANGED vars
    BY <2>1, Zenon DEF vars, MapGet
  <2>2. ASSUME NEW k \in Keys, NEW v \in Values, MapPut(k, v) PROVE KV!Put(k, v)
    <3>1. \A q \in Keys : MapGet(q)' = IF q = k THEN v ELSE MapGet(q)
      BY <2>2, PutStep, Zenon
    <3> QED
      BY <3>1, Zenon DEF KV!Put
  <2> QED
    BY <2>1, <2>2, Zenon DEF Next, KV!Next
<1> QED
  BY <1>1, <1>2, Invariance, PTL DEF Spec, ImplementsMap, KV!Spec
=============================================================================
