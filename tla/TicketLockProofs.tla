-------------------------- MODULE TicketLockProofs --------------------------
(***************************************************************************)
(* Mutual exclusion of the ticket lock for every finite set of threads and *)
(* every word size that has at least as many values as there are threads.  *)
(***************************************************************************)
EXTENDS TicketLock, Sequences, FiniteSetTheorems, TLAPS

\* The holder's number is the one being served, and the value lock_release
\* has loaded is still the value of turn when it is stored.
HolderServed ==
    /\ \A t \in Holders : myturn[t] = turn
    /\ \A t \in Threads : pc[t] = "store" => loaded[t] = turn

\* The inductive invariant: mutual exclusion follows from HolderServed and
\* the distinctness of the numbers drawn, which needs NumbersInService.
IInv == TypeOK /\ NumbersInService /\ HolderServed

-----------------------------------------------------------------------------
\* A sum of two words wraps at most once.
LEMMA ModOnce ==
    ASSUME NEW x \in 0 .. 2 * Modulus - 1
    PROVE  x % Modulus = IF x < Modulus THEN x ELSE x - Modulus
  BY ModulusAssumption

\* The increment of the code at machine width.
LEMMA IncWord ==
    ASSUME NEW n \in Word
    PROVE  /\ Inc(n) \in Word
           /\ Inc(n) = IF n + 1 = Modulus THEN 0 ELSE n + 1
<1>1. n + 1 \in 0 .. 2 * Modulus - 1
  BY ModulusAssumption DEF Word
<1> QED
  BY <1>1, ModOnce, ModulusAssumption DEF Inc, Word

\* The threads with a number are finitely many and fit the word.
LEMMA DrawnBounded ==
    /\ IsFiniteSet(Drawn)
    /\ Cardinality(Drawn) \in 0 .. Modulus
    /\ \A t \in Threads \ Drawn : Cardinality(Drawn) < Modulus
<1>1. Drawn \in SUBSET Threads
  BY DEF Drawn
<1>2. IsFiniteSet(Drawn) /\ Cardinality(Drawn) <= Cardinality(Threads)
  BY <1>1, ThreadsFinite, FS_Subset
<1>3. Cardinality(Drawn) \in Nat /\ Cardinality(Threads) \in Nat
  BY <1>2, ThreadsFinite, FS_CardinalityType
<1>4. ASSUME NEW t \in Threads \ Drawn
      PROVE  Cardinality(Drawn) < Modulus
  <2>1. Cardinality(Drawn) # Cardinality(Threads)
    BY <1>1, <1>4, ThreadsFinite, FS_Subset
  <2> QED
    BY <2>1, <1>2, <1>3, ModulusAssumption
<1> QED
  BY <1>2, <1>3, <1>4, ModulusAssumption

\* lock_acquire's fetch-and-add puts the thread at the end of the line.
LEMMA DrawStep ==
    ASSUME IInv, NEW t \in Threads, Draw(t)
    PROVE  IInv'
<1> DEFINE n == Cardinality(Drawn)
<1>1. t \notin Drawn /\ Drawn' = Drawn \cup {t}
  BY DEF Draw, Drawn, IInv, TypeOK, Locations
<1>2. n \in Nat /\ n < Modulus /\ Modulus \in Nat
  BY <1>1, DrawnBounded, ModulusAssumption
<1>3. Cardinality(Drawn)' = n + 1
  BY <1>1, DrawnBounded, FS_AddElement
<1>4. ticket = IF turn + n < Modulus THEN turn + n ELSE turn + n - Modulus
  <2>1. turn + n \in 0 .. 2 * Modulus - 1
    BY <1>2 DEF IInv, TypeOK, Word
  <2> QED
    BY <2>1, <1>2, ModOnce, ModulusAssumption
       DEF IInv, TypeOK, Word, NumbersInService, TicketIsNext
<1>5. ticket' \in Word
      /\ ticket' = IF ticket + 1 = Modulus THEN 0 ELSE ticket + 1
  BY IncWord DEF IInv, TypeOK, Draw
<1>6. TypeOK'
  BY <1>5 DEF IInv, TypeOK, Draw, Locations
<1>7. \A s \in Drawn : myturn'[s] = myturn[s] /\ Distance(s)' = Distance(s)
  BY <1>1 DEF IInv, TypeOK, Draw, Distance, Drawn
<1>8. myturn'[t] = ticket /\ Distance(t)' = n
  BY <1>4, <1>2 DEF IInv, TypeOK, Draw, Distance, Word
<1>9. \A s \in Drawn : Distance(s) < n /\ myturn[s] \in Word
  BY DEF IInv, TypeOK, NumbersInService, WithinLine, Drawn
<1>10. \A s \in Drawn : myturn[s] # ticket
  BY <1>4, <1>2, <1>9 DEF IInv, TypeOK, Distance, Word
<1>11. OneNumberEach'
  BY <1>1, <1>7, <1>8, <1>10 DEF IInv, NumbersInService, OneNumberEach
<1>12. WithinLine'
  <2>1. \A s \in Drawn : Distance(s) \in Nat
    BY <1>9, <1>2 DEF IInv, TypeOK, Distance, Word
  <2> QED
    BY <2>1, <1>1, <1>2, <1>3, <1>7, <1>8, <1>9 DEF WithinLine
<1>13. TicketIsNext'
  <2>1. turn' = turn /\ turn + (n + 1) \in 0 .. 2 * Modulus - 1
    BY <1>2 DEF IInv, TypeOK, Draw, Word
  <2>2. (turn + (n + 1)) % Modulus = IF turn + (n + 1) < Modulus
              THEN turn + (n + 1) ELSE turn + (n + 1) - Modulus
    BY <2>1, <1>2, ModOnce, ModulusAssumption DEF IInv, TypeOK, Word
  <2>3. ticket' = (turn + (n + 1)) % Modulus
    BY <2>2, <1>2, <1>4, <1>5 DEF IInv, TypeOK, Word
  <2> QED
    BY <2>1, <2>3, <1>3 DEF TicketIsNext
<1>14. HolderServed'
  BY DEF IInv, TypeOK, HolderServed, Holders, Draw
<1> QED
  BY <1>6, <1>11, <1>12, <1>13, <1>14 DEF IInv, NumbersInService

\* Polling, sleeping and the load of lock_release move no number.
LEMMA LocalStep ==
    ASSUME IInv, NEW t \in Threads, Poll(t) \/ Wake(t) \/ Load(t)
    PROVE  IInv'
<1> USE DEF Poll, Wake, Load
<1>1. TypeOK'
  BY DEF IInv, TypeOK, Locations
<1>2. Drawn' = Drawn /\ UNCHANGED <<turn, ticket, myturn>>
  BY DEF IInv, TypeOK, Drawn, Locations
<1>3. NumbersInService'
  BY <1>2 DEF IInv, NumbersInService, OneNumberEach, WithinLine, TicketIsNext, Distance
<1>4. HolderServed'
  BY DEF IInv, TypeOK, HolderServed, Holders
<1> QED
  BY <1>1, <1>3, <1>4 DEF IInv

\* At most one thread holds the lock.
LEMMA HolderUnique ==
    IInv => MutualExclusion
BY DEF IInv, NumbersInService, OneNumberEach, HolderServed, MutualExclusion,
       Holders, Drawn

\* lock_release's store moves everybody in line one place forward.
LEMMA StoreStep ==
    ASSUME IInv, NEW t \in Threads, Store(t)
    PROVE  IInv'
<1> DEFINE n == Cardinality(Drawn)
<1>1. t \in Holders /\ t \in Drawn /\ Drawn' = Drawn \ {t}
  BY DEF Store, Drawn, Holders, IInv, TypeOK, Locations
<1>2. n \in Nat /\ n <= Modulus /\ Modulus \in Nat
  BY DrawnBounded, ModulusAssumption
<1>3. Cardinality(Drawn)' = n - 1
  BY <1>1, DrawnBounded, FS_RemoveElement
<1>4. myturn[t] = turn /\ loaded[t] = turn
  BY <1>1 DEF IInv, HolderServed, Store
<1>5. turn' \in Word
      /\ turn' = IF turn + 1 = Modulus THEN 0 ELSE turn + 1
  BY <1>4, IncWord DEF IInv, TypeOK, Store
<1>6. TypeOK'
  BY <1>5 DEF IInv, TypeOK, Store, Locations
<1>7. \A s \in Drawn \ {t} : /\ myturn[s] \in Word /\ myturn[s] # turn
                             /\ Distance(s) < n
  BY <1>1, <1>4 DEF IInv, TypeOK, NumbersInService, OneNumberEach, WithinLine, Drawn
<1>8. \A s \in Drawn \ {t} : Distance(s) \in Nat /\ Distance(s)' = Distance(s) - 1
  BY <1>5, <1>7, <1>2 DEF IInv, TypeOK, Store, Distance, Word
<1>9. OneNumberEach'
  BY <1>1 DEF IInv, NumbersInService, OneNumberEach, Store
<1>10. WithinLine'
  BY <1>1, <1>2, <1>3, <1>7, <1>8 DEF WithinLine
<1>11. n > 0
  BY <1>1, <1>2, DrawnBounded, FS_EmptySet
<1>12. TicketIsNext'
  <2>1. /\ turn + n \in 0 .. 2 * Modulus - 1
        /\ turn' + (n - 1) \in 0 .. 2 * Modulus - 1
    BY <1>2, <1>5, <1>11 DEF IInv, TypeOK, Word
  <2>2. (turn + n) % Modulus = IF turn + n < Modulus
                               THEN turn + n ELSE turn + n - Modulus
    BY <2>1, <1>2, ModOnce, ModulusAssumption DEF IInv, TypeOK, Word
  <2>3. (turn' + (n - 1)) % Modulus = IF turn' + (n - 1) < Modulus
                    THEN turn' + (n - 1) ELSE turn' + (n - 1) - Modulus
    BY <2>1, <1>2, <1>5, <1>11, ModOnce, ModulusAssumption DEF IInv, TypeOK, Word
  <2>4. ticket' = (turn' + (n - 1)) % Modulus
    BY <2>2, <2>3, <1>2, <1>5, <1>11
       DEF IInv, TypeOK, NumbersInService, TicketIsNext, Store, Word
  <2> QED
    BY <2>4, <1>3 DEF TicketIsNext
<1>13. HolderServed'
  <2>1. \A s \in Holders : s = t
    BY <1>1, HolderUnique DEF MutualExclusion
  <2> QED
    BY <2>1 DEF IInv, TypeOK, HolderServed, Holders, Store
<1> QED
  BY <1>6, <1>9, <1>10, <1>12, <1>13 DEF IInv, NumbersInService

\* IInv is an inductive invariant of the ticket lock.
THEOREM Invariance == Spec => []IInv
<1>1. Init => IInv
  <2> SUFFICES ASSUME Init PROVE IInv
    OBVIOUS
  <2>1. Drawn = {} /\ Holders = {}
    BY DEF Init, Drawn, Holders
  <2>2. TypeOK
    BY ModulusAssumption DEF Init, TypeOK, Locations, Word
  <2>3. (turn + Cardinality(Drawn)) % Modulus = ticket
    BY <2>1, FS_EmptySet, ModulusAssumption DEF Init
  <2> QED
    BY <2>1, <2>2, <2>3 DEF IInv, NumbersInService, OneNumberEach, WithinLine,
       TicketIsNext, HolderServed, Init
<1>2. IInv /\ [Next]_vars => IInv'
  <2> SUFFICES ASSUME IInv, [Next]_vars PROVE IInv'
    OBVIOUS
  <2>1. CASE UNCHANGED vars
    BY <2>1 DEF IInv, TypeOK, NumbersInService, OneNumberEach, WithinLine,
       TicketIsNext, HolderServed, Holders, Drawn, Distance, vars
  <2>2. CASE Next
    BY <2>2, DrawStep, LocalStep, StoreStep DEF Next
  <2> QED
    BY <2>1, <2>2
<1> QED
  BY <1>1, <1>2, PTL DEF Spec

\* Every variable of the lock keeps its type; in particular both counters
\* stay machine words.
THEOREM TypeCorrect == Spec => []TypeOK
BY Invariance, PTL DEF IInv

\* lock_acquire and lock_release exclude each other's critical sections,
\* although the increment of turn is a separate load and store.
THEOREM Mutex == Spec => []MutualExclusion
BY Invariance, HolderUnique, PTL

\* The outstanding numbers are the ones from turn up to ticket, each drawn
\* once, also across the wrap of the counters.
THEOREM NumbersTracked == Spec => []NumbersInService
BY Invariance, PTL DEF IInv

-----------------------------------------------------------------------------
\* Line lists the threads with a number, each at its distance from being served.
InLine ==
    /\ Cardinality(Drawn) \in Nat
    /\ Line \in [1 .. Cardinality(Drawn) -> Drawn]
    /\ \A i \in 1 .. Cardinality(Drawn) : Distance(Line[i]) = i - 1
    /\ \A t \in Drawn : /\ Distance(t) \in 0 .. Cardinality(Drawn) - 1
                        /\ Line[Distance(t) + 1] = t

\* The distances are as many as the threads with a number and all different, so every
\* place in the line is taken, and by one thread.
LEMMA LineOrdered == IInv => InLine
<1> SUFFICES ASSUME IInv PROVE InLine
  OBVIOUS
<1> DEFINE n == Cardinality(Drawn)
           D == {Distance(t) : t \in Drawn}
           f == [t \in Drawn |-> Distance(t)]
<1>1. IsFiniteSet(Drawn) /\ n \in Nat
  BY DrawnBounded
<1>2. \A t \in Drawn : Distance(t) \in 0 .. n - 1
  BY <1>1, ModulusAssumption
     DEF IInv, TypeOK, NumbersInService, WithinLine, Distance, Drawn, Word
<1>3. \A s, t \in Drawn : Distance(s) = Distance(t) => s = t
  <2>1. \A t \in Drawn : myturn[t] \in Word /\ turn \in Word
    BY DEF IInv, TypeOK, Drawn
  <2>2. \A s, t \in Drawn : Distance(s) = Distance(t) => myturn[s] = myturn[t]
    BY <2>1, ModulusAssumption DEF Distance, Word
  <2> QED
    BY <2>2 DEF IInv, NumbersInService, OneNumberEach
<1> HIDE DEF n
<1>4. f \in Bijection(Drawn, D)
  BY <1>3, Zenon DEF Bijection, Injection, Surjection, IsInjective
<1>5. IsFiniteSet(D) /\ Cardinality(D) = n
  BY <1>1, <1>4, FS_Bijection DEF ExistsBijection, n
<1>6. IsFiniteSet(0 .. n - 1) /\ Cardinality(0 .. n - 1) = n
  BY <1>1, FS_Interval
<1>7. D \in SUBSET (0 .. n - 1)
  BY <1>2
<1>8. D = 0 .. n - 1
  BY <1>5, <1>6, <1>7, FS_Subset
<1>9. \A i \in 1 .. n : \E t \in Drawn : Distance(t) = i - 1
  <2> TAKE i \in 1 .. n
  <2>1. i - 1 \in D
    BY <1>1, <1>8
  <2> QED
    BY <2>1
<1>10. /\ Line \in [1 .. n -> Drawn]
       /\ \A i \in 1 .. n : Distance(Line[i]) = i - 1
  BY <1>9 DEF Line, n
<1>11. \A t \in Drawn : Distance(t) + 1 \in 1 .. n /\ (Distance(t) + 1) - 1 = Distance(t)
  BY <1>1, <1>2
<1>12. \A t \in Drawn : Line[Distance(t) + 1] = t
  BY <1>3, <1>10, <1>11
<1> QED
  BY <1>1, <1>2, <1>10, <1>12 DEF InLine, n

\* The same of the next state.
LEMMA LineOrderedNext == IInv' => InLine'
BY LineOrdered, PTL

\* A line is a sequence of threads.
LEMMA LineSeq ==
    ASSUME InLine
    PROVE  /\ Line \in Seq(Drawn) /\ Len(Line) = Cardinality(Drawn)
           /\ DOMAIN Line = 1 .. Cardinality(Drawn)
BY DEF InLine

\* Drawing a number is joining the line at its end.
LEMMA DrawRefines ==
    ASSUME IInv, IInv', NEW t \in Threads, Draw(t)
    PROVE  Fifo!Request(t)
<1> DEFINE n == Cardinality(Drawn)
<1>1. t \notin Drawn /\ Drawn' = Drawn \cup {t} /\ Holders' = Holders
  BY DEF Draw, Drawn, Holders, IInv, TypeOK, Locations
<1>2. InLine /\ InLine'
  BY LineOrdered, LineOrderedNext
<1>3. n \in Nat /\ Cardinality(Drawn)' = n + 1
  BY <1>1, <1>2, DrawnBounded, FS_AddElement DEF InLine
<1>4. \A s \in Drawn : Distance(s)' = Distance(s)
  BY <1>1 DEF IInv, TypeOK, Draw, Distance, Drawn
<1>5. Line' \in [1 .. n + 1 -> Drawn'] /\ Line \in [1 .. n -> Drawn]
  BY <1>2, <1>3 DEF InLine
<1>6. \A i \in 1 .. n : Line'[i] = Line[i]
  <2> TAKE i \in 1 .. n
  <2>1. PICK s \in Drawn : s = Line[i]
    BY <1>5
  <2>2. Distance(s)' = i - 1 /\ s \in Drawn'
    BY <1>1, <1>2, <1>4, <2>1 DEF InLine
  <2>3. Line'[Distance(s)' + 1] = s
    BY <1>2, <2>2 DEF InLine
  <2> QED
    BY <1>3, <2>1, <2>2, <2>3
<1>7. Line'[n + 1] = t
  <2>1. PICK k \in 1 .. n + 1 : Line'[k] = t
    <3>1. Distance(t)' \in 0 .. (n + 1) - 1 /\ Line'[Distance(t)' + 1] = t
      BY <1>1, <1>2, <1>3 DEF InLine
    <3> QED
      BY <1>3, <3>1
  <2>2. k \notin 1 .. n
    BY <1>1, <1>5, <1>6, <2>1
  <2> QED
    BY <1>3, <2>1, <2>2
<1> HIDE DEF n
<1>8. Line' = Append(Line, t)
  <2>1. Line \in Seq(Drawn') /\ Len(Line) = n /\ t \in Drawn'
    BY <1>1, <1>3, <1>5
  <2>2. Line' \in Seq(Drawn') /\ Len(Line') = n + 1
    BY <1>3, <1>5
  <2> QED
    BY <1>3, <1>6, <1>7, <2>1, <2>2
<1>9. \A i \in DOMAIN Line : Line[i] # t
  BY <1>1, <1>5
<1> QED
  BY <1>1, <1>8, <1>9 DEF Fifo!Request

\* Only the thread at the head of the line leaves the loop of lock_acquire, and it finds
\* the lock free.
LEMMA PollRefines ==
    ASSUME IInv, NEW t \in Threads, Poll(t)
    PROVE  Fifo!Enter(t) \/ UNCHANGED Fifo!vars
<1>1. t \in Drawn /\ Drawn' = Drawn /\ UNCHANGED <<turn, myturn>>
  BY DEF Poll, Drawn, IInv, TypeOK, Locations
<1>2. Line' = Line
  BY <1>1 DEF Line, Distance
<1>3. CASE turn = myturn[t]
  <2>1. Distance(t) = 0
    BY <1>3 DEF Distance, IInv, TypeOK, Word
  <2>2. Line # <<>> /\ Head(Line) = t
    <3>1. InLine
      BY LineOrdered
    <3>2. 0 \in 0 .. Cardinality(Drawn) - 1 /\ Line[1] = t
      BY <1>1, <2>1, <3>1 DEF InLine
    <3> QED
      BY <3>1, <3>2, LineSeq DEF InLine
  <2>3. Holders = {}
    <3> SUFFICES ASSUME NEW s \in Holders PROVE FALSE
      OBVIOUS
    <3>1. s \in Drawn /\ myturn[s] = myturn[t]
      BY <1>3 DEF IInv, HolderServed, Holders, Drawn
    <3>2. s = t
      BY <1>1, <3>1 DEF IInv, NumbersInService, OneNumberEach
    <3> QED
      BY <3>2 DEF Poll, Holders
  <2>4. Holders' = {t}
    BY <1>3, <2>3 DEF Poll, Holders, IInv, TypeOK
  <2> QED
    BY <1>2, <2>2, <2>3, <2>4 DEF Fifo!Enter
<1>4. CASE turn # myturn[t]
  <2>1. Holders' = Holders
    BY <1>4 DEF Poll, Holders, IInv, TypeOK
  <2> QED
    BY <1>2, <2>1 DEF Fifo!vars
<1> QED
  BY <1>3, <1>4

\* The store of lock_release takes the head off the line.
LEMMA StoreRefines ==
    ASSUME IInv, IInv', NEW t \in Threads, Store(t)
    PROVE  Fifo!Leave(t)
<1> DEFINE n == Cardinality(Drawn)
<1>1. t \in Holders /\ t \in Drawn /\ Drawn' = Drawn \ {t}
  BY DEF Store, Drawn, Holders, IInv, TypeOK, Locations
<1>2. Holders = {t}
  BY <1>1, HolderUnique DEF MutualExclusion
<1>3. Holders' = {}
  BY <1>2 DEF Store, Holders, IInv, TypeOK
<1>4. InLine /\ InLine'
  BY LineOrdered, LineOrderedNext
<1>5. n \in Nat /\ n > 0 /\ Cardinality(Drawn)' = n - 1
  <2>1. n \in Nat /\ n # 0
    BY <1>1, <1>4, DrawnBounded, FS_EmptySet DEF InLine
  <2>2. Cardinality(Drawn)' = n - 1
    BY <1>1, DrawnBounded, FS_RemoveElement
  <2> QED
    BY <2>1, <2>2
<1>6. myturn[t] = turn /\ turn' = IF turn + 1 = Modulus THEN 0 ELSE turn + 1
  BY <1>1, IncWord DEF IInv, TypeOK, HolderServed, Store
<1>7. \A s \in Drawn \ {t} : Distance(s)' = Distance(s) - 1
  <2>1. \A s \in Drawn \ {t} : myturn[s] \in Word /\ myturn[s] # turn
    BY <1>1, <1>6 DEF IInv, TypeOK, NumbersInService, OneNumberEach, Drawn
  <2> QED
    BY <1>6, <2>1, ModulusAssumption DEF IInv, TypeOK, Store, Distance, Word
<1>8. Line' \in [1 .. n - 1 -> Drawn'] /\ Line \in [1 .. n -> Drawn]
  BY <1>4, <1>5 DEF InLine
<1>9. \A i \in 1 .. n - 1 : Line'[i] = Line[i + 1]
  <2> TAKE i \in 1 .. n - 1
  <2>1. PICK s \in Drawn \ {t} : s = Line'[i]
    BY <1>1, <1>8
  <2>2. Distance(s)' = i - 1
    BY <1>4, <1>5, <2>1 DEF InLine
  <2>3. Distance(s) = i
    BY <1>4, <1>5, <1>7, <2>2 DEF InLine
  <2> QED
    BY <1>4, <2>1, <2>3 DEF InLine
<1> HIDE DEF n
<1>10. Line' = Tail(Line)
  <2>1. Line \in Seq(Drawn) /\ Len(Line) = n /\ Line # <<>>
    BY <1>5, <1>8
  <2>2. Line' \in Seq(Drawn) /\ Len(Line') = n - 1
    BY <1>1, <1>5, <1>8
  <2> QED
    BY <1>5, <1>9, <2>1, <2>2
<1> QED
  BY <1>2, <1>3, <1>10 DEF Fifo!Leave

\* The order of the fetch-and-adds is the order of the critical sections, for any number
\* of threads that fits the word and across the wrap of both counters.
THEOREM Refinement == Spec => ImplementsFifo
<1>1. Init => Fifo!Init
  <2> SUFFICES ASSUME Init PROVE Fifo!Init
    OBVIOUS
  <2>1. Drawn = {} /\ Holders = {}
    BY DEF Init, Drawn, Holders
  <2>2. Line = <<>>
    BY <2>1, FS_EmptySet DEF Line
  <2> QED
    BY <2>1, <2>2 DEF Fifo!Init
<1>2. IInv /\ IInv' /\ [Next]_vars => [Fifo!Next]_(Fifo!vars)
  <2> SUFFICES ASSUME IInv, IInv', [Next]_vars PROVE [Fifo!Next]_(Fifo!vars)
    OBVIOUS
  <2>1. CASE UNCHANGED vars
    BY <2>1 DEF vars, Fifo!vars, Line, Drawn, Holders, Distance
  <2>2. ASSUME NEW t \in Threads, Draw(t) PROVE Fifo!Next
    BY <2>2, DrawRefines DEF Fifo!Next
  <2>3. ASSUME NEW t \in Threads, Poll(t) PROVE [Fifo!Next]_(Fifo!vars)
    BY <2>3, PollRefines DEF Fifo!Next
  <2>4. ASSUME NEW t \in Threads, Wake(t) \/ Load(t) PROVE UNCHANGED Fifo!vars
    <3>1. Drawn' = Drawn /\ Holders' = Holders /\ UNCHANGED <<turn, myturn>>
      BY <2>4 DEF Wake, Load, Drawn, Holders, IInv, TypeOK, Locations
    <3> QED
      BY <3>1 DEF Fifo!vars, Line, Distance
  <2>5. ASSUME NEW t \in Threads, Store(t) PROVE Fifo!Next
    BY <2>5, StoreRefines DEF Fifo!Next
  <2> QED
    BY <2>1, <2>2, <2>3, <2>4, <2>5 DEF Next
<1>3. Spec => Fifo!Spec
  BY <1>1, <1>2, Invariance, PTL DEF Spec, Fifo!Spec
<1> QED
  BY <1>3 DEF ImplementsFifo
=============================================================================
