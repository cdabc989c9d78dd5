---------------------------- MODULE MCMapReduce ----------------------------
(***************************************************************************)
(* Two files over four words, one word twice in a file and again in the    *)
(* other.  An optimised build has two partitions, three words in one of    *)
(* them; the other build has one.                                          *)
(***************************************************************************)
EXTENDS MapReduce

MCThreads == Mappers \cup Reducers
MCContent == <<<<2, 1, 2>>, <<4, 2, 3>>>>
MCBuilds ==
    {[partitions |-> 2, partOf |-> [k \in 1 .. NumKeys |-> IF k = 2 THEN 0 ELSE 1], rereads |-> FALSE],
     [partitions |-> 1, partOf |-> [k \in 1 .. NumKeys |-> 0], rereads |-> TRUE]}
=============================================================================
