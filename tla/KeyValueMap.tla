---------------------------- MODULE KeyValueMap ----------------------------
(***************************************************************************)
(* What the p3a hash map promises its clients: a finite map from keys to   *)
(* values, in which a put binds one key and leaves the others alone.       *)
(***************************************************************************)
CONSTANTS Keys, Values, Absent

VARIABLE store

Init == store = [k \in Keys |-> Absent]

Put(k, v) == store' = [store EXCEPT ![k] = v]

Next == \E k \in Keys, v \in Values : Put(k, v)

Spec == Init /\ [][Next]_store
=============================================================================
