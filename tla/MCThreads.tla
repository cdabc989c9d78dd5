----------------------------- MODULE MCThreads -----------------------------
(***************************************************************************)
(* Threads for TLC: disciplined programs in four slots, and in three slots *)
(* the largest sets of habits under which a property is claimed; a program *)
(* with fewer habits has no other behaviours.                              *)
(***************************************************************************)
EXTENDS Threads

MCPrograms ==
    [slots : {4}, does : {{}}]
    \cup [slots : {3}, does : {Habits, Habits \ {"nested"}, Habits \ {"badstack"}, {"badstack"}}]

\* Nothing reads what a freed slot still holds of its memory and its stack.
Held(f, none) == [s \in Slots |-> IF state[s] = "UNUSED" THEN none ELSE f[s]]
View == <<state, parent, killed, Held(stack, FALSE), Held(pgdir, None), Held(sz, 0),
          callVars, memVars, program, panic>>
=============================================================================
