----------------------------- MODULE AtomicDisk -----------------------------
(***************************************************************************)
(* What log.c promises the file system: operations write blocks of a       *)
(* disk; the blocks that would be there after a crash change only when no  *)
(* operation is in the middle of its writes, and then they take all the    *)
(* writes made so far at once.                                             *)
(***************************************************************************)
CONSTANTS Proc, Block, Value

VARIABLES durable,   \* the blocks as a crash and recovery would leave them
          current,   \* the blocks as a bread now would return them
          open       \* the processes between begin_op and end_op

diskVars == <<durable, current, open>>

Init ==
    /\ durable \in [Block -> Value]
    /\ current = durable
    /\ open = {}

Begin(p) ==
    /\ open' = open \cup {p}
    /\ UNCHANGED <<durable, current>>

Write(p, b, v) ==
    /\ p \in open
    /\ current' = [current EXCEPT ![b] = v]
    /\ UNCHANGED <<durable, open>>

End(p) ==
    /\ open' = open \ {p}
    /\ UNCHANGED <<durable, current>>

Commit ==
    /\ open = {}
    /\ durable' = current
    /\ UNCHANGED <<current, open>>

Crash ==
    /\ open' = {}
    /\ current' = durable
    /\ UNCHANGED durable

Next ==
    \/ \E p \in Proc : Begin(p) \/ End(p)
    \/ \E p \in Proc, b \in Block, v \in Value : Write(p, b, v)
    \/ Commit
    \/ Crash

Spec == Init /\ [][Next]_diskVars
=============================================================================
