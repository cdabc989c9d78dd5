------------------------------ MODULE Channels ------------------------------
(***************************************************************************)
(* What pipe.c promises: each pipe is an unbounded queue of bytes with two *)
(* ends.  A writer appends, in order, some of the bytes it still has to    *)
(* write, and a reader takes the oldest.  The bytes of a pipe are gone     *)
(* only when both of its ends have been closed.                            *)
(***************************************************************************)
EXTENDS Sequences, Naturals

CONSTANTS Proc, Pipe

VARIABLES queue,    \* queue[i]: the bytes in pipe i
          ends,     \* ends[i]: the ends of pipe i that are open
          left      \* left[p]: the bytes that p's write has not yet written

channelVars == <<queue, ends, left>>

Init ==
    /\ queue = [i \in Pipe |-> <<>>]
    /\ ends = [i \in Pipe |-> {}]
    /\ left = [p \in Proc |-> <<>>]

\* A process begins a call or gives one up.
Local(p) ==
    /\ \A q \in Proc \ {p} : left'[q] = left[q]
    /\ UNCHANGED <<queue, ends>>

Open(i) ==
    /\ ends[i] = {}
    /\ ends' = [ends EXCEPT ![i] = {"read", "write"}]
    /\ UNCHANGED <<queue, left>>

Write(p, i) ==
    /\ "write" \in ends[i]
    /\ \E n \in 1 .. Len(left[p]) :
          /\ queue' = [queue EXCEPT ![i] = @ \o SubSeq(left[p], 1, n)]
          /\ \/ left' = [left EXCEPT ![p] = SubSeq(@, n + 1, Len(@))]
             \/ left' = [left EXCEPT ![p] = <<>>]
    /\ UNCHANGED ends

Read(i) ==
    /\ "read" \in ends[i]
    /\ \E n \in 1 .. Len(queue[i]) :
          queue' = [queue EXCEPT ![i] = SubSeq(@, n + 1, Len(@))]
    /\ UNCHANGED <<ends, left>>

\* The last close discards what has not been read.
Close(i, e) ==
    /\ e \in ends[i]
    /\ ends' = [ends EXCEPT ![i] = @ \ {e}]
    /\ queue' = IF ends[i] = {e} THEN [queue EXCEPT ![i] = <<>>] ELSE queue
    /\ UNCHANGED left

Next ==
    \/ \E p \in Proc : Local(p)
    \/ \E p \in Proc, i \in Pipe : Write(p, i)
    \/ \E i \in Pipe : Open(i) \/ Read(i) \/ Close(i, "read") \/ Close(i, "write")

Spec == Init /\ [][Next]_channelVars
=============================================================================
