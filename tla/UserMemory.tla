----------------------------- MODULE UserMemory -----------------------------
(***************************************************************************)
(* What the p4 kernel promises user programs about their memory: every     *)
(* process has a private image, a partial function from addresses to       *)
(* bytes, which only single-byte stores (its own, or the kernel's into a   *)
(* buffer), sbrk, fork and exit change.  Encrypting a page and decrypting  *)
(* it in a page fault are no steps at all at this level.                   *)
(***************************************************************************)
EXTENDS Integers, Functions

CONSTANTS Proc, Bytes, InitImages

VARIABLES image,  \* the bytes each process can address
          up      \* the machine runs and has not panicked

memvars == <<image, up>>

Empty == [a \in {} |-> 0]

Start ==
    \/ image \in InitImages /\ up = TRUE
    \/ image = [p \in Proc |-> Empty] /\ up = FALSE

(* An image before and after a step. *)

Stores(old, new) ==
    /\ DOMAIN new = DOMAIN old
    /\ \E a \in DOMAIN old : new[a] \in Bytes /\ new = [old EXCEPT ![a] = new[a]]

\* sbrk of a positive amount: higher addresses appear, all zero.
Grows(old, new) ==
    /\ DOMAIN old \subseteq DOMAIN new /\ Restrict(new, DOMAIN old) = old
    /\ \A a \in DOMAIN new \ DOMAIN old :
         new[a] = 0 /\ \A o \in DOMAIN old : o < a

\* sbrk of a negative amount: the highest addresses disappear.
Shrinks(old, new) ==
    /\ DOMAIN new \subseteq DOMAIN old /\ Restrict(old, DOMAIN new) = new
    /\ \A a \in DOMAIN old \ DOMAIN new, n \in DOMAIN new : n < a

\* exit is a special case of shrinking.
Own(p, old, new) ==
    /\ \A q \in Proc \ {p} : new[q] = old[q]
    /\ Stores(old[p], new[p]) \/ Grows(old[p], new[p]) \/ Shrinks(old[p], new[p])

Fork(p, c, old, new) == old[c] = Empty /\ new = [old EXCEPT ![c] = old[p]]

Halt == up' = FALSE /\ image' = [p \in Proc |-> Empty]

Step ==
    /\ up
    /\ \/ Halt
       \/ /\ up' = up
          /\ \E p \in Proc :
               \/ Own(p, image, image')
               \/ \E c \in Proc : Fork(p, c, image, image')

MemSpec == Start /\ [][Step]_memvars
=============================================================================
