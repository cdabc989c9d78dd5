---------------------------- MODULE MCPageCrypt ----------------------------
(***************************************************************************)
(* Eight frames, just enough for a fork of a process with a heap page.     *)
(* Programs use the first addresses of the guard page, the stack and the   *)
(* heap.  In one workload two processes share the machine and sbrk also    *)
(* stops inside a page and at 0; in the others a single process passes     *)
(* buffers of one and of two pages to dump_rawphymem, or asks getpgtable   *)
(* for entries.                                                            *)
(***************************************************************************)
EXTENDS PageCrypt

MCProc == {1, 2}
MCTargets == {2, 4, 6}
MCWorkloads ==
    {[procs |-> 2, sbrkBy |-> {-8, -2, -1, 1, 2}, dumpAt |-> {}, nums |-> {}],
     [procs |-> 1, sbrkBy |-> {-2, 2}, dumpAt |-> {4, 5, 6}, nums |-> {}],
     [procs |-> 1, sbrkBy |-> {-2, 2}, dumpAt |-> {}, nums |-> {1, 2}]}
=============================================================================
