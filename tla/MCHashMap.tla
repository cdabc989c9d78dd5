----------------------------- MODULE MCHashMap -----------------------------
(***************************************************************************)
(* Hashes that collide before the first resize, after it, and at the last  *)
(* slot, so that probing wraps around.                                     *)
(***************************************************************************)
EXTENDS HashMap

MCKeys == 1 .. 5
MCHashOf == <<2, 5, 2, 11, 0>>
=============================================================================
