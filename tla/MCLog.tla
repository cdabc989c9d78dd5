------------------------------- MODULE MCLog -------------------------------
(***************************************************************************)
(* Log for TLC: processes and blocks are interchangeable, and every        *)
(* property checked is a safety property.                                  *)
(***************************************************************************)
EXTENDS Log, TLC

Symmetry == Permutations(Proc) \cup Permutations(Block)
=============================================================================
