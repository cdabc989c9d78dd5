------------------------------ MODULE MCFiles ------------------------------
(***************************************************************************)
(* Files for TLC.  The longer message does not fit the pipe.  Processes   *)
(* are interchangeable and every property is a safety property.            *)
(***************************************************************************)
EXTENDS Files, TLC

MCMessages == {<<0, 1, 1>>}
Symmetry == Permutations(Proc)
=============================================================================
