------------------------------ MODULE MCInodes ------------------------------
(***************************************************************************)
(* Inodes for TLC.                                                         *)
(***************************************************************************)
EXTENDS Inodes, TLC

MCPaths == {<<"a">>, <<"b">>, <<"a", "b">>}
Symmetry == Permutations(Proc)
=============================================================================
