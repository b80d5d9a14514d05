----------------------------- MODULE MCWmemCore ----------------------------
(***************************************************************************)
(* A small instance of WmemCore for TLC.                                   *)
(***************************************************************************)
EXTENDS WmemCore, TLC

CONSTANTS i1, i2, i3

Symmetry == Permutations(Id)

=============================================================================
