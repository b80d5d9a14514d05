-------------------------- MODULE MCWmemBlockFast --------------------------
(***************************************************************************)
(* Small instances of WmemBlockFast for TLC.                               *)
(***************************************************************************)
EXTENDS WmemBlockFast, TLC

CONSTANTS i1, i2, i3

Symmetry == Permutations(Id)

=============================================================================
