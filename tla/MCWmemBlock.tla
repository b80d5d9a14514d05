---------------------------- MODULE MCWmemBlock ----------------------------
(***************************************************************************)
(* Small instances of WmemBlock for TLC.                                   *)
(***************************************************************************)
EXTENDS WmemBlock, TLC

CONSTANTS i1, i2, i3, i4

Symmetry == Permutations(Id)

=============================================================================
