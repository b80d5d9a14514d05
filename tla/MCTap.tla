------------------------------- MODULE MCTap -------------------------------
(***************************************************************************)
(* A small instance of Tap for TLC.                                        *)
(***************************************************************************)
EXTENDS Tap, TLC

CONSTANTS ip, ntlmssp, plain, errors, helper, f

Names == Permutations(Name)

=============================================================================
