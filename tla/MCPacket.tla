------------------------------ MODULE MCPacket ------------------------------
(***************************************************************************)
(* Small instances of Packet and of Except for TLC: one per behaviour.     *)
(* The codes thrown are those of BoundsError and ReportedBoundsError, the  *)
(* TRYs have CATCH(BoundsError) or CATCH_ALL.                              *)
(***************************************************************************)
EXTENDS Packet, Except, TLC

CONSTANTS ip, off, Parts

VARIABLE part     \* "calls" or "exceptions"

MCInit == part \in Parts /\ Init /\ ExceptInit

MCNext ==
  /\ UNCHANGED part
  /\ \/ part = "calls" /\ Next /\ UNCHANGED exceptVars
     \/ part = "exceptions" /\ ExceptNext /\ UNCHANGED vars

MCSpec == MCInit /\ [][MCNext]_<<part, vars, exceptVars>>

EntryTable == 1 :> ip @@ 2 :> NoProto
HeuristicList == <<ip, off, ip>>

BoundsError == 1
ReportedBoundsError == 3
TwoCodes == {BoundsError, ReportedBoundsError}
MCCatchLists == {{BoundsError}, CATCH_ALL}

\* An exception do_throw asserts on, one no TRY catches, one that a CATCH of
\* BoundsError takes for its own and one that it does not.
MCGarbage == {[group |-> 0, code |-> 0], [group |-> 2, code |-> BoundsError],
              [group |-> 1, code |-> BoundsError], [group |-> 1, code |-> OtherCode]}

=============================================================================
