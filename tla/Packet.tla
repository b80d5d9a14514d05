------------------------------- MODULE Packet -------------------------------
(***************************************************************************)
(* How dissectors call each other, epan/packet.c: call_dissector and its   *)
(* variants, dissector tables and heuristic dissectors, and dissect_record *)
(* below them all.                                                         *)
(*                                                                         *)
(* A packet is dissected more than once, with and without a protocol tree. *)
(* Both passes run here in lockstep, "tree" and "bare": dissectors do the  *)
(* same in both, and only the layers and their number, which packet.c      *)
(* keeps differently without a tree, have a value for each.                *)
(*                                                                         *)
(* Dissectors are left to choose what they do.  An exception is thrown,    *)
(* passes one call after the other and is caught somewhere; as do_throw    *)
(* stores no code in the catcher (see Except), which CATCH takes it is not *)
(* determined.                                                             *)
(***************************************************************************)
EXTENDS Integers, Sequences, SequencesExt

CONSTANTS
  Protos,       \* protocols, each with a handle
  NoProto,      \* of a handle without a protocol, or with a pino
  Disabled,     \* the protocols that are not enabled
  Table,        \* a dissector table: number -> protocol
  Heuristics,   \* a list of heuristic dissectors: their protocols
  frame, data,  \* the protocols of frame_handle and data_handle
  LayerMod,     \* curr_layer_num is a number modulo this, 256 in the code
  MaxLayers,    \* bound: below PINFO_LAYER_MAX_RECURSION_DEPTH, 500
  MaxCalls,     \* bound: calls within each other
  MaxSteps      \* bound: what dissectors do in one packet besides returning

ASSUME PacketAssumption ==
  /\ Disabled \subseteq Protos \ {frame, data}
  /\ {frame, data} \subseteq Protos /\ NoProto \notin Protos
  /\ \A u \in DOMAIN Table : u # 0 /\ Table[u] \in Protos \cup {NoProto}
  /\ Heuristics \in Seq(Protos)
  /\ LayerMod \in Nat \ {0} /\ MaxLayers \in Nat /\ MaxCalls \in Nat /\ MaxSteps \in Nat

VARIABLES
  pinfo,      \* the packet_info
  items,      \* the items in the tree
  steps,      \* what dissectors did in this packet
  calls,      \* the calls that have not returned, the newest last
  throwing,   \* an exception is on its way
  outcome,    \* of dissect_record
  drifted,    \* history: a rejection removed layers of one pass only
  torn        \* history: an exception left an error packet uncaught

vars == <<pinfo, items, steps, calls, throwing, outcome, drifted, torn>>

Pass == {"tree", "bare"}
Lower(n) == IF n > 0 THEN n - 1 ELSE 0
Count(pi) == [pass \in Pass |-> Len(pi.layers[pass])]

(* What dissect_record and the memset of the edt before it leave. *)
NewInfo ==
  [current_proto |-> NoProto, can_desegment |-> 0, match_uint |-> 0, in_list |-> FALSE,
   writable |-> TRUE, in_error_pkt |-> FALSE,
   layers |-> [pass \in Pass |-> <<>>], curr_layer_num |-> [pass \in Pass |-> 0]]

Saved(pi) ==
  [current_proto |-> pi.current_proto, can_desegment |-> pi.can_desegment,
   match_uint |-> pi.match_uint, in_list |-> pi.in_list, writable |-> pi.writable]

(* A call of a dissector.  saved, length and count are the locals of the  *)
(* function that calls it; the fields from clean on are history: no       *)
(* exception was thrown during the call, the dissector called a disabled  *)
(* heuristic dissector directly, and it offers desegmentation.            *)
Call(by, proto, layer, length, pi) ==
  [by |-> by, proto |-> proto, layer |-> layer, length |-> length, saved |-> Saved(pi),
   count |-> items, error |-> FALSE, fallback |-> FALSE, uint |-> 0, entry |-> 0,
   rejected |-> FALSE, clean |-> TRUE, lowered |-> FALSE, offers |-> FALSE]

---------------------------------------------------------------------------
(* Layers *)

AddLayer(pi, proto) ==
  [pi EXCEPT !.layers = [pass \in Pass |-> Append(@[pass], proto)],
             !.curr_layer_num = [pass \in Pass |-> (@[pass] + 1) % LayerMod]]

(* Mutant: the number goes down by one, however many layers go. *)
RemoveLayers_ByOne(pi, length, passes, rejected) ==
  [pi EXCEPT
     !.layers = [pass \in Pass |->
        IF pass \in passes THEN SubSeq(@[pass], 1, length[pass]) ELSE @[pass]],
     !.curr_layer_num = [pass \in Pass |->
        IF pass \in passes /\ rejected THEN (@[pass] - 1) % LayerMod ELSE @[pass]]]

(* The loop that takes layers off again down to the length saved.  The    *)
(* number goes down with them only when the dissector rejected the data.  *)
RemoveLayers(pi, length, passes, rejected) ==
  [pi EXCEPT
     !.layers = [pass \in Pass |->
        IF pass \in passes THEN SubSeq(@[pass], 1, length[pass]) ELSE @[pass]],
     !.curr_layer_num = [pass \in Pass |->
        IF pass \in passes /\ rejected
        THEN (@[pass] - (Len(pi.layers[pass]) - length[pass])) % LayerMod ELSE @[pass]]]

(* After a dissector returned len: in which passes its layer goes. *)
Unlayered(c, len) ==
  {pass \in Pass : c.layer /\ (len = 0 \/ (pass = "tree" /\ items = c.count))}

Drifts(pi, c) ==
  Len(pi.layers["tree"]) - c.length["tree"] # Len(pi.layers["bare"]) - c.length["bare"]

---------------------------------------------------------------------------
(* Into a call *)

(* call_dissector_work up to the dissector, with the columns closed by    *)
(* call_dissector_work_error when this is a packet in an error packet.    *)
WorkInfo(pi, proto, add) ==
  LET named == [pi EXCEPT !.can_desegment = Lower(@),
                          !.current_proto = IF proto = NoProto THEN @ ELSE proto,
                          !.writable = @ /\ ~pi.in_error_pkt]
  IN IF add /\ proto # NoProto THEN AddLayer(named, proto) ELSE named

WorkCall(pi, proto, add) ==
  [Call("handle", proto, add /\ proto # NoProto, Count(pi), pi) EXCEPT !.error = pi.in_error_pkt]

(* Mutant: can_desegment is lowered from what the last one left. *)
HeuristicInfo_LowersAgain(pi, c) ==
  AddLayer([pi EXCEPT !.can_desegment = Lower(@),
                      !.current_proto = c.proto, !.in_list = TRUE], c.proto)

(* The loop of dissector_try_heuristic: one turn, for the entry c.entry,  *)
(* and the entries whose turn may come, as disabled ones are passed over. *)
HeuristicInfo(pi, c) ==
  AddLayer([pi EXCEPT !.can_desegment = Lower(c.saved.can_desegment),
                      !.current_proto = c.proto, !.in_list = TRUE], c.proto)

Enabled(entry) == {k \in DOMAIN Heuristics : k > entry /\ Heuristics[k] \notin Disabled}
IsFirst(k, entries) == k \in entries /\ \A j \in entries : k <= j

---------------------------------------------------------------------------
(* Out of a call *)

(* Mutant: match_uint stays what the last table lookup has set. *)
WorkDone_KeepsUint(pi, c, len) ==
  LET shown == [pi EXCEPT !.writable = IF c.error THEN c.saved.writable ELSE @]
      cut == RemoveLayers(shown, c.length, Unlayered(c, len), len = 0)
  IN [cut EXCEPT !.current_proto = c.saved.current_proto,
                 !.can_desegment = c.saved.can_desegment]

(* The end of call_dissector_work, of call_dissector_work_error when c    *)
(* went through it, and of dissector_try_uint_new when it was found there.*)
WorkDone(pi, c, len) ==
  LET shown == [pi EXCEPT !.writable = IF c.error THEN c.saved.writable ELSE @]
      cut == RemoveLayers(shown, c.length, Unlayered(c, len), len = 0)
  IN [cut EXCEPT !.current_proto = c.saved.current_proto,
                 !.can_desegment = c.saved.can_desegment,
                 !.match_uint = IF c.uint # 0 THEN c.saved.match_uint ELSE @]

(* The end of dissector_try_heuristic and of call_heur_dissector_direct. *)
ListDone(pi, c) ==
  [pi EXCEPT !.current_proto = c.saved.current_proto, !.in_list = c.saved.in_list,
             !.can_desegment = c.saved.can_desegment]

(* A heuristic dissector that rejected, and data after it, have returned. *)
DirectDone(pi, c) == ListDone(RemoveLayers(pi, c.length, Pass, TRUE), c)

Top == Last(calls)

(* The innermost call of a dissector has returned len. *)
HandleReturns(len) ==
  LET c == Top
      below == Front(calls)
      left == WorkDone(pinfo, c, len)
      direct == below # <<>> /\ Last(below).rejected
  IN /\ c.by = "handle"
     /\ IF len = 0 /\ c.fallback
        THEN /\ calls' = Append(below, WorkCall(left, data, TRUE))
             /\ pinfo' = WorkInfo(left, data, TRUE)
        ELSE IF direct
        THEN calls' = Front(below) /\ pinfo' = DirectDone(left, Last(below))
        ELSE calls' = below /\ pinfo' = left
     /\ drifted' = (drifted \/ (len = 0 /\ c.layer /\ Drifts(pinfo, c))
                            \/ (direct /\ Drifts(left, Last(below))))

HeuristicReturns(len) ==
  LET c == Top
      left == RemoveLayers(pinfo, c.length, Unlayered(c, len), len = 0)
      turns == IF len = 0 THEN Enabled(c.entry) ELSE {}
      turn(k) == [c EXCEPT !.proto = Heuristics[k], !.entry = k,
                           !.lowered = FALSE, !.offers = FALSE]
  IN /\ c.by = "heuristic"
     /\ \/ turns = {} /\ calls' = Front(calls) /\ pinfo' = ListDone(left, c)
        \/ \E k \in DOMAIN Heuristics :
             /\ IsFirst(k, turns)
             /\ calls' = Append(Front(calls), turn(k))
             /\ pinfo' = HeuristicInfo(left, turn(k))
     /\ drifted' = (drifted \/ (len = 0 /\ Drifts(pinfo, c)))

DirectReturns(len) ==
  /\ Top.by = "direct"
  /\ IF len = 0
     THEN /\ calls' = Append(Append(Front(calls), [Top EXCEPT !.rejected = TRUE]),
                             WorkCall(pinfo, data, TRUE))
          /\ pinfo' = WorkInfo(pinfo, data, TRUE)
     ELSE calls' = Front(calls) /\ pinfo' = ListDone(pinfo, Top)
  /\ UNCHANGED drifted

Running == outcome = "dissecting" /\ calls # <<>> /\ ~throwing

Acts == Running /\ steps < MaxSteps /\ steps' = steps + 1

Returns(len) ==
  /\ Running
  /\ HandleReturns(len) \/ HeuristicReturns(len) \/ DirectReturns(len)
  /\ outcome' = IF calls' = <<>> THEN "visited" ELSE outcome
  /\ UNCHANGED <<items, steps, throwing, torn>>

---------------------------------------------------------------------------
(* What a dissector does *)

MayCall == Acts /\ Len(calls) < MaxCalls /\ Len(pinfo.layers["bare"]) < MaxLayers - 1

Push(c, pi) ==
  /\ calls' = Append(calls, c)
  /\ pinfo' = pi
  /\ UNCHANGED <<items, throwing, outcome, drifted, torn>>

(* call_dissector_with_data: data is called at once when the protocol is  *)
(* not enabled.                                                           *)
CallDissector(proto) ==
  LET enabled == proto \notin Disabled
      p == IF enabled THEN proto ELSE data
  IN MayCall /\ Push([WorkCall(pinfo, p, TRUE) EXCEPT !.fallback = enabled],
                     WorkInfo(pinfo, p, TRUE))

(* dissector_try_uint_new; a number that is not in the table, or leads to *)
(* a disabled protocol, changes nothing.                                  *)
TryUint(u, add) ==
  LET p == Table[u] IN
  /\ MayCall /\ p \notin Disabled
  /\ Push([WorkCall(pinfo, p, add) EXCEPT !.uint = u],
          WorkInfo([pinfo EXCEPT !.match_uint = u], p, add))

TryHeuristic ==
  \E k \in DOMAIN Heuristics :
    LET c == [Call("heuristic", Heuristics[k], TRUE, Count(pinfo), pinfo) EXCEPT !.entry = k]
    IN MayCall /\ IsFirst(k, Enabled(0)) /\ Push(c, HeuristicInfo(pinfo, c))

(* call_heur_dissector_direct: with a disabled dissector it returns after *)
(* the data dissector without having restored what it changed.            *)
CallHeurDirect(proto) ==
  LET lower == [pinfo EXCEPT !.can_desegment = Lower(@)]
      c == Call("direct", proto, TRUE, Count(pinfo), pinfo)
  IN /\ MayCall
     /\ IF proto \notin Disabled
        THEN Push(c, AddLayer([lower EXCEPT !.current_proto = proto, !.in_list = TRUE], proto))
        ELSE /\ calls' = Append(Append(Front(calls), [Top EXCEPT !.lowered = TRUE]),
                                WorkCall(lower, data, TRUE))
             /\ pinfo' = WorkInfo(lower, data, TRUE)
             /\ UNCHANGED <<items, throwing, outcome, drifted, torn>>

AddItem ==
  /\ Acts
  /\ items' = items + 1
  /\ UNCHANGED <<pinfo, calls, throwing, outcome, drifted, torn>>

OfferDesegment ==
  /\ Acts /\ ~Top.offers
  /\ pinfo' = [pinfo EXCEPT !.can_desegment = 2]
  /\ calls' = Append(Front(calls), [Top EXCEPT !.offers = TRUE])
  /\ UNCHANGED <<items, throwing, outcome, drifted, torn>>

(* What follows is a packet that an error message quotes, or no longer.   *)
SetInErrorPkt(b) ==
  /\ Acts /\ pinfo.in_error_pkt # b
  /\ pinfo' = [pinfo EXCEPT !.in_error_pkt = b]
  /\ UNCHANGED <<items, calls, throwing, outcome, drifted, torn>>

---------------------------------------------------------------------------
(* Exceptions *)

Throw ==
  /\ Acts
  /\ throwing' = TRUE
  /\ calls' = [k \in DOMAIN calls |-> [calls[k] EXCEPT !.clean = FALSE]]
  /\ UNCHANGED <<pinfo, items, outcome, drifted, torn>>

(* Mutant: the columns stay closed. *)
ErrorInfo_StaysClosed(c) ==
  [pinfo EXCEPT !.current_proto = IF c.proto = NoProto THEN c.saved.current_proto ELSE c.proto,
                !.can_desegment = Lower(c.saved.can_desegment)]

(* CATCH(BoundsError) of call_dissector_work_error; its locals hold what  *)
(* call_dissector_work had just set.                                      *)
ErrorInfo(c) ==
  [pinfo EXCEPT !.writable = c.saved.writable,
                !.current_proto = IF c.proto = NoProto THEN c.saved.current_proto ELSE c.proto,
                !.can_desegment = Lower(c.saved.can_desegment)]

(* The exception leaves the innermost call: nothing is restored, but in   *)
(* an error packet by the handler of bounds errors.                       *)
Unwind ==
  /\ throwing /\ calls # <<>>
  /\ calls' = Front(calls)
  /\ \/ pinfo' = pinfo /\ torn' = (torn \/ Top.error)
     \/ Top.error /\ pinfo' = ErrorInfo(Top) /\ UNCHANGED torn
  /\ UNCHANGED <<items, steps, throwing, outcome, drifted>>

(* CATCH3 of call_dissector_work_error: as if the dissector had returned  *)
(* the captured length, which may be 0.                                   *)
ErrorCaught(len) ==
  /\ throwing /\ calls # <<>> /\ Top.error
  /\ throwing' = FALSE
  /\ HandleReturns(len)
  /\ outcome' = IF calls' = <<>> THEN "visited" ELSE outcome
  /\ UNCHANGED <<items, steps, torn>>

(* A dissector catches what one it called has thrown. *)
DissectorCatches ==
  /\ throwing /\ calls # <<>> /\ ~Top.rejected
  /\ throwing' = FALSE
  /\ UNCHANGED <<pinfo, items, steps, calls, outcome, drifted, torn>>

(* dissect_record: a bounds error is taken for impossible, the other two  *)
(* handlers mark the packet, and other codes pass.                        *)
RecordCatches ==
  /\ throwing /\ calls = <<>>
  /\ throwing' = FALSE
  /\ outcome' \in {"aborted", "visited", "escaped"}
  /\ UNCHANGED <<pinfo, items, steps, calls, drifted, torn>>

---------------------------------------------------------------------------

Init ==
  /\ pinfo = NewInfo /\ items = 0 /\ steps = 0 /\ calls = <<>>
  /\ throwing = FALSE /\ outcome = "none" /\ drifted = FALSE /\ torn = FALSE

(* dissect_record up to the frame dissector. *)
DissectRecord ==
  /\ outcome \in {"none", "visited"}
  /\ pinfo' = WorkInfo(NewInfo, frame, TRUE)
  /\ calls' = <<[WorkCall(NewInfo, frame, TRUE) EXCEPT !.fallback = TRUE, !.count = 0]>>
  /\ items' = 0 /\ steps' = 0 /\ outcome' = "dissecting"
  /\ throwing' = FALSE /\ drifted' = FALSE /\ torn' = FALSE

Next ==
  \/ DissectRecord
  \/ \E proto \in (Protos \ {frame}) \cup {NoProto} : CallDissector(proto)
  \/ \E u \in DOMAIN Table, add \in BOOLEAN : TryUint(u, add)
  \/ TryHeuristic
  \/ \E proto \in ToSet(Heuristics) : CallHeurDirect(proto)
  \/ AddItem \/ OfferDesegment
  \/ \E b \in BOOLEAN : SetInErrorPkt(b)
  \/ \E len \in {0, 1} : Returns(len) \/ ErrorCaught(len)
  \/ Throw \/ Unwind \/ DissectorCatches \/ RecordCatches

Spec == Init /\ [][Next]_vars

---------------------------------------------------------------------------

(* Without a tree the number of the current layer is the number of        *)
(* layers, in its width, whatever is rejected, tried in turn or thrown.   *)
(* With a tree, whose layers are some of these in order, the number is    *)
(* the same, except after a rejection that took back more layers in one   *)
(* pass than in the other.                                                *)
LayersCounted ==
  /\ pinfo.curr_layer_num["bare"] = Len(pinfo.layers["bare"]) % LayerMod
  /\ ~drifted => pinfo.curr_layer_num["tree"] = pinfo.curr_layer_num["bare"]
  /\ LET tree == pinfo.layers["tree"]
         bare == pinfo.layers["bare"]
     IN \E at \in [DOMAIN tree -> DOMAIN bare] :
          \A k \in DOMAIN tree : /\ tree[k] = bare[at[k]]
                                 /\ \A j \in 1 .. k - 1 : at[j] < at[k]

(* "Only reduce the layer number if the dissector rejected the data.      *)
(* Since tree can be NULL on the first pass, we cannot check it or it     *)
(* will break dissectors that rely on a stable value." (packet.c:818)     *)
LayerNumberStable == pinfo.curr_layer_num["tree"] = pinfo.curr_layer_num["bare"]

(* A dissector during whose call nothing was thrown sees, however many    *)
(* others it called before, the protocol, the table entry and the         *)
(* heuristic list that it was called for itself.                          *)
SeesItsOwnCall ==
  Running /\ Top.clean =>
    /\ pinfo.current_proto = IF Top.proto = NoProto THEN Top.saved.current_proto ELSE Top.proto
    /\ pinfo.match_uint = IF Top.uint # 0 THEN Top.uint ELSE Top.saved.match_uint
    /\ pinfo.in_list = (Top.by # "handle" \/ Top.saved.in_list)

(* "Thus only the subdissector immediately on top of whoever offers this  *)
(* service can use it" (packet.c:775): a dissector may desegment when it  *)
(* offers this itself or the one that called it does, and does so when    *)
(* neither has been disturbed by an exception or by a disabled heuristic  *)
(* dissector.                                                             *)
DesegmentsOnlyAbove ==
  Running /\ (\A k \in DOMAIN calls : calls[k].clean) =>
    LET n == Len(calls)
        offered == n > 1 /\ calls[n - 1].offers
    IN /\ pinfo.can_desegment > 0 => Top.offers \/ offered
       /\ Top.offers /\ ~Top.lowered => pinfo.can_desegment = 2
       /\ offered /\ ~Top.offers /\ ~Top.lowered /\ ~calls[n - 1].lowered
            => pinfo.can_desegment = 1

(* The columns show the packet that reports an error and never the one it *)
(* quotes: they are closed exactly while a packet within an error packet  *)
(* is dissected, unless an exception has left one past its handlers.      *)
ColumnsShowReporter ==
  ~torn => pinfo.writable = ~\E k \in DOMAIN calls : calls[k].error

=============================================================================
