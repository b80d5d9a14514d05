-------------------------------- MODULE Tap --------------------------------
(***************************************************************************)
(* Taps, epan/tap.c: while a packet is dissected, dissectors queue what    *)
(* they want to show to tap listeners; after the dissection the queue is   *)
(* pushed to the listeners, who collect it and are drawn now and then.     *)
(*                                                                         *)
(* One action is a call, but epan_dissect_run_with_taps is RunBegin, the   *)
(* dissectors' TapQueuePacket, RunEnd, and a PushStep for each packet of   *)
(* the queue and each listener. Listeners and taps come and go between     *)
(* runs only: the callbacks in the repository change neither. An exception *)
(* that escapes a run is in EpanScopes; no other run follows it.           *)
(***************************************************************************)
EXTENDS Integers, Sequences, FiniteSets, SequencesExt

CONSTANTS Name,           \* names of taps
          Tapdata,        \* identify listeners; those below are subsets of it
          WantsErrors,    \* TL_REQUIRES_ERROR_PACKETS is set
          NoPacketRoutine, NoDrawRoutine,
          Filter,         \* filters that compile
          NoFilter,       \* NULL
          QueueLen,       \* TAP_PACKET_QUEUE_LEN
          MaxListeners,   \* bound: listeners at once
          MaxTapped       \* bound: packets tapped in a run

ASSUME TapAssumption ==
    /\ WantsErrors \subseteq Tapdata
    /\ NoPacketRoutine \subseteq Tapdata /\ NoDrawRoutine \subseteq Tapdata
    /\ NoFilter \notin Filter
    /\ QueueLen \in Nat \ {0} /\ MaxListeners \in Nat /\ MaxTapped \in Nat

VARIABLES tap_dissector_list,   \* names, in the order they were registered
          tap_listener_queue,   \* listeners, the newest first
          tapping_is_active,
          tap_packet_array,     \* its entries below tap_packet_index
          run,                  \* where the dissection is, and what it passes
          issued,               \* history: the id register_tap gave for a name
          tapped                \* history: what was tapped in this run

tapVars == <<tap_dissector_list, tap_listener_queue, tapping_is_active,
             tap_packet_array, run, issued, tapped>>

\* The fields from name on are history: the tap it is for, whether it changed
\* since it was drawn, the packets it got in this run and whether it failed on
\* them.
Listener(data, id, name) ==
    [data |-> data, tap_id |-> id, needs_redraw |-> TRUE, failed |-> FALSE,
     code |-> NoFilter, name |-> name, undrawn |-> TRUE, got |-> << >>]

Positions == DOMAIN tap_listener_queue

\* A change of every listener.
EachListener(change(_)) ==
    tap_listener_queue' = [k \in Positions |-> change(tap_listener_queue[k])]

\* matching: the filters the packet passes. failed: history, the listeners
\* that had failed before. i and k: the entry and the listener of the push.
NoRun == [at |-> "none", with_taps |-> FALSE, matching |-> {}, failed |-> {}, i |-> 0, k |-> 0]

Idle == run = NoRun

-----------------------------------------------------------------------------
(***************************************************************************)
(* Taps and listeners.                                                     *)
(***************************************************************************)
\* 0 if there is none.
FindTapId(name) ==
    IF Contains(tap_dissector_list, name)
    THEN CHOOSE id \in DOMAIN tap_dissector_list : tap_dissector_list[id] = name
    ELSE 0

\* What i is after the loop.
NewTapId == IF tap_dissector_list = << >> THEN 1 ELSE Len(tap_dissector_list) + 1

RegisterTap(name) ==
    /\ Idle
    /\ IF FindTapId(name) # 0
       THEN /\ issued' = [issued EXCEPT ![name] = FindTapId(name)]
            /\ UNCHANGED tap_dissector_list
       ELSE /\ issued' = [issued EXCEPT ![name] = NewTapId]
            /\ tap_dissector_list' = Append(tap_dissector_list, name)
    /\ UNCHANGED <<tap_listener_queue, tapping_is_active, tap_packet_array, run, tapped>>

OnlyListeners == UNCHANGED <<tap_dissector_list, tapping_is_active, tap_packet_array,
                             run, issued, tapped>>

\* A filter string is not compiled (the call is a comment) and has no effect.
\* The listener of a tap that is not found is an error.
RegisterTapListener(name, data) ==
    /\ Idle /\ Len(tap_listener_queue) < MaxListeners
    /\ FindTapId(name) # 0
    /\ tap_listener_queue' = <<Listener(data, FindTapId(name), name)>> \o tap_listener_queue
    /\ OnlyListeners

\* The first listener with that tapdata, or 0.
FirstWith(data) ==
    LET with == {k \in Positions : tap_listener_queue[k].data = data}
    IN  IF with = {} THEN 0 ELSE CHOOSE k \in with : \A j \in with : k <= j

\* A string that does not compile leaves the listener without a filter, as
\* NULL does.
SetTapDfilter(data, filter) ==
    /\ Idle /\ FirstWith(data) # 0
    /\ tap_listener_queue' = [tap_listener_queue EXCEPT ![FirstWith(data)] =
           [@ EXCEPT !.code = filter, !.needs_redraw = TRUE, !.undrawn = TRUE]]
    /\ OnlyListeners

RemoveTapListener(data) ==
    /\ Idle /\ FirstWith(data) # 0
    /\ tap_listener_queue' = RemoveAt(tap_listener_queue, FirstWith(data))
    /\ OnlyListeners

\* The reset callback empties what a listener shows.
ResetTapListeners ==
    /\ Idle
    /\ LET reset(l) == [l EXCEPT !.needs_redraw = TRUE, !.failed = FALSE, !.undrawn = TRUE]
       IN  EachListener(reset)
    /\ OnlyListeners

DrawTapListeners(draw_all) ==
    /\ Idle
    /\ LET drawn(l) == (l.needs_redraw \/ draw_all) /\ l.data \notin NoDrawRoutine
           draw(l) == [l EXCEPT !.needs_redraw = FALSE, !.undrawn = @ /\ ~drawn(l)]
       IN  EachListener(draw)
    /\ OnlyListeners

-----------------------------------------------------------------------------
(***************************************************************************)
(* A run.                                                                  *)
(***************************************************************************)
\* Mutant: the queue is not emptied.
TapQueueInit_KeepsQueue ==
    /\ tapping_is_active' = (tapping_is_active \/ tap_listener_queue # << >>)
    /\ UNCHANGED tap_packet_array

TapQueueInit ==
    IF tap_listener_queue = << >>
    THEN UNCHANGED <<tapping_is_active, tap_packet_array>>
    ELSE tapping_is_active' = TRUE /\ tap_packet_array' = << >>

\* epan_dissect_run_with_taps of a packet that passes the filters in matching,
\* or epan_dissect_run.
RunBegin(with_taps, matching) ==
    /\ Idle
    /\ run' = [NoRun EXCEPT !.at = "dissecting", !.with_taps = with_taps, !.matching = matching,
                            !.failed = {k \in Positions : tap_listener_queue[k].failed}]
    /\ IF with_taps THEN TapQueueInit ELSE UNCHANGED <<tapping_is_active, tap_packet_array>>
    /\ tapped' = << >>
    /\ UNCHANGED <<tap_dissector_list, tap_listener_queue, issued>>

QueueFull == Len(tap_packet_array) >= QueueLen

\* A dissector taps the packet; error is pinfo->flags.in_error_pkt just now.
TapQueuePacket(name, error) ==
    /\ run.at = "dissecting" /\ issued[name] # 0 /\ Len(tapped) < MaxTapped
    /\ LET data == Len(tapped) + 1
       IN  /\ tapped' = Append(tapped, [name |-> name, error |-> error, data |-> data])
           /\ tap_packet_array' =
                 IF tapping_is_active /\ ~QueueFull
                 THEN Append(tap_packet_array,
                             [tap_id |-> issued[name], error |-> error, data |-> data])
                 ELSE tap_packet_array
    /\ UNCHANGED <<tap_dissector_list, tap_listener_queue, tapping_is_active, run, issued>>

\* The dissection is over; tap_push_tapped_queue begins.
RunEnd ==
    /\ run.at = "dissecting"
    /\ IF run.with_taps
       THEN /\ tapping_is_active' = FALSE
            /\ run' = IF tapping_is_active /\ tap_packet_array # << >>
                      THEN [run EXCEPT !.at = "pushing", !.i = 1, !.k = 1]
                      ELSE [run EXCEPT !.at = "done"]
       ELSE run' = [run EXCEPT !.at = "done"] /\ UNCHANGED tapping_is_active
    /\ UNCHANGED <<tap_dissector_list, tap_listener_queue, tap_packet_array, issued, tapped>>

\* The next listener of the same packet, the first one of the next packet, or
\* the end of the queue.
PushNext ==
    run' = IF run.k < Len(tap_listener_queue) THEN [run EXCEPT !.k = @ + 1]
           ELSE IF run.i < Len(tap_packet_array) THEN [run EXCEPT !.i = @ + 1, !.k = 1]
           ELSE [run EXCEPT !.at = "done", !.i = 0, !.k = 0]

\* Mutant: a listener's failure is not looked at.
IsFor_Failed(tp, tl) ==
    /\ tp.error => tl.data \in WantsErrors
    /\ tp.tap_id = tl.tap_id
    /\ tl.data \notin NoPacketRoutine
    /\ tl.code # NoFilter => tl.code \in run.matching

\* The packet tp is given to the listener tl.
IsFor(tp, tl) ==
    /\ tp.error => tl.data \in WantsErrors
    /\ tp.tap_id = tl.tap_id
    /\ tl.data \notin NoPacketRoutine
    /\ ~tl.failed
    /\ tl.code # NoFilter => tl.code \in run.matching

\* The listener's packet routine is called and answers.
CallPacketRoutine(status) ==
    LET tp == tap_packet_array[run.i]
        tl == tap_listener_queue[run.k]
        answered == [tl EXCEPT !.needs_redraw = @ \/ status = "REDRAW",
                               !.failed = @ \/ status = "FAILED",
                               !.undrawn = @ \/ status = "REDRAW",
                               !.got = Append(@, [data |-> tp.data, failed |-> status = "FAILED"])]
    IN  /\ run.at = "pushing" /\ IsFor(tp, tl)
        /\ tap_listener_queue' = [tap_listener_queue EXCEPT ![run.k] = answered]
        /\ PushNext
        /\ UNCHANGED <<tap_dissector_list, tapping_is_active, tap_packet_array, issued, tapped>>

PassOver ==
    /\ run.at = "pushing" /\ ~IsFor(tap_packet_array[run.i], tap_listener_queue[run.k])
    /\ PushNext
    /\ UNCHANGED <<tap_dissector_list, tap_listener_queue, tapping_is_active,
                   tap_packet_array, issued, tapped>>

PushStep == PassOver \/ \E status \in {"DONT_REDRAW", "REDRAW", "FAILED"} : CallPacketRoutine(status)

\* wmem_leave_packet_scope: what the queue points at is gone.
RunLeave ==
    /\ run.at = "done"
    /\ run' = NoRun /\ tapped' = << >>
    /\ LET forget(l) == [l EXCEPT !.got = << >>] IN EachListener(forget)
    /\ UNCHANGED <<tap_dissector_list, tapping_is_active, tap_packet_array, issued>>

-----------------------------------------------------------------------------
TapInit ==
    /\ tap_dissector_list = << >> /\ tap_listener_queue = << >>
    /\ tapping_is_active = FALSE /\ tap_packet_array = << >>
    /\ run = NoRun
    /\ issued = [name \in Name |-> 0]
    /\ tapped = << >>

TapNext ==
    \/ \E name \in Name : RegisterTap(name)
    \/ \E name \in Name, data \in Tapdata : RegisterTapListener(name, data)
    \/ \E data \in Tapdata : RemoveTapListener(data)
    \/ \E data \in Tapdata, filter \in Filter \cup {NoFilter} : SetTapDfilter(data, filter)
    \/ ResetTapListeners
    \/ \E draw_all \in BOOLEAN : DrawTapListeners(draw_all)
    \/ \E matching \in SUBSET Filter : RunBegin(TRUE, matching)
    \/ RunBegin(FALSE, {})
    \/ \E name \in Name, error \in BOOLEAN : TapQueuePacket(name, error)
    \/ RunEnd \/ PushStep \/ RunLeave

TapSpec == TapInit /\ [][TapNext]_tapVars

-----------------------------------------------------------------------------
\* The types of the variables; the queue is within its array (tap.c:221), and a
\* listener has the id of a tap that exists.
TapTypeOK ==
    /\ tap_dissector_list \in Seq(Name)
    /\ \A k \in Positions :
          LET l == tap_listener_queue[k]
          IN  /\ l.data \in Tapdata /\ l.tap_id \in DOMAIN tap_dissector_list
              /\ l.needs_redraw \in BOOLEAN /\ l.failed \in BOOLEAN
              /\ l.code \in Filter \cup {NoFilter}
    /\ tapping_is_active \in BOOLEAN
    /\ Len(tap_packet_array) <= QueueLen
    /\ run.at \in {"none", "dissecting", "pushing", "done"}
    /\ run.at = "pushing" => run.i \in DOMAIN tap_packet_array /\ run.k \in Positions
    /\ issued \in [Name -> Nat]

\* What of this run the queue has room for.
Kept == SubSeq(tapped, 1, IF Len(tapped) < QueueLen THEN Len(tapped) ELSE QueueLen)

\* The members of a set of positions that have idx of the others before them.
AfterOthers(positions, idx) ==
    {n \in positions : Cardinality({m \in positions : m < n}) = idx}

\* The routine that dissectors of outer layers use (SMB2 for NTLMSSP): the
\* idx'th queued entry of a tap, or 0.
FetchTappedData(id, idx) ==
    LET hits == {n \in DOMAIN tap_packet_array : tap_packet_array[n].tap_id = id}
    IN  IF tapping_is_active /\ AfterOthers(hits, idx) # {}
        THEN tap_packet_array[CHOOSE n \in AfterOthers(hits, idx) : TRUE].data ELSE 0

\* While a packet is dissected with taps, fetch_tapped_data finds what was
\* tapped under a name in this very run, in order, up to the queue's limit:
\* nothing of an earlier run, which the packet scope has freed, and nothing of
\* another tap. Without listeners, and in a run without taps, it finds nothing.
FetchesThisRun ==
    run.at = "dissecting" =>
        \A name \in Name, idx \in 0 .. MaxTapped :
            LET mine == {n \in DOMAIN Kept : Kept[n].name = name}
            IN  issued[name] # 0 =>
                    FetchTappedData(issued[name], idx) =
                        IF /\ run.with_taps /\ tap_listener_queue # << >>
                           /\ AfterOthers(mine, idx) # {}
                        THEN Kept[CHOOSE n \in AfterOthers(mine, idx) : TRUE].data ELSE 0

\* What a listener should get of this run; packets are numbered as they are
\* tapped.
Due(l) ==
    {p.data : p \in {q \in ToSet(Kept) :
        /\ run.with_taps /\ l.data \notin NoPacketRoutine
        /\ l.code # NoFilter => l.code \in run.matching
        /\ q.name = l.name
        /\ q.error => l.data \in WantsErrors}}

\* A failed listener gets nothing until it is reset; every other one gets what
\* was tapped under its name in this run, in order and once, error packets and
\* filtered ones left out as it asked ("pushes the tapped data to all extensions
\* that has callbacks registered", tap.c:281), to the end or up to the packet
\* it failed on ("Packet processing failed, stop calling this tap", tap.h:31).
GotItsDue(k) ==
    LET l == tap_listener_queue[k]
        got == {p.data : p \in ToSet(l.got)}
        failures == {n \in DOMAIN l.got : l.got[n].failed}
        due == IF failures = {} THEN Due(l)
               ELSE {d \in Due(l) : d <= l.got[Len(l.got)].data}
    IN  IF k \in run.failed THEN l.got = << >> /\ l.failed
        ELSE /\ \A m, n \in DOMAIN l.got : m < n => l.got[m].data < l.got[n].data
             /\ got = due
             /\ failures \subseteq {Len(l.got)} /\ l.failed = (failures # {})

\* A listener waits to be redrawn exactly while it changed since it was drawn
\* last: by an answer REDRAW, a reset, a new filter or its registration, and
\* whatever other packets it answered otherwise. No change is forgotten and
\* nothing is drawn twice.
RedrawExact(l) == l.data \notin NoDrawRoutine => l.needs_redraw = l.undrawn

\* After each run with taps every listener has got its due, and at any time its
\* redraw mark tells whether it shows what it got.
Delivered ==
    /\ TapTypeOK
    /\ run.at = "done" => \A k \in Positions : GotItsDue(k)
    /\ \A k \in Positions : RedrawExact(tap_listener_queue[k])

=============================================================================
