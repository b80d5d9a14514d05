---------------------------- MODULE PacketProofs ----------------------------
(***************************************************************************)
(* Proofs about the dissection of a packet, the taps that listen to it and *)
(* the exceptions that cut it short.                                       *)
(*                                                                         *)
(* Packet, for any protocols, tables and lists of heuristic dissectors and *)
(* any number of calls: a dissector sees its own call, it may desegment    *)
(* only next to who offers it, the columns show the packet that reports an *)
(* error, and the layer numbers count the layers.                          *)
(*                                                                         *)
(* Tap, for any names, listeners, filters and queue length:                *)
(* fetch_tapped_data finds what was tapped in this very run, and every     *)
(* listener gets its due.                                                  *)
(*                                                                         *)
(* Except, for any codes, any CATCH clauses, any content of uninitialised  *)
(* memory and any depth of regions: no cleanup is lost, no block entered   *)
(* twice, no FINALLY left out and no exception swallowed.                  *)
(***************************************************************************)
EXTENDS Packet, Tap, Except, WellFoundedInduction, TLAPS

-----------------------------------------------------------------------------
(***************************************************************************)
(* Packet.                                                                 *)
(***************************************************************************)

Numbers == DOMAIN Table \cup {0}

(* The packet_info, whose layers and their number may be anything here.    *)
Info(pi) ==
  pi \in [current_proto : Protos \cup {NoProto}, can_desegment : 0 .. 2,
          match_uint : Numbers, in_list : BOOLEAN, writable : BOOLEAN,
          in_error_pkt : BOOLEAN, layers : {pi.layers}, curr_layer_num : {pi.curr_layer_num}]

SavedFields ==
  [current_proto : Protos \cup {NoProto}, can_desegment : 0 .. 2,
   match_uint : Numbers, in_list : BOOLEAN, writable : BOOLEAN]

CallOK(c) ==
  /\ c \in [by : {"handle", "heuristic", "direct"}, proto : Protos \cup {NoProto},
            layer : {c.layer}, length : {c.length}, saved : SavedFields, count : {c.count},
            error : BOOLEAN, fallback : BOOLEAN, uint : Numbers, entry : {c.entry},
            rejected : BOOLEAN, clean : BOOLEAN, lowered : BOOLEAN, offers : BOOLEAN]
  /\ c.by # "handle" => c.uint = 0 /\ c.proto # NoProto /\ ~c.error
  /\ c.rejected => c.by = "direct"

(* What the dissector called by c sees of itself in x. *)
Own(c, x) ==
  /\ x.current_proto = IF c.proto = NoProto THEN c.saved.current_proto ELSE c.proto
  /\ x.match_uint = IF c.uint # 0 THEN c.uint ELSE c.saved.match_uint
  /\ x.in_list = (c.by # "handle" \/ c.saved.in_list)

(* What it sees of can_desegment: offered tells whether its caller offers  *)
(* it, steady that its caller has not been lowered.                        *)
Desegment(c, offered, steady, n) ==
  /\ n > 0 => c.offers \/ offered
  /\ ~c.offers => n <= 1
  /\ c.offers /\ ~c.lowered => n = 2
  /\ offered /\ ~c.offers /\ ~c.lowered /\ steady => n = 1

Offered(cs, k) == k > 1 /\ cs[k - 1].offers
Steady(cs, k) == k > 1 => ~cs[k - 1].lowered

(* x is right when the k-th of the calls cs is the innermost: it is pinfo, *)
(* or what the call above has saved of it.                                 *)
Ready(cs, k, x) ==
  /\ k = 0 => x.can_desegment = 0
  /\ k > 0 => /\ cs[k].clean => Own(cs[k], x)
              /\ cs[1].clean => Desegment(cs[k], Offered(cs, k), Steady(cs, k), x.can_desegment)

IsSeq(cs) == cs \in Seq({cs[k] : k \in DOMAIN cs})

Stack(cs) ==
  /\ IsSeq(cs)
  /\ \A k \in 1 .. Len(cs) : CallOK(cs[k]) /\ Ready(cs, k - 1, cs[k].saved)
  /\ \A k \in 1 .. Len(cs) - 1 : cs[k].clean => cs[k + 1].clean

(* None of the first k calls is for a packet in an error packet. *)
Open(cs, k) == \A j \in 1 .. k : ~cs[j].error

Shown(cs, x) ==
  /\ \A k \in 1 .. Len(cs) : cs[k].saved.writable = Open(cs, k - 1)
  /\ x.writable = Open(cs, Len(cs))

IInv ==
  /\ Info(pinfo) /\ Stack(calls)
  /\ torn \in BOOLEAN /\ throwing \in BOOLEAN
  /\ calls # <<>> => Ready(calls, Len(calls), pinfo)
  /\ throwing => \A k \in 1 .. Len(calls) : ~calls[k].clean
  /\ ~torn => Shown(calls, pinfo)

---------------------------------------------------------------------------
(***************************************************************************)
(* Sequences.                                                              *)
(***************************************************************************)

LEMMA Appended ==
  ASSUME NEW cs, IsSeq(cs), NEW c
  PROVE  /\ Len(cs) \in Nat /\ DOMAIN cs = 1 .. Len(cs)
         /\ IsSeq(Append(cs, c)) /\ Append(cs, c) # <<>>
         /\ Len(Append(cs, c)) = Len(cs) + 1
         /\ Append(cs, c)[Len(cs) + 1] = c
         /\ \A k \in 1 .. Len(cs) : Append(cs, c)[k] = cs[k]
         /\ Last(Append(cs, c)) = c
<1> DEFINE ds == Append(cs, c)
           S == {cs[k] : k \in DOMAIN cs} \cup {c}
           T == {ds[k] : k \in DOMAIN ds}
<1>1. cs \in Seq(S) /\ c \in S
  BY DEF IsSeq
<1>2. /\ Len(cs) \in Nat /\ DOMAIN cs = 1 .. Len(cs)
      /\ ds \in Seq(S) /\ Len(ds) = Len(cs) + 1 /\ ds[Len(cs) + 1] = c
      /\ \A k \in 1 .. Len(cs) : ds[k] = cs[k]
  <2> HIDE DEF S
  <2> QED
    BY <1>1
<1> HIDE DEF ds, S
<1>3. ds \in Seq(T)
  <2>1. DOMAIN ds = 1 .. Len(ds) /\ Len(ds) \in Nat /\ ds = [k \in 1 .. Len(ds) |-> ds[k]]
    BY <1>2
  <2>2. \A k \in 1 .. Len(ds) : ds[k] \in T
    BY <2>1
  <2> HIDE DEF T
  <2> QED
    BY <2>1, <2>2
<1>4. Last(ds) = c
  BY <1>2 DEF Last
<1>5. ds # <<>>
  BY <1>2
<1> QED
  BY <1>2, <1>3, <1>4, <1>5 DEF IsSeq, ds

LEMMA Fronted ==
  ASSUME NEW cs, IsSeq(cs), cs # <<>>
  PROVE  /\ Len(cs) \in Nat /\ Len(cs) >= 1 /\ Last(cs) = cs[Len(cs)]
         /\ IsSeq(Front(cs)) /\ Len(Front(cs)) = Len(cs) - 1
         /\ \A k \in 1 .. Len(cs) - 1 : Front(cs)[k] = cs[k]
<1> DEFINE S == {cs[k] : k \in DOMAIN cs}
           ds == Front(cs)
           T == {ds[k] : k \in DOMAIN ds}
<1>1. Len(cs) \in Nat /\ Len(cs) >= 1 /\ ds = SubSeq(cs, 1, Len(cs) - 1)
  <2>1. cs \in Seq(S)
    BY DEF IsSeq
  <2> HIDE DEF S
  <2> QED
    BY <2>1 DEF Front
<1>2. ds = [k \in 1 .. Len(cs) - 1 |-> cs[k]]
  <2>1. cs \in Seq(S) /\ \A k \in 1 .. Len(cs) : cs[k] \in S
    BY DEF IsSeq
  <2> HIDE DEF S, ds
  <2> QED
    BY <1>1, <2>1
<1> HIDE DEF ds, S
<1>3. ds \in Seq(T) /\ Len(ds) = Len(cs) - 1
  <2>1. \A k \in 1 .. Len(cs) - 1 : ds[k] \in T
    BY <1>2
  <2> HIDE DEF T
  <2>2. Len(cs) - 1 \in Nat
    BY <1>1
  <2> QED
    BY <1>2, <2>1, <2>2
<1>4. Last(cs) = cs[Len(cs)]
  BY DEF Last
<1> QED
  BY <1>1, <1>2, <1>3, <1>4 DEF IsSeq, ds

---------------------------------------------------------------------------
(***************************************************************************)
(* What the code does to the fields of pinfo.                              *)
(***************************************************************************)

(* Layers aside, nothing changes. *)
Alike(q, pi) ==
  /\ Info(q)
  /\ q.current_proto = pi.current_proto /\ q.can_desegment = pi.can_desegment
  /\ q.match_uint = pi.match_uint /\ q.in_list = pi.in_list
  /\ q.writable = pi.writable /\ q.in_error_pkt = pi.in_error_pkt

LEMMA AddLayerFields ==
  ASSUME NEW pi, Info(pi), NEW proto
  PROVE  Alike(AddLayer(pi, proto), pi)
<1> DEFINE l == [pass \in Pass |-> Append(pi.layers[pass], proto)]
           n == [pass \in Pass |-> (pi.curr_layer_num[pass] + 1) % LayerMod]
<1>1. AddLayer(pi, proto) = [pi EXCEPT !.layers = l, !.curr_layer_num = n]
  BY DEF AddLayer
<1> HIDE DEF l, n
<1> QED
  BY <1>1 DEF Info, Alike

LEMMA RemoveLayersFields ==
  ASSUME NEW pi, Info(pi), NEW length, NEW passes, NEW rejected
  PROVE  Alike(RemoveLayers(pi, length, passes, rejected), pi)
<1> DEFINE l == [pass \in Pass |-> IF pass \in passes THEN SubSeq(pi.layers[pass], 1, length[pass])
                                   ELSE pi.layers[pass]]
           n == [pass \in Pass |->
                  IF pass \in passes /\ rejected
                  THEN (pi.curr_layer_num[pass] - (Len(pi.layers[pass]) - length[pass])) % LayerMod
                  ELSE pi.curr_layer_num[pass]]
<1>1. RemoveLayers(pi, length, passes, rejected)
        = [pi EXCEPT !.layers = l, !.curr_layer_num = n]
  BY DEF RemoveLayers
<1> HIDE DEF l, n
<1> QED
  BY <1>1 DEF Info, Alike

LEMMA LowerIn == ASSUME NEW n \in 0 .. 2 PROVE Lower(n) \in 0 .. 1 /\ Lower(n) \in 0 .. 2
BY DEF Lower

LEMMA WorkInfoFields ==
  ASSUME NEW pi, Info(pi), NEW proto \in Protos \cup {NoProto}, NEW add
  PROVE  /\ Info(WorkInfo(pi, proto, add))
         /\ WorkInfo(pi, proto, add).current_proto
              = IF proto = NoProto THEN pi.current_proto ELSE proto
         /\ WorkInfo(pi, proto, add).can_desegment = Lower(pi.can_desegment)
         /\ WorkInfo(pi, proto, add).match_uint = pi.match_uint
         /\ WorkInfo(pi, proto, add).in_list = pi.in_list
         /\ WorkInfo(pi, proto, add).writable = (pi.writable /\ ~pi.in_error_pkt)
<1> DEFINE q == [pi EXCEPT !.can_desegment = Lower(@),
                           !.current_proto = IF proto = NoProto THEN @ ELSE proto,
                           !.writable = @ /\ ~pi.in_error_pkt]
<1>1. Lower(pi.can_desegment) \in 0 .. 2 /\ (pi.writable /\ ~pi.in_error_pkt) \in BOOLEAN
  BY LowerIn DEF Info
<1>2. /\ Info(q)
      /\ q.current_proto = IF proto = NoProto THEN pi.current_proto ELSE proto
      /\ q.can_desegment = Lower(pi.can_desegment) /\ q.match_uint = pi.match_uint
      /\ q.in_list = pi.in_list /\ q.writable = (pi.writable /\ ~pi.in_error_pkt)
  BY <1>1 DEF Info
<1>3. WorkInfo(pi, proto, add) = IF add /\ proto # NoProto THEN AddLayer(q, proto) ELSE q
  BY DEF WorkInfo
<1> HIDE DEF q
<1> QED
  BY <1>2, <1>3, AddLayerFields DEF Alike

LEMMA HeuristicInfoFields ==
  ASSUME NEW pi, Info(pi), NEW c, c.proto \in Protos, c.saved.can_desegment \in 0 .. 2
  PROVE  /\ Info(HeuristicInfo(pi, c))
         /\ HeuristicInfo(pi, c).current_proto = c.proto
         /\ HeuristicInfo(pi, c).can_desegment = Lower(c.saved.can_desegment)
         /\ HeuristicInfo(pi, c).match_uint = pi.match_uint
         /\ HeuristicInfo(pi, c).in_list = TRUE
         /\ HeuristicInfo(pi, c).writable = pi.writable
<1> DEFINE q == [pi EXCEPT !.can_desegment = Lower(c.saved.can_desegment),
                           !.current_proto = c.proto, !.in_list = TRUE]
<1>1. Lower(c.saved.can_desegment) \in 0 .. 2
  BY LowerIn
<1>2. /\ Info(q)
      /\ q.current_proto = c.proto /\ q.can_desegment = Lower(c.saved.can_desegment)
      /\ q.match_uint = pi.match_uint /\ q.in_list = TRUE /\ q.writable = pi.writable
  BY <1>1 DEF Info
<1>3. HeuristicInfo(pi, c) = AddLayer(q, c.proto)
  BY DEF HeuristicInfo
<1> HIDE DEF q
<1> QED
  BY <1>2, <1>3, AddLayerFields DEF Alike

LEMMA WorkDoneFields ==
  ASSUME NEW pi, Info(pi), NEW c, CallOK(c), NEW len
  PROVE  /\ Info(WorkDone(pi, c, len))
         /\ WorkDone(pi, c, len).current_proto = c.saved.current_proto
         /\ WorkDone(pi, c, len).can_desegment = c.saved.can_desegment
         /\ WorkDone(pi, c, len).match_uint
              = IF c.uint # 0 THEN c.saved.match_uint ELSE pi.match_uint
         /\ WorkDone(pi, c, len).in_list = pi.in_list
         /\ WorkDone(pi, c, len).writable = IF c.error THEN c.saved.writable ELSE pi.writable
<1> DEFINE shown == [pi EXCEPT !.writable = IF c.error THEN c.saved.writable ELSE @]
           cut == RemoveLayers(shown, c.length, Unlayered(c, len), len = 0)
<1>1. c.saved \in SavedFields
  BY DEF CallOK
<1>2. /\ Info(shown) /\ shown.match_uint = pi.match_uint /\ shown.in_list = pi.in_list
      /\ shown.writable = IF c.error THEN c.saved.writable ELSE pi.writable
  BY <1>1 DEF Info, SavedFields
<1>3. Alike(cut, shown)
  <2> HIDE DEF shown
  <2> QED
    BY <1>2, RemoveLayersFields
<1>4. WorkDone(pi, c, len)
        = [cut EXCEPT !.current_proto = c.saved.current_proto,
                      !.can_desegment = c.saved.can_desegment,
                      !.match_uint = IF c.uint # 0 THEN c.saved.match_uint ELSE @]
  BY DEF WorkDone
<1> HIDE DEF cut, shown
<1> QED
  BY <1>1, <1>2, <1>3, <1>4 DEF Info, Alike, SavedFields

LEMMA ListDoneFields ==
  ASSUME NEW pi, Info(pi), NEW c, CallOK(c)
  PROVE  /\ Info(ListDone(pi, c))
         /\ ListDone(pi, c).current_proto = c.saved.current_proto
         /\ ListDone(pi, c).can_desegment = c.saved.can_desegment
         /\ ListDone(pi, c).in_list = c.saved.in_list
         /\ ListDone(pi, c).match_uint = pi.match_uint
         /\ ListDone(pi, c).writable = pi.writable
<1>1. c.saved \in SavedFields
  BY DEF CallOK
<1> QED
  BY <1>1 DEF Info, SavedFields, ListDone

LEMMA ErrorInfoFields ==
  ASSUME Info(pinfo), NEW c, CallOK(c)
  PROVE  Info(ErrorInfo(c)) /\ ErrorInfo(c).writable = c.saved.writable
<1>1. /\ c.saved \in SavedFields /\ c.proto \in Protos \cup {NoProto}
      /\ Lower(c.saved.can_desegment) \in 0 .. 2
  BY LowerIn DEF CallOK, SavedFields
<1> QED
  BY <1>1 DEF Info, SavedFields, ErrorInfo

---------------------------------------------------------------------------
(***************************************************************************)
(* The stack of calls.                                                     *)
(***************************************************************************)

(* Whether x is right for the k-th call depends on four of its fields and  *)
(* on the calls up to there.                                               *)
LEMMA ReadyLocal ==
  ASSUME NEW cs, NEW ds, NEW k \in Nat, \A j \in 1 .. k : ds[j] = cs[j],
         NEW x, NEW y, Ready(cs, k, x), y.can_desegment = x.can_desegment,
         k > 0 /\ cs[k].clean => /\ y.current_proto = x.current_proto
                                 /\ y.match_uint = x.match_uint /\ y.in_list = x.in_list
  PROVE  Ready(ds, k, y)
<1>1. CASE k = 0
  BY <1>1 DEF Ready
<1>2. CASE k > 0
  <2>1. ds[k] = cs[k] /\ ds[1] = cs[1]
    BY <1>2
  <2>2. Offered(ds, k) = Offered(cs, k) /\ Steady(ds, k) = Steady(cs, k)
    BY <1>2 DEF Offered, Steady
  <2> QED
    BY <1>2, <2>1, <2>2 DEF Ready, Own
<1> QED
  BY <1>1, <1>2

LEMMA ReadySame ==
  ASSUME NEW cs, NEW ds, NEW k \in Nat, \A j \in 1 .. k : ds[j] = cs[j], NEW x, Ready(cs, k, x)
  PROVE  Ready(ds, k, x)
<1>1. k > 0 => ds[k] = cs[k] /\ ds[1] = cs[1]
  OBVIOUS
<1>2. k > 0 => Offered(ds, k) = Offered(cs, k) /\ Steady(ds, k) = Steady(cs, k)
  BY DEF Offered, Steady
<1> QED
  BY <1>1, <1>2 DEF Ready

(* A call that offers nothing yet sees what is lowered by one. *)
LEMMA LoweredFits ==
  ASSUME NEW cs, NEW k \in Nat, NEW x, Ready(cs, k, x), x.can_desegment \in 0 .. 2,
         NEW c, c.offers = FALSE, c.lowered = FALSE,
         k > 0 => cs[1].clean /\ cs[k].offers \in BOOLEAN /\ cs[k].lowered \in BOOLEAN
  PROVE  Desegment(c, k > 0 /\ cs[k].offers, k > 0 => ~cs[k].lowered, Lower(x.can_desegment))
<1>1. CASE k = 0
  BY <1>1 DEF Ready, Desegment, Lower
<1>2. CASE k > 0
  BY <1>2 DEF Ready, Desegment, Lower
<1> QED
  BY <1>1, <1>2

(* The innermost call goes; y has what it saved of its caller's pinfo.     *)
LEMMA Popped ==
  ASSUME NEW cs, Stack(cs), cs # <<>>, NEW y,
         y.can_desegment = Last(cs).saved.can_desegment,
         Last(cs).clean => /\ y.current_proto = Last(cs).saved.current_proto
                           /\ y.match_uint = Last(cs).saved.match_uint
                           /\ y.in_list = Last(cs).saved.in_list
  PROVE  /\ Stack(Front(cs)) /\ Len(Front(cs)) \in Nat
         /\ Ready(Front(cs), Len(Front(cs)), y)
<1> DEFINE n == Len(cs)
           ds == Front(cs)
<1>1. /\ n \in Nat /\ n >= 1 /\ Last(cs) = cs[n] /\ IsSeq(ds) /\ Len(ds) = n - 1
      /\ \A k \in 1 .. n - 1 : ds[k] = cs[k]
  BY Fronted DEF Stack
<1> HIDE DEF n, ds
<1>2. \A k \in 1 .. n : Ready(cs, k - 1, cs[k].saved)
  BY DEF Stack, n
<1>3. ASSUME NEW k \in 1 .. n - 1 PROVE CallOK(ds[k]) /\ Ready(ds, k - 1, ds[k].saved)
  <2> DEFINE m == k - 1
  <2>1. k \in 1 .. n /\ m \in Nat /\ \A j \in 1 .. m : ds[j] = cs[j]
    BY <1>1
  <2>2. Ready(cs, m, cs[k].saved) /\ CallOK(cs[k]) /\ ds[k] = cs[k]
    BY <1>1, <1>2, <2>1 DEF Stack, n
  <2> HIDE DEF m
  <2>3. Ready(ds, m, cs[k].saved)
    BY <2>1, <2>2, ReadySame
  <2> QED
    BY <2>2, <2>3 DEF m
<1>4. \A k \in 1 .. (n - 1) - 1 : ds[k].clean => ds[k + 1].clean
  <2>1. \A k \in 1 .. n - 1 : cs[k].clean => cs[k + 1].clean
    BY DEF Stack, n
  <2> QED
    BY <1>1, <2>1
<1>5. Stack(ds)
  BY <1>1, <1>3, <1>4 DEF Stack
<1>6. Ready(ds, n - 1, y)
  <2>1. n - 1 \in Nat /\ n \in 1 .. n /\ (n - 1 > 0 => n - 1 \in 1 .. n - 1)
    BY <1>1
  <2>2. n - 1 > 0 /\ cs[n - 1].clean => cs[n].clean
    <3>1. \A k \in 1 .. n - 1 : cs[k].clean => cs[k + 1].clean
      BY DEF Stack, n
    <3> QED
      BY <2>1, <3>1
  <2>3. Ready(cs, n - 1, cs[n].saved)
    BY <1>2, <2>1
  <2> QED
    BY <1>1, <2>1, <2>2, <2>3, ReadyLocal
<1> QED
  BY <1>1, <1>5, <1>6 DEF ds

(* A call is made: x is what its caller has seen, and y what it sees.      *)
LEMMA Pushed ==
  ASSUME NEW cs, Stack(cs), NEW x, Ready(cs, Len(cs), x), x.can_desegment \in 0 .. 2,
         NEW c, CallOK(c), c.offers = FALSE, c.lowered = FALSE,
         cs # <<>> /\ cs[Len(cs)].clean => c.clean,
         c.saved.can_desegment = x.can_desegment,
         c.saved.current_proto = x.current_proto, c.saved.match_uint = x.match_uint,
         c.saved.in_list = x.in_list,
         NEW y, c.clean => Own(c, y), y.can_desegment = Lower(x.can_desegment)
  PROVE  /\ Stack(Append(cs, c)) /\ Append(cs, c) # <<>>
         /\ Ready(Append(cs, c), Len(Append(cs, c)), y)
<1> DEFINE n == Len(cs)
           ds == Append(cs, c)
<1>1. /\ n \in Nat /\ IsSeq(ds) /\ ds # <<>> /\ Len(ds) = n + 1 /\ ds[n + 1] = c
      /\ \A k \in 1 .. n : ds[k] = cs[k]
      /\ cs # <<>> <=> n > 0
  BY Appended DEF Stack
<1> HIDE DEF n, ds
<1>2. ASSUME NEW k \in 1 .. n + 1 PROVE CallOK(ds[k]) /\ Ready(ds, k - 1, ds[k].saved)
  <2> DEFINE m == k - 1
  <2>1. m \in Nat /\ \A j \in 1 .. m : ds[j] = cs[j]
    BY <1>1
  <2>2. CASE k = n + 1
    <3>1. Ready(cs, n, x)
      BY DEF n
    <3>2. Ready(ds, n, c.saved)
      BY <1>1, <3>1, ReadyLocal DEF n
    <3> QED
      BY <1>1, <2>2, <3>2
  <2>3. CASE k # n + 1
    <3>1. k \in 1 .. n
      BY <1>1, <2>3
    <3>2. Ready(cs, m, cs[k].saved) /\ CallOK(cs[k]) /\ ds[k] = cs[k]
      BY <1>1, <3>1 DEF Stack, n
    <3> HIDE DEF m
    <3>3. Ready(ds, m, cs[k].saved)
      BY <2>1, <3>2, ReadySame
    <3> QED
      BY <3>2, <3>3 DEF m
  <2> QED
    BY <2>2, <2>3
<1>3. \A k \in 1 .. (n + 1) - 1 : ds[k].clean => ds[k + 1].clean
  <2> SUFFICES ASSUME NEW k \in 1 .. n, cs[k].clean PROVE ds[k + 1].clean
    BY <1>1
  <2>1. CASE k = n
    BY <1>1, <2>1 DEF n
  <2>2. CASE k # n
    <3>1. k \in 1 .. n - 1 /\ k + 1 \in 1 .. n
      BY <1>1, <2>2
    <3> QED
      BY <1>1, <3>1 DEF Stack, n
  <2> QED
    BY <2>1, <2>2
<1>4. Stack(ds)
  BY <1>1, <1>2, <1>3 DEF Stack
<1>5. ds[1].clean => Desegment(c, Offered(ds, n + 1), Steady(ds, n + 1), y.can_desegment)
  <2> SUFFICES ASSUME ds[1].clean
               PROVE  Desegment(c, Offered(ds, n + 1), Steady(ds, n + 1), y.can_desegment)
    OBVIOUS
  <2>1. n > 0 => cs[1].clean /\ cs[n].offers \in BOOLEAN /\ cs[n].lowered \in BOOLEAN
    BY <1>1 DEF Stack, CallOK, n
  <2>2. Desegment(c, n > 0 /\ cs[n].offers, n > 0 => ~cs[n].lowered, Lower(x.can_desegment))
    BY <1>1, <2>1, LoweredFits DEF n
  <2>3. /\ Offered(ds, n + 1) <=> (n > 0 /\ cs[n].offers)
        /\ Steady(ds, n + 1) <=> (n > 0 => ~cs[n].lowered)
    BY <1>1, SMTT(30) DEF Offered, Steady
  <2> QED
    BY <2>2, <2>3 DEF Desegment
<1>6. Ready(ds, n + 1, y)
  BY <1>1, <1>5 DEF Ready
<1> QED
  BY <1>1, <1>4, <1>6 DEF ds

(* The columns along the stack, when the innermost call goes. *)
LEMMA ShownPopped ==
  ASSUME NEW cs, Stack(cs), cs # <<>>, NEW x, Shown(cs, x), x.writable \in BOOLEAN
  PROVE  /\ Shown(Front(cs), Last(cs).saved)
         /\ ~Last(cs).error => x.writable = Last(cs).saved.writable
<1> DEFINE n == Len(cs)
           ds == Front(cs)
<1>1. /\ n \in Nat /\ n >= 1 /\ Last(cs) = cs[n] /\ Len(ds) = n - 1
      /\ \A k \in 1 .. n - 1 : ds[k] = cs[k]
  BY Fronted DEF Stack
<1>2. /\ \A k \in 1 .. n : cs[k].saved.writable = Open(cs, k - 1)
      /\ x.writable = Open(cs, n)
  BY DEF Shown
<1> HIDE DEF n, ds
<1>3. \A k \in 1 .. n : Open(ds, k - 1) = Open(cs, k - 1)
  <2> SUFFICES ASSUME NEW k \in 1 .. n PROVE Open(ds, k - 1) = Open(cs, k - 1)
    OBVIOUS
  <2>1. \A j \in 1 .. k - 1 : ds[j] = cs[j]
    BY <1>1
  <2> QED
    BY <2>1 DEF Open
<1>4. ~cs[n].error => Open(cs, n) = Open(cs, n - 1)
  <2>1. \A j \in 1 .. n : j = n \/ j \in 1 .. n - 1
    BY <1>1
  <2>2. \A j \in 1 .. n - 1 : j \in 1 .. n
    BY <1>1
  <2> QED
    BY <2>1, <2>2 DEF Open
<1>5. n \in 1 .. n /\ \A k \in 1 .. n - 1 : k \in 1 .. n
  BY <1>1
<1>6. Shown(ds, cs[n].saved)
  BY <1>1, <1>2, <1>3, <1>5 DEF Shown
<1> QED
  BY <1>1, <1>2, <1>4, <1>5, <1>6 DEF ds

LEMMA ShownPushed ==
  ASSUME NEW cs, Stack(cs), NEW x, Shown(cs, x), x.writable \in BOOLEAN,
         NEW c, c.saved.writable = x.writable, c.error \in BOOLEAN,
         NEW y, y.writable = (x.writable /\ ~c.error)
  PROVE  Shown(Append(cs, c), y)
<1> DEFINE n == Len(cs)
           ds == Append(cs, c)
<1>1. /\ n \in Nat /\ Len(ds) = n + 1 /\ ds[n + 1] = c
      /\ \A k \in 1 .. n : ds[k] = cs[k]
  BY Appended DEF Stack
<1>2. /\ \A k \in 1 .. n : cs[k].saved.writable = Open(cs, k - 1)
      /\ x.writable = Open(cs, n)
  BY DEF Shown
<1> HIDE DEF n, ds
<1>3. \A k \in 1 .. n + 1 : Open(ds, k - 1) = Open(cs, k - 1)
  <2> SUFFICES ASSUME NEW k \in 1 .. n + 1 PROVE Open(ds, k - 1) = Open(cs, k - 1)
    OBVIOUS
  <2>1. \A j \in 1 .. k - 1 : ds[j] = cs[j]
    BY <1>1
  <2> QED
    BY <2>1 DEF Open
<1>4. Open(ds, n + 1) = (Open(cs, n) /\ ~c.error)
  <2>1. n + 1 \in 1 .. n + 1 /\ \A j \in 1 .. n + 1 : j = n + 1 \/ j \in 1 .. n
    BY <1>1
  <2>2. \A j \in 1 .. n : j \in 1 .. n + 1
    BY <1>1
  <2> QED
    BY <1>1, <2>1, <2>2 DEF Open
<1>5. ASSUME NEW k \in 1 .. n + 1 PROVE ds[k].saved.writable = Open(ds, k - 1)
  <2>1. CASE k = n + 1
    <3>1. Open(ds, n) = Open(cs, n)
      BY <1>1 DEF Open
    <3> QED
      BY <1>1, <1>2, <2>1, <3>1
  <2>2. CASE k # n + 1
    <3>1. k \in 1 .. n
      BY <1>1, <2>2
    <3> QED
      BY <1>1, <1>2, <1>3, <3>1
  <2> QED
    BY <2>1, <2>2
<1>6. Shown(ds, y)
  BY <1>1, <1>2, <1>4, <1>5 DEF Shown
<1> QED
  BY <1>6 DEF ds

---------------------------------------------------------------------------
(***************************************************************************)
(* The stack and what the innermost call sees of pinfo.                    *)
(***************************************************************************)

Fits(cs, x, t) ==
  Stack(cs) /\ Ready(cs, Len(cs), x) /\ (~t => Shown(cs, x))

LEMMA Leaving ==
  ASSUME NEW cs, cs # <<>>, NEW x, NEW t, Fits(cs, x, t), x.writable \in BOOLEAN, NEW y,
         y.can_desegment = Last(cs).saved.can_desegment,
         Last(cs).clean => /\ y.current_proto = Last(cs).saved.current_proto
                           /\ y.match_uint = Last(cs).saved.match_uint
                           /\ y.in_list = Last(cs).saved.in_list,
         y.writable = IF Last(cs).error THEN Last(cs).saved.writable ELSE x.writable
  PROVE  /\ Fits(Front(cs), y, t) /\ Fits(Front(cs), Last(cs).saved, t)
         /\ ~t /\ ~Last(cs).error => x.writable = Last(cs).saved.writable
<1> DEFINE z == Last(cs).saved
<1>1. Stack(cs)
  BY DEF Fits
<1>2. Stack(Front(cs)) /\ Ready(Front(cs), Len(Front(cs)), y)
  BY <1>1, Popped
<1>3. Ready(Front(cs), Len(Front(cs)), z)
  <2> HIDE DEF z
  <2>1. /\ z.can_desegment = Last(cs).saved.can_desegment
        /\ z.current_proto = Last(cs).saved.current_proto
        /\ z.match_uint = Last(cs).saved.match_uint /\ z.in_list = Last(cs).saved.in_list
    BY DEF z
  <2> QED
    BY <1>1, <2>1, Popped
<1>4. ~t => /\ Shown(Front(cs), z)
            /\ ~Last(cs).error => x.writable = z.writable
  BY <1>1, ShownPopped DEF Fits
<1>5. ~t => Shown(Front(cs), y)
  BY <1>4 DEF Shown
<1> QED
  BY <1>2, <1>3, <1>4, <1>5 DEF Fits

LEMMA Entering ==
  ASSUME NEW cs, NEW x, NEW t, Fits(cs, x, t), x.can_desegment \in 0 .. 2,
         x.writable \in BOOLEAN,
         NEW c, CallOK(c), c.offers = FALSE, c.lowered = FALSE,
         cs # <<>> /\ cs[Len(cs)].clean => c.clean,
         c.saved.can_desegment = x.can_desegment,
         c.saved.current_proto = x.current_proto, c.saved.match_uint = x.match_uint,
         c.saved.in_list = x.in_list, c.saved.writable = x.writable,
         NEW y, c.clean => Own(c, y), y.can_desegment = Lower(x.can_desegment),
         ~t => y.writable = (x.writable /\ ~c.error)
  PROVE  Fits(Append(cs, c), y, t) /\ Append(cs, c) # <<>>
<1>1. Stack(cs) /\ Ready(cs, Len(cs), x)
  BY DEF Fits
<1>2. /\ Stack(Append(cs, c)) /\ Append(cs, c) # <<>>
      /\ Ready(Append(cs, c), Len(Append(cs, c)), y)
  BY <1>1, Pushed
<1>3. ~t => Shown(Append(cs, c), y)
  BY <1>1, ShownPushed DEF Fits, CallOK
<1> QED
  BY <1>2, <1>3 DEF Fits

(* History is written to the innermost call, c in its place.               *)
LEMMA Rewriting ==
  ASSUME NEW cs, cs # <<>>, NEW x, NEW t, Fits(cs, x, t),
         NEW c, CallOK(c), c.saved = Last(cs).saved, c.clean = Last(cs).clean,
         c.error = Last(cs).error, c.proto = Last(cs).proto, c.uint = Last(cs).uint,
         c.by = Last(cs).by,
         NEW y, y.current_proto = x.current_proto, y.match_uint = x.match_uint,
         y.in_list = x.in_list, y.writable = x.writable,
         \A offered, steady \in BOOLEAN : Desegment(Last(cs), offered, steady, x.can_desegment)
                                            => Desegment(c, offered, steady, y.can_desegment)
  PROVE  /\ Fits(Append(Front(cs), c), y, t) /\ Append(Front(cs), c) # <<>>
<1> DEFINE n == Len(cs)
           fs == Front(cs)
           ds == Append(fs, c)
<1>1. /\ n \in Nat /\ n >= 1 /\ Last(cs) = cs[n] /\ Len(fs) = n - 1 /\ IsSeq(fs)
      /\ \A k \in 1 .. n - 1 : fs[k] = cs[k]
  BY Fronted DEF Fits, Stack
<1> HIDE DEF fs
<1>2. Len(ds) = Len(fs) + 1 /\ IsSeq(ds) /\ ds # <<>> /\ ds[Len(fs) + 1] = c
      /\ \A k \in 1 .. Len(fs) : ds[k] = fs[k]
  BY <1>1, Appended
<1> HIDE DEF ds
<1>3. Len(ds) = n /\ ds[n] = c /\ \A k \in 1 .. n - 1 : ds[k] = cs[k]
  BY <1>1, <1>2
<1> HIDE DEF n
<1>4. /\ \A k \in 1 .. n : CallOK(cs[k]) /\ Ready(cs, k - 1, cs[k].saved)
      /\ \A k \in 1 .. n - 1 : cs[k].clean => cs[k + 1].clean
      /\ Ready(cs, n, x)
  BY DEF Fits, Stack, n
<1>5. \A k \in 1 .. n : /\ ds[k].saved = cs[k].saved /\ ds[k].clean = cs[k].clean
                        /\ ds[k].error = cs[k].error /\ CallOK(ds[k])
  <2> SUFFICES ASSUME NEW k \in 1 .. n
               PROVE  /\ ds[k].saved = cs[k].saved /\ ds[k].clean = cs[k].clean
                      /\ ds[k].error = cs[k].error /\ CallOK(ds[k])
    OBVIOUS
  <2>1. CASE k = n
    BY <1>1, <1>3, <2>1
  <2>2. CASE k # n
    <3>1. k \in 1 .. n - 1
      BY <1>1, <2>2
    <3> QED
      BY <1>3, <1>4, <3>1
  <2> QED
    BY <2>1, <2>2
<1>6. ASSUME NEW k \in 1 .. n PROVE Ready(ds, k - 1, ds[k].saved)
  <2> DEFINE m == k - 1
  <2>1. m \in Nat /\ \A j \in 1 .. m : ds[j] = cs[j]
    BY <1>1, <1>3
  <2>2. Ready(cs, m, cs[k].saved)
    BY <1>4
  <2> HIDE DEF m
  <2>3. Ready(ds, m, cs[k].saved)
    BY <2>1, <2>2, ReadySame
  <2> QED
    BY <1>5, <2>3 DEF m
<1>7. \A k \in 1 .. n - 1 : ds[k].clean => ds[k + 1].clean
  <2>1. \A k \in 1 .. n - 1 : k \in 1 .. n /\ k + 1 \in 1 .. n
    BY <1>1
  <2> QED
    BY <1>4, <1>5, <2>1
<1>8. Stack(ds)
  BY <1>2, <1>3, <1>5, <1>6, <1>7 DEF Stack
<1>9. Ready(ds, n, y)
  <2>1. n # 0 /\ n \in 1 .. n /\ 1 \in 1 .. n /\ n > 0
    BY <1>1
  <2>2. Own(cs[n], x) => Own(c, y)
    BY <1>1 DEF Own
  <2>3. Offered(ds, n) = Offered(cs, n) /\ Steady(ds, n) = Steady(cs, n)
    <3>1. n > 1 => n - 1 \in 1 .. n - 1
      BY <1>1
    <3> QED
      BY <1>3, <3>1 DEF Offered, Steady
  <2>4. Offered(cs, n) \in BOOLEAN /\ Steady(cs, n) \in BOOLEAN
    <3>1. n > 1 => n - 1 \in 1 .. n
      BY <1>1
    <3> QED
      BY <1>4, <3>1 DEF Offered, Steady, CallOK
  <2>5. ds[1].clean = cs[1].clean /\ ds[n].clean = cs[n].clean
    BY <1>5, <2>1
  <2> QED
    BY <1>1, <1>3, <1>4, <2>1, <2>2, <2>3, <2>4, <2>5 DEF Ready
<1>10. ~t => Shown(ds, y)
  <2>1. \A k \in 1 .. n + 1 : Open(ds, k - 1) = Open(cs, k - 1)
    <3> SUFFICES ASSUME NEW k \in 1 .. n + 1 PROVE Open(ds, k - 1) = Open(cs, k - 1)
      OBVIOUS
    <3>1. \A j \in 1 .. k - 1 : j \in 1 .. n
      BY <1>1
    <3> QED
      BY <1>5, <3>1 DEF Open
  <2>2. Open(ds, n) = Open(cs, n)
    BY <1>5 DEF Open
  <2>3. \A k \in 1 .. n : k \in 1 .. n + 1
    BY <1>1
  <2> QED
    BY <1>3, <1>5, <2>1, <2>2, <2>3 DEF Fits, Shown, n
<1> QED
  BY <1>2, <1>3, <1>8, <1>9, <1>10 DEF Fits, ds, fs

---------------------------------------------------------------------------
(***************************************************************************)
(* Calls and returns.                                                      *)
(***************************************************************************)

(* c calls the dissector of proto when pinfo is pi. *)
IsWork(c, pi, proto) ==
  /\ CallOK(c) /\ c.by = "handle" /\ c.proto = proto /\ c.saved = Saved(pi) /\ c.uint = 0
  /\ c.error = pi.in_error_pkt /\ c.clean = TRUE /\ c.lowered = FALSE /\ c.offers = FALSE

LEMMA SavedIn ==
  ASSUME NEW pi, Info(pi)
  PROVE  /\ Saved(pi) \in SavedFields
         /\ Saved(pi).current_proto = pi.current_proto
         /\ Saved(pi).can_desegment = pi.can_desegment
         /\ Saved(pi).match_uint = pi.match_uint /\ Saved(pi).in_list = pi.in_list
         /\ Saved(pi).writable = pi.writable
BY DEF Info, Saved, SavedFields

(* c is a call just made when pinfo is pi. *)
Made(c, by, proto, pi) ==
  /\ CallOK(c) /\ c.by = by /\ c.proto = proto /\ c.saved = Saved(pi) /\ c.uint = 0
  /\ c.error = FALSE /\ c.clean = TRUE /\ c.lowered = FALSE /\ c.offers = FALSE
  /\ c.rejected = FALSE

LEMMA Calls ==
  ASSUME NEW pi, Info(pi), NEW by \in {"handle", "heuristic", "direct"},
         NEW proto \in Protos \cup {NoProto}, by # "handle" => proto # NoProto,
         NEW layer, NEW length
  PROVE  Made(Call(by, proto, layer, length, pi), by, proto, pi)
<1> DEFINE s == Saved(pi)
<1>1. s \in SavedFields /\ 0 \in Numbers
  BY SavedIn DEF Numbers
<1> HIDE DEF s
<1>2. Call(by, proto, layer, length, pi)
        = [by |-> by, proto |-> proto, layer |-> layer, length |-> length, saved |-> s,
           count |-> items, error |-> FALSE, fallback |-> FALSE, uint |-> 0, entry |-> 0,
           rejected |-> FALSE, clean |-> TRUE, lowered |-> FALSE, offers |-> FALSE]
  BY DEF Call, s
<1> QED
  BY <1>1, <1>2 DEF CallOK, Made, s

LEMMA WorkCalls ==
  ASSUME NEW pi, Info(pi), NEW proto \in Protos \cup {NoProto}, NEW add,
         NEW fallback \in BOOLEAN
  PROVE  /\ IsWork(WorkCall(pi, proto, add), pi, proto)
         /\ IsWork([WorkCall(pi, proto, add) EXCEPT !.fallback = fallback], pi, proto)
<1> DEFINE l == Count(pi)
           d == (add /\ proto # NoProto)
           b == Call("handle", proto, d, l, pi)
           c == [b EXCEPT !.error = pi.in_error_pkt]
<1>1. Made(b, "handle", proto, pi)
  <2> HIDE DEF d, l
  <2>1. Made(Call("handle", proto, d, l, pi), "handle", proto, pi)
    BY Calls
  <2> QED
    BY <2>1
<1>2. WorkCall(pi, proto, add) = c /\ pi.in_error_pkt \in BOOLEAN
  BY DEF WorkCall, Info
<1> HIDE DEF b
<1>3. IsWork(c, pi, proto)
  BY <1>1, <1>2 DEF CallOK, IsWork, Made
<1> HIDE DEF c
<1>4. IsWork([c EXCEPT !.fallback = fallback], pi, proto)
  BY <1>3 DEF CallOK, IsWork
<1> QED
  BY <1>2, <1>3, <1>4

(* The invariant for as long as a dissector runs. *)
Good(cs, x, t) == Info(x) /\ Fits(cs, x, t)

(* A dissector calls another, or is followed by data. *)
LEMMA Working ==
  ASSUME NEW cs, NEW x, NEW t, Good(cs, x, t), NEW proto \in Protos \cup {NoProto}, NEW add,
         NEW c, IsWork(c, x, proto)
  PROVE  Good(Append(cs, c), WorkInfo(x, proto, add), t) /\ Append(cs, c) # <<>>
<1> DEFINE y == WorkInfo(x, proto, add)
<1>1. /\ Info(y)
      /\ y.current_proto = IF proto = NoProto THEN x.current_proto ELSE proto
      /\ y.can_desegment = Lower(x.can_desegment)
      /\ y.match_uint = x.match_uint /\ y.in_list = x.in_list
      /\ y.writable = (x.writable /\ ~x.in_error_pkt)
  BY WorkInfoFields DEF Good
<1> HIDE DEF y
<1>2. /\ c.saved.current_proto = x.current_proto /\ c.saved.can_desegment = x.can_desegment
      /\ c.saved.match_uint = x.match_uint /\ c.saved.in_list = x.in_list
      /\ c.saved.writable = x.writable
  BY SavedIn DEF Good, IsWork
<1>3. Own(c, y)
  <2>1. c.saved.in_list \in BOOLEAN
    BY <1>2 DEF Good, Info
  <2> QED
    BY <1>1, <1>2, <2>1 DEF Own, IsWork
<1>4. x.can_desegment \in 0 .. 2 /\ x.writable \in BOOLEAN
  BY DEF Good, Info
<1>5. y.writable = (x.writable /\ ~c.error)
  BY <1>1 DEF IsWork
<1>6. CallOK(c) /\ c.offers = FALSE /\ c.lowered = FALSE /\ c.clean = TRUE
  BY DEF IsWork
<1>7. Fits(Append(cs, c), y, t) /\ Append(cs, c) # <<>>
  BY <1>1, <1>2, <1>3, <1>4, <1>5, <1>6, Entering DEF Good
<1> QED
  BY <1>1, <1>7 DEF Good, y

(* The innermost call. *)
LEMMA Innermost ==
  ASSUME NEW cs, cs # <<>>, NEW x, NEW t, Good(cs, x, t)
  PROVE  CallOK(Last(cs)) /\ (Last(cs).clean => Own(Last(cs), x)) /\ x.writable \in BOOLEAN
<1>1. Len(cs) \in Nat /\ Len(cs) >= 1 /\ Last(cs) = cs[Len(cs)]
  BY Fronted DEF Good, Fits, Stack
<1> QED
  BY <1>1 DEF Good, Fits, Stack, Ready, Info

(* What call_dissector_work restores is what it saved. *)
LEMMA WorkLeaves ==
  ASSUME NEW cs, cs # <<>>, NEW x, NEW t, Good(cs, x, t), Last(cs).by = "handle", NEW len
  PROVE  Good(Front(cs), WorkDone(x, Last(cs), len), t)
<1> DEFINE c == Last(cs)
           y == WorkDone(x, c, len)
<1>1. CallOK(c) /\ (c.clean => Own(c, x)) /\ x.writable \in BOOLEAN
  BY Innermost
<1> HIDE DEF y
<1>2. /\ Info(y) /\ y.current_proto = c.saved.current_proto
      /\ y.can_desegment = c.saved.can_desegment
      /\ y.match_uint = IF c.uint # 0 THEN c.saved.match_uint ELSE x.match_uint
      /\ y.in_list = x.in_list
      /\ y.writable = IF c.error THEN c.saved.writable ELSE x.writable
  BY <1>1, WorkDoneFields DEF Good, y
<1>3. c.clean => y.match_uint = c.saved.match_uint /\ y.in_list = c.saved.in_list
  <2>1. c.saved.in_list \in BOOLEAN /\ c.by = "handle"
    BY <1>1 DEF CallOK, SavedFields
  <2> QED
    BY <1>1, <1>2, <2>1 DEF Own
<1>4. Fits(Front(cs), y, t)
  BY <1>1, <1>2, <1>3, Leaving DEF Good
<1> QED
  BY <1>2, <1>4 DEF Good, y

(* The same for the lists of heuristic dissectors; q is the packet_info    *)
(* without some of its layers.                                             *)
LEMMA ListLeaves ==
  ASSUME NEW cs, cs # <<>>, NEW x, NEW t, Good(cs, x, t), Last(cs).by # "handle",
         NEW q, Alike(q, x)
  PROVE  Good(Front(cs), ListDone(q, Last(cs)), t)
<1> DEFINE c == Last(cs)
           y == ListDone(q, c)
<1>1. CallOK(c) /\ (c.clean => Own(c, x)) /\ x.writable \in BOOLEAN
  BY Innermost
<1> HIDE DEF y
<1>2. /\ Info(y) /\ y.current_proto = c.saved.current_proto
      /\ y.can_desegment = c.saved.can_desegment /\ y.in_list = c.saved.in_list
      /\ y.match_uint = x.match_uint /\ y.writable = x.writable
  BY <1>1, ListDoneFields DEF Alike, y
<1>3. c.clean => y.match_uint = c.saved.match_uint
  BY <1>1, <1>2 DEF Own, CallOK
<1>4. ~c.error /\ c.error \in BOOLEAN
  BY <1>1 DEF CallOK
<1>5. Fits(Front(cs), y, t)
  BY <1>1, <1>2, <1>3, <1>4, Leaving DEF Good
<1> QED
  BY <1>2, <1>5 DEF Good, y

---------------------------------------------------------------------------
(***************************************************************************)
(* Every action keeps the invariant.                                       *)
(***************************************************************************)

LEMMA DataIn == data \in Protos /\ frame \in Protos /\ NoProto \notin Protos
BY PacketAssumption

LEMMA HandleKeeps ==
  ASSUME calls # <<>>, NEW t, Good(calls, pinfo, t), NEW len, HandleReturns(len)
  PROVE  Good(calls', pinfo', t)
<1> DEFINE below == Front(calls)
           left == WorkDone(pinfo, Last(calls), len)
           cd == WorkCall(left, data, TRUE)
           q == RemoveLayers(left, Last(below).length, Pass, TRUE)
<1>1. Good(below, left, t)
  BY WorkLeaves DEF HandleReturns, Top
<1>2. \/ calls' = Append(below, cd) /\ pinfo' = WorkInfo(left, data, TRUE)
      \/ /\ below # <<>> /\ Last(below).rejected
         /\ calls' = Front(below) /\ pinfo' = ListDone(q, Last(below))
      \/ calls' = below /\ pinfo' = left
  BY DEF HandleReturns, Top, DirectDone
<1> HIDE DEF below, left
<1>3. CASE calls' = Append(below, cd) /\ pinfo' = WorkInfo(left, data, TRUE)
  <2>1. IsWork(cd, left, data)
    BY <1>1, DataIn, WorkCalls DEF Good
  <2> HIDE DEF cd
  <2> QED
    BY <1>1, <1>3, <2>1, DataIn, Working
<1>4. CASE /\ below # <<>> /\ Last(below).rejected
           /\ calls' = Front(below) /\ pinfo' = ListDone(q, Last(below))
  <2>1. Alike(q, left)
    BY <1>1, RemoveLayersFields DEF Good
  <2> HIDE DEF q
  <2>2. Last(below).by # "handle"
    BY <1>1, <1>4, Innermost DEF CallOK
  <2> QED
    BY <1>1, <1>4, <2>1, <2>2, ListLeaves
<1>5. CASE calls' = below /\ pinfo' = left
  BY <1>1, <1>5
<1> QED
  BY <1>2, <1>3, <1>4, <1>5

(* The next turn of dissector_try_heuristic. *)
LEMMA TurnKeeps ==
  ASSUME NEW cs, cs # <<>>, NEW x, NEW t, Good(cs, x, t), Last(cs).by = "heuristic",
         NEW q, Alike(q, x), NEW proto \in Protos, NEW entry,
         NEW c, c = [Last(cs) EXCEPT !.proto = proto, !.entry = entry,
                                     !.lowered = FALSE, !.offers = FALSE]
  PROVE  Good(Append(Front(cs), c), HeuristicInfo(q, c), t)
<1> DEFINE b == Last(cs)
           s == b.saved
           y == HeuristicInfo(q, c)
<1>1. CallOK(b) /\ (b.clean => Own(b, x)) /\ x.writable \in BOOLEAN
  BY Innermost
<1> HIDE DEF b
<1>2. /\ CallOK(c) /\ c.by = "heuristic" /\ c.proto = proto /\ c.saved = s /\ c.uint = 0
      /\ c.error = FALSE /\ c.clean = b.clean /\ c.lowered = FALSE /\ c.offers = FALSE
      /\ c.proto # NoProto
  BY <1>1, DataIn DEF CallOK, b
<1>3. s \in SavedFields
  BY <1>1 DEF CallOK
<1> HIDE DEF y, s
<1>4. /\ s.can_desegment \in 0 .. 2 /\ s.writable \in BOOLEAN
  BY <1>3 DEF SavedFields
<1>5. /\ Info(y) /\ y.current_proto = c.proto /\ y.can_desegment = Lower(s.can_desegment)
      /\ y.match_uint = x.match_uint /\ y.in_list = TRUE /\ y.writable = x.writable
  <2>1. Info(q) /\ q.match_uint = x.match_uint /\ q.writable = x.writable
    BY DEF Alike
  <2>2. c.proto \in Protos /\ c.saved.can_desegment \in 0 .. 2
    BY <1>2, <1>4
  <2>3. /\ Info(y) /\ y.current_proto = c.proto
        /\ y.can_desegment = Lower(c.saved.can_desegment)
        /\ y.match_uint = q.match_uint /\ y.in_list = TRUE /\ y.writable = q.writable
    BY <2>1, <2>2, HeuristicInfoFields DEF y
  <2> QED
    BY <1>2, <2>1, <2>3
<1>6. Fits(Front(cs), s, t) /\ (~t => x.writable = s.writable)
  <2> DEFINE z == [x EXCEPT !.current_proto = s.current_proto, !.match_uint = s.match_uint,
                            !.in_list = s.in_list, !.can_desegment = s.can_desegment]
  <2>1. /\ z.current_proto = s.current_proto /\ z.match_uint = s.match_uint
        /\ z.in_list = s.in_list /\ z.can_desegment = s.can_desegment
        /\ z.writable = x.writable
    BY DEF Good, Info
  <2>2. ~b.error
    BY <1>1 DEF CallOK, b
  <2> HIDE DEF z
  <2> QED
    BY <1>1, <2>1, <2>2, Leaving DEF Good, b, s
<1>7. c.clean => Own(c, y)
  BY <1>1, <1>2, <1>5 DEF Own, CallOK, b, s
<1>8. Front(cs) # <<>> /\ Front(cs)[Len(Front(cs))].clean => c.clean
  <2> DEFINE n == Len(cs)
  <2>1. /\ n \in Nat /\ n >= 1 /\ b = cs[n] /\ Len(Front(cs)) = n - 1 /\ IsSeq(Front(cs))
        /\ \A k \in 1 .. n - 1 : Front(cs)[k] = cs[k]
    BY Fronted DEF Good, Fits, Stack, b
  <2>2. \A k \in 1 .. n - 1 : cs[k].clean => cs[k + 1].clean
    BY DEF Good, Fits, Stack
  <2> HIDE DEF n
  <2>3. Front(cs) # <<>> => n - 1 \in 1 .. n - 1
    <3>1. Front(cs) # <<>> => Len(Front(cs)) >= 1
      BY Fronted, <2>1
    <3> QED
      BY <2>1, <3>1
  <2> QED
    BY <1>2, <2>1, <2>2, <2>3
<1>9. Fits(Append(Front(cs), c), y, t)
  BY <1>2, <1>4, <1>5, <1>6, <1>7, <1>8, Entering
<1> QED
  BY <1>5, <1>9 DEF Good, y

LEMMA HeuristicKeeps ==
  ASSUME calls # <<>>, NEW t, Good(calls, pinfo, t), NEW len, HeuristicReturns(len)
  PROVE  Good(calls', pinfo', t)
<1> DEFINE q == RemoveLayers(pinfo, Top.length, Unlayered(Top, len), len = 0)
           turn(k) == [Top EXCEPT !.proto = Heuristics[k], !.entry = k,
                                  !.lowered = FALSE, !.offers = FALSE]
<1>1. Alike(q, pinfo)
  BY RemoveLayersFields DEF Good
<1>2. /\ Top = Last(calls) /\ Top.by = "heuristic"
      /\ \/ calls' = Front(calls) /\ pinfo' = ListDone(q, Top)
         \/ \E k \in DOMAIN Heuristics : /\ calls' = Append(Front(calls), turn(k))
                                         /\ pinfo' = HeuristicInfo(q, turn(k))
  BY DEF HeuristicReturns, Top
<1> HIDE DEF q
<1>3. CASE calls' = Front(calls) /\ pinfo' = ListDone(q, Top)
  BY <1>1, <1>2, <1>3, ListLeaves
<1>4. CASE \E k \in DOMAIN Heuristics : /\ calls' = Append(Front(calls), turn(k))
                                        /\ pinfo' = HeuristicInfo(q, turn(k))
  <2>1. PICK k \in DOMAIN Heuristics : /\ calls' = Append(Front(calls), turn(k))
                                       /\ pinfo' = HeuristicInfo(q, turn(k))
    BY <1>4
  <2>2. Heuristics[k] \in Protos
    BY PacketAssumption
  <2>3. PICK c : c = turn(k)
    OBVIOUS
  <2>4. c = [Last(calls) EXCEPT !.proto = Heuristics[k], !.entry = k,
                                !.lowered = FALSE, !.offers = FALSE]
    BY <1>2, <2>3
  <2> QED
    BY <1>1, <1>2, <2>1, <2>2, <2>3, <2>4, TurnKeeps
<1> QED
  BY <1>2, <1>3, <1>4

LEMMA DirectKeeps ==
  ASSUME calls # <<>>, NEW t, Good(calls, pinfo, t), NEW len, DirectReturns(len)
  PROVE  Good(calls', pinfo', t)
<1> DEFINE cd == WorkCall(pinfo, data, TRUE)
           r == [Last(calls) EXCEPT !.rejected = TRUE]
           ds == Append(Front(calls), r)
<1>1. /\ Last(calls).by = "direct"
      /\ \/ calls' = Append(ds, cd) /\ pinfo' = WorkInfo(pinfo, data, TRUE)
         \/ calls' = Front(calls) /\ pinfo' = ListDone(pinfo, Last(calls))
  BY DEF DirectReturns, Top
<1>2. CASE calls' = Append(ds, cd) /\ pinfo' = WorkInfo(pinfo, data, TRUE)
  <2>1. IsWork(cd, pinfo, data)
    BY DataIn, WorkCalls DEF Good
  <2>2. CallOK(Last(calls))
    BY Innermost
  <2>3. /\ CallOK(r) /\ r.saved = Last(calls).saved /\ r.clean = Last(calls).clean
        /\ r.error = Last(calls).error /\ r.proto = Last(calls).proto
        /\ r.uint = Last(calls).uint /\ r.by = Last(calls).by
        /\ r.offers = Last(calls).offers /\ r.lowered = Last(calls).lowered
    BY <1>1, <2>2 DEF CallOK
  <2> HIDE DEF cd, r
  <2>4. Good(ds, pinfo, t)
    <3>1. \A offered, steady \in BOOLEAN :
            Desegment(Last(calls), offered, steady, pinfo.can_desegment)
              => Desegment(r, offered, steady, pinfo.can_desegment)
      BY <2>3 DEF Desegment
    <3> QED
      BY <2>3, <3>1, Rewriting DEF Good
  <2> HIDE DEF ds
  <2> QED
    BY <1>2, <2>1, <2>4, DataIn, Working
<1>3. CASE calls' = Front(calls) /\ pinfo' = ListDone(pinfo, Last(calls))
  <2>1. Alike(pinfo, pinfo)
    BY DEF Alike, Good
  <2> QED
    BY <1>1, <1>3, <2>1, ListLeaves
<1> QED
  BY <1>1, <1>2, <1>3

(* A heuristic dissector is called, from a list or directly. *)
LEMMA Listing ==
  ASSUME NEW cs, NEW x, NEW t, Good(cs, x, t),
         NEW c, CallOK(c), c.by # "handle", c.saved = Saved(x), c.uint = 0,
         c.error = FALSE, c.clean = TRUE, c.lowered = FALSE, c.offers = FALSE,
         NEW y, Info(y), y.current_proto = c.proto, y.match_uint = x.match_uint,
         y.in_list = TRUE, y.can_desegment = Lower(x.can_desegment), y.writable = x.writable
  PROVE  Good(Append(cs, c), y, t)
<1>1. /\ c.saved.current_proto = x.current_proto /\ c.saved.can_desegment = x.can_desegment
      /\ c.saved.match_uint = x.match_uint /\ c.saved.in_list = x.in_list
      /\ c.saved.writable = x.writable
  BY SavedIn DEF Good
<1>2. x.can_desegment \in 0 .. 2 /\ x.writable \in BOOLEAN
  BY DEF Good, Info
<1>3. Own(c, y)
  BY <1>1 DEF Own, CallOK
<1>4. Fits(Append(cs, c), y, t)
  BY <1>1, <1>2, <1>3, Entering DEF Good
<1> QED
  BY <1>4 DEF Good

LEMMA CallDissectorKeeps ==
  ASSUME NEW t, Good(calls, pinfo, t), NEW proto \in Protos \cup {NoProto},
         CallDissector(proto)
  PROVE  Good(calls', pinfo', t)
<1> DEFINE enabled == proto \notin Disabled
           p == IF enabled THEN proto ELSE data
           c == [WorkCall(pinfo, p, TRUE) EXCEPT !.fallback = enabled]
<1>1. calls' = Append(calls, c) /\ pinfo' = WorkInfo(pinfo, p, TRUE)
  BY DEF CallDissector, Push
<1>2. p \in Protos \cup {NoProto} /\ enabled \in BOOLEAN
  BY DataIn
<1> HIDE DEF p, enabled
<1>3. IsWork(c, pinfo, p)
  BY <1>2, WorkCalls DEF Good
<1> HIDE DEF c
<1> QED
  BY <1>1, <1>2, <1>3, Working

LEMMA TryUintKeeps ==
  ASSUME NEW t, Good(calls, pinfo, t), NEW u \in DOMAIN Table, NEW add, TryUint(u, add)
  PROVE  Good(calls', pinfo', t)
<1> DEFINE p == Table[u]
           x == [pinfo EXCEPT !.match_uint = u]
           b == WorkCall(pinfo, p, add)
           c == [b EXCEPT !.uint = u]
           y == WorkInfo(x, p, add)
<1>1. calls' = Append(calls, c) /\ pinfo' = y
  BY DEF TryUint, Push
<1>2. p \in Protos \cup {NoProto} /\ u # 0 /\ u \in Numbers
  BY PacketAssumption DEF Numbers
<1> HIDE DEF p, b, y
<1>3. IsWork(b, pinfo, p)
  BY <1>2, WorkCalls DEF Good, b
<1>4. /\ Info(x) /\ x.match_uint = u /\ x.current_proto = pinfo.current_proto
      /\ x.can_desegment = pinfo.can_desegment /\ x.in_list = pinfo.in_list
      /\ x.writable = pinfo.writable /\ x.in_error_pkt = pinfo.in_error_pkt
  BY <1>2 DEF Good, Info
<1> HIDE DEF x
<1>5. /\ Info(y)
      /\ y.current_proto = IF p = NoProto THEN pinfo.current_proto ELSE p
      /\ y.can_desegment = Lower(pinfo.can_desegment)
      /\ y.match_uint = u /\ y.in_list = pinfo.in_list
      /\ y.writable = (pinfo.writable /\ ~pinfo.in_error_pkt)
  BY <1>2, <1>4, WorkInfoFields DEF y
<1>6. /\ CallOK(c) /\ c.by = "handle" /\ c.proto = p /\ c.saved = Saved(pinfo) /\ c.uint = u
      /\ c.error = pinfo.in_error_pkt /\ c.clean = TRUE /\ c.lowered = FALSE
      /\ c.offers = FALSE
  BY <1>2, <1>3 DEF IsWork, CallOK
<1> HIDE DEF c
<1>7. /\ c.saved.current_proto = pinfo.current_proto
      /\ c.saved.can_desegment = pinfo.can_desegment
      /\ c.saved.match_uint = pinfo.match_uint /\ c.saved.in_list = pinfo.in_list
      /\ c.saved.writable = pinfo.writable
      /\ pinfo.can_desegment \in 0 .. 2 /\ pinfo.writable \in BOOLEAN
      /\ c.saved.in_list \in BOOLEAN
  BY <1>6, SavedIn DEF Good, Info
<1>8. Own(c, y)
  BY <1>2, <1>5, <1>6, <1>7 DEF Own
<1>9. Fits(Append(calls, c), y, t)
  BY <1>5, <1>6, <1>7, <1>8, Entering DEF Good
<1> QED
  BY <1>1, <1>5, <1>9 DEF Good

LEMMA TryHeuristicKeeps ==
  ASSUME NEW t, Good(calls, pinfo, t), TryHeuristic
  PROVE  Good(calls', pinfo', t)
<1> DEFINE b(k) == Call("heuristic", Heuristics[k], TRUE, Count(pinfo), pinfo)
<1>1. PICK k \in DOMAIN Heuristics :
        /\ calls' = Append(calls, [b(k) EXCEPT !.entry = k])
        /\ pinfo' = HeuristicInfo(pinfo, [b(k) EXCEPT !.entry = k])
  BY DEF TryHeuristic, Push
<1>2. Heuristics[k] \in Protos /\ Heuristics[k] # NoProto
  BY PacketAssumption
<1>3. Made(b(k), "heuristic", Heuristics[k], pinfo)
  BY <1>2, Calls DEF Good
<1>4. PICK m : m = b(k)
  OBVIOUS
<1>5. PICK c : c = [m EXCEPT !.entry = k]
  OBVIOUS
<1>6. /\ CallOK(c) /\ c.by = "heuristic" /\ c.proto = Heuristics[k] /\ c.saved = Saved(pinfo)
      /\ c.uint = 0 /\ c.error = FALSE /\ c.clean = TRUE /\ c.lowered = FALSE
      /\ c.offers = FALSE
  <2>1. Made(m, "heuristic", Heuristics[k], pinfo)
    BY <1>3, <1>4
  <2> QED
    BY <1>5, <2>1 DEF Made, CallOK
<1>7. calls' = Append(calls, c) /\ pinfo' = HeuristicInfo(pinfo, c)
  BY <1>1, <1>4, <1>5
<1> HIDE DEF b
<1>8. c.saved.can_desegment = pinfo.can_desegment /\ c.saved.can_desegment \in 0 .. 2
  BY <1>6, SavedIn DEF Good, Info
<1> DEFINE y == HeuristicInfo(pinfo, c)
<1>9. /\ Info(y) /\ y.current_proto = c.proto
      /\ y.can_desegment = Lower(pinfo.can_desegment)
      /\ y.match_uint = pinfo.match_uint /\ y.in_list = TRUE /\ y.writable = pinfo.writable
  <2>1. c.proto \in Protos /\ Info(pinfo)
    BY <1>2, <1>6 DEF Good
  <2>2. /\ Info(y) /\ y.current_proto = c.proto
        /\ y.can_desegment = Lower(c.saved.can_desegment)
        /\ y.match_uint = pinfo.match_uint /\ y.in_list = TRUE /\ y.writable = pinfo.writable
    BY <1>8, <2>1, HeuristicInfoFields
  <2> QED
    BY <1>8, <2>2
<1>10. pinfo' = y /\ c.by # "handle"
  BY <1>6, <1>7
<1> HIDE DEF y
<1> QED
  BY <1>6, <1>7, <1>9, <1>10, Listing

LEMMA CallHeurDirectKeeps ==
  ASSUME calls # <<>>, NEW t, Good(calls, pinfo, t), NEW proto \in Protos,
         CallHeurDirect(proto)
  PROVE  Good(calls', pinfo', t)
<1> DEFINE low == [pinfo EXCEPT !.can_desegment = Lower(@)]
           c == Call("direct", proto, TRUE, Count(pinfo), pinfo)
           q == [low EXCEPT !.current_proto = proto, !.in_list = TRUE]
           r == [Last(calls) EXCEPT !.lowered = TRUE]
           ds == Append(Front(calls), r)
           cd == WorkCall(low, data, TRUE)
<1>1. \/ calls' = Append(calls, c) /\ pinfo' = AddLayer(q, proto)
      \/ calls' = Append(ds, cd) /\ pinfo' = WorkInfo(low, data, TRUE)
  BY DEF CallHeurDirect, Push, Top
<1>2. /\ Info(low) /\ low.can_desegment = Lower(pinfo.can_desegment)
      /\ low.current_proto = pinfo.current_proto /\ low.match_uint = pinfo.match_uint
      /\ low.in_list = pinfo.in_list /\ low.writable = pinfo.writable
  <2>1. Lower(pinfo.can_desegment) \in 0 .. 2
    BY LowerIn DEF Good, Info
  <2> QED
    BY <2>1 DEF Good, Info
<1> HIDE DEF low
<1>3. /\ Info(q) /\ q.current_proto = proto /\ q.match_uint = pinfo.match_uint
      /\ q.can_desegment = Lower(pinfo.can_desegment)
      /\ q.in_list = TRUE /\ q.writable = pinfo.writable
  BY <1>2 DEF Info
<1> HIDE DEF q
<1>4. CASE calls' = Append(calls, c) /\ pinfo' = AddLayer(q, proto)
  <2>1. Made(c, "direct", proto, pinfo)
    BY DataIn, Calls DEF Good
  <2> HIDE DEF c
  <2>2. /\ CallOK(c) /\ c.by # "handle" /\ c.proto = proto /\ c.saved = Saved(pinfo)
        /\ c.uint = 0 /\ c.error = FALSE /\ c.clean = TRUE /\ c.lowered = FALSE
        /\ c.offers = FALSE
    BY <2>1 DEF Made
  <2> DEFINE y == AddLayer(q, proto)
  <2>3. /\ Info(y) /\ y.current_proto = c.proto
        /\ y.can_desegment = Lower(pinfo.can_desegment)
        /\ y.match_uint = pinfo.match_uint /\ y.in_list = TRUE
        /\ y.writable = pinfo.writable
    BY <1>3, <2>2, AddLayerFields DEF Alike
  <2>4. pinfo' = y
    BY <1>4
  <2> HIDE DEF y
  <2> QED
    BY <1>4, <2>2, <2>3, <2>4, Listing
<1>5. CASE calls' = Append(ds, cd) /\ pinfo' = WorkInfo(low, data, TRUE)
  <2>1. IsWork(cd, low, data)
    BY <1>2, DataIn, WorkCalls
  <2>2. CallOK(Last(calls)) /\ pinfo.can_desegment \in 0 .. 2
    BY Innermost DEF Good, Info
  <2>3. /\ CallOK(r) /\ r.saved = Last(calls).saved /\ r.clean = Last(calls).clean
        /\ r.error = Last(calls).error /\ r.proto = Last(calls).proto
        /\ r.uint = Last(calls).uint /\ r.by = Last(calls).by
        /\ r.offers = Last(calls).offers /\ r.lowered = TRUE
    BY <2>2 DEF CallOK
  <2> HIDE DEF cd, r
  <2>4. Good(ds, low, t)
    <3>1. \A offered, steady \in BOOLEAN :
            Desegment(Last(calls), offered, steady, pinfo.can_desegment)
              => Desegment(r, offered, steady, low.can_desegment)
      BY <1>2, <2>2, <2>3 DEF Desegment, Lower
    <3> QED
      BY <1>2, <2>3, <3>1, Rewriting DEF Good
  <2> HIDE DEF ds
  <2> QED
    BY <1>5, <2>1, <2>4, DataIn, Working
<1> QED
  BY <1>1, <1>4, <1>5

LEMMA OfferKeeps ==
  ASSUME calls # <<>>, NEW t, Good(calls, pinfo, t), OfferDesegment
  PROVE  Good(calls', pinfo', t)
<1> DEFINE q == [pinfo EXCEPT !.can_desegment = 2]
           r == [Last(calls) EXCEPT !.offers = TRUE]
<1>1. calls' = Append(Front(calls), r) /\ pinfo' = q
  BY DEF OfferDesegment, Top
<1>2. /\ Info(q) /\ q.current_proto = pinfo.current_proto /\ q.match_uint = pinfo.match_uint
      /\ q.can_desegment = 2 /\ q.in_list = pinfo.in_list /\ q.writable = pinfo.writable
  BY DEF Good, Info
<1>3. CallOK(Last(calls))
  BY Innermost
<1>4. /\ CallOK(r) /\ r.saved = Last(calls).saved /\ r.clean = Last(calls).clean
      /\ r.error = Last(calls).error /\ r.proto = Last(calls).proto
      /\ r.uint = Last(calls).uint /\ r.by = Last(calls).by /\ r.offers = TRUE
  BY <1>3 DEF CallOK
<1> HIDE DEF q, r
<1>5. \A offered, steady \in BOOLEAN : Desegment(r, offered, steady, q.can_desegment)
  BY <1>2, <1>4 DEF Desegment
<1> QED
  BY <1>1, <1>2, <1>4, <1>5, Rewriting DEF Good

LEMMA RecordKeeps ==
  ASSUME DissectRecord
  PROVE  Good(calls', pinfo', FALSE)
<1> DEFINE b == WorkCall(NewInfo, frame, TRUE)
           c == [b EXCEPT !.fallback = TRUE, !.count = 0]
<1>1. calls' = <<c>> /\ pinfo' = WorkInfo(NewInfo, frame, TRUE)
  BY DEF DissectRecord
<1>2. /\ Info(NewInfo) /\ NewInfo.can_desegment = 0 /\ NewInfo.writable = TRUE
  <2> DEFINE l == [pass \in Pass |-> <<>>]
             n == [pass \in Pass |-> 0]
  <2>1. NewInfo = [current_proto |-> NoProto, can_desegment |-> 0, match_uint |-> 0,
                   in_list |-> FALSE, writable |-> TRUE, in_error_pkt |-> FALSE,
                   layers |-> l, curr_layer_num |-> n]
    BY DEF NewInfo
  <2> HIDE DEF l, n
  <2> QED
    BY <2>1 DEF Info, Numbers
<1>3. Good(<<>>, NewInfo, FALSE)
  <2> DEFINE e == <<>>
             T == {e[k] : k \in DOMAIN e}
  <2>1. e \in Seq(T) /\ Len(e) = 0 /\ e = <<>>
    <3> HIDE DEF T
    <3> QED
      OBVIOUS
  <2> HIDE DEF e
  <2>2. IsSeq(e)
    BY <2>1 DEF IsSeq
  <2>3. Open(e, 0)
    BY DEF Open
  <2>4. Shown(e, NewInfo)
    <3>1. NewInfo.writable = TRUE
      BY <1>2
    <3>2. (\A k \in 1 .. Len(e) : e[k].saved.writable = Open(e, k - 1)) /\ Open(e, Len(e))
      BY <2>1, <2>3
    <3> QED
      BY <3>1, <3>2 DEF Shown
  <2>5. Stack(e)
    BY <2>1, <2>2 DEF Stack
  <2>6. Ready(e, Len(e), NewInfo)
    BY <1>2, <2>1 DEF Ready
  <2> QED
    BY <1>2, <2>1, <2>4, <2>5, <2>6 DEF Good, Fits
<1>4. IsWork(b, NewInfo, frame)
  BY <1>2, DataIn, WorkCalls
<1> HIDE DEF b
<1>5. IsWork(c, NewInfo, frame)
  BY <1>4 DEF IsWork, CallOK
<1> HIDE DEF c
<1>6. Good(Append(<<>>, c), WorkInfo(NewInfo, frame, TRUE), FALSE)
  BY <1>3, <1>5, DataIn, Working
<1>7. Append(<<>>, c) = <<c>>
  OBVIOUS
<1> QED
  BY <1>1, <1>6, <1>7

(* An exception: the stack is as before, but no call is clean. *)
LEMMA ThrowKeeps ==
  ASSUME calls # <<>>, NEW t, Good(calls, pinfo, t), Throw
  PROVE  Good(calls', pinfo', t) /\ \A k \in 1 .. Len(calls') : ~calls'[k].clean
<1> DEFINE n == Len(calls)
           ds == [k \in DOMAIN calls |-> [calls[k] EXCEPT !.clean = FALSE]]
           T == {ds[k] : k \in DOMAIN ds}
<1>1. calls' = ds /\ pinfo' = pinfo
  BY DEF Throw
<1>2. n \in Nat /\ n >= 1 /\ DOMAIN calls = 1 .. n
  <2>1. IsSeq(calls)
    BY DEF Good, Fits, Stack
  <2>2. Len(calls) \in Nat /\ Len(calls) >= 1
    BY <2>1, Fronted
  <2>3. DOMAIN calls = 1 .. Len(calls)
    BY <2>1, Appended
  <2> QED
    BY <2>2, <2>3
<1>3. /\ \A k \in 1 .. n : CallOK(calls[k]) /\ Ready(calls, k - 1, calls[k].saved)
      /\ Ready(calls, n, pinfo)
  BY DEF Good, Fits, Stack
<1> HIDE DEF n
<1>4. \A k \in 1 .. n : ds[k] = [calls[k] EXCEPT !.clean = FALSE]
  BY <1>2
<1>5. ds \in Seq(T) /\ Len(ds) = n
  <2>1. ds = [k \in 1 .. n |-> ds[k]] /\ \A k \in 1 .. n : ds[k] \in T
    BY <1>2
  <2> HIDE DEF ds, T
  <2> QED
    BY <1>2, <2>1
<1>6. IsSeq(ds)
  BY <1>5 DEF IsSeq
<1> HIDE DEF ds
<1>7. \A k \in 1 .. n : /\ CallOK(ds[k]) /\ ds[k].clean = FALSE
                        /\ ds[k].saved = calls[k].saved /\ ds[k].error = calls[k].error
  <2> SUFFICES ASSUME NEW k \in 1 .. n
               PROVE  /\ CallOK(ds[k]) /\ ds[k].clean = FALSE
                      /\ ds[k].saved = calls[k].saved /\ ds[k].error = calls[k].error
    OBVIOUS
  <2> DEFINE a == calls[k]
             b == [a EXCEPT !.clean = FALSE]
  <2>1. CallOK(a) /\ ds[k] = b
    BY <1>3, <1>4
  <2> HIDE DEF a
  <2>2. /\ CallOK(b) /\ b.clean = FALSE /\ b.saved = a.saved /\ b.error = a.error
    BY <2>1 DEF CallOK
  <2> HIDE DEF b
  <2> QED
    BY <2>1, <2>2 DEF a
<1>8. ASSUME NEW k \in 1 .. n + 1, NEW x, Ready(calls, k - 1, x)
      PROVE  Ready(ds, k - 1, x)
  <2>1. k - 1 > 0 => k - 1 \in 1 .. n /\ 1 \in 1 .. n
    BY <1>2
  <2> QED
    BY <1>7, <1>8, <2>1 DEF Ready
<1>9. Stack(ds)
  <2>1. \A k \in 1 .. n : k \in 1 .. n + 1
    BY <1>2
  <2>2. \A k \in 1 .. n : CallOK(ds[k]) /\ Ready(ds, k - 1, ds[k].saved)
    BY <1>3, <1>7, <1>8, <2>1
  <2>3. \A k \in 1 .. n - 1 : ds[k].clean => ds[k + 1].clean
    <3>1. \A k \in 1 .. n - 1 : k \in 1 .. n
      BY <1>2
    <3> QED
      BY <1>7, <3>1
  <2> QED
    BY <1>5, <1>6, <2>2, <2>3 DEF Stack
<1>10. Ready(ds, n, pinfo)
  <2>1. n > 0 /\ n \in 1 .. n /\ 1 \in 1 .. n /\ n # 0
    BY <1>2
  <2> QED
    BY <1>7, <2>1 DEF Ready
<1>11. ~t => Shown(ds, pinfo)
  <2>1. \A k \in 1 .. n + 1 : Open(ds, k - 1) = Open(calls, k - 1)
    <3> SUFFICES ASSUME NEW k \in 1 .. n + 1 PROVE Open(ds, k - 1) = Open(calls, k - 1)
      OBVIOUS
    <3>1. \A j \in 1 .. k - 1 : j \in 1 .. n
      BY <1>2
    <3> QED
      BY <1>7, <3>1 DEF Open
  <2>2. Open(ds, n) = Open(calls, n)
    BY <1>7 DEF Open
  <2>3. \A k \in 1 .. n : k \in 1 .. n + 1
    BY <1>2
  <2> QED
    BY <1>5, <1>7, <2>1, <2>2, <2>3 DEF Good, Fits, Shown, n
<1> QED
  BY <1>1, <1>5, <1>7, <1>9, <1>10, <1>11 DEF Good, Fits

LEMMA UnwindKeeps ==
  ASSUME IInv, Unwind
  PROVE  IInv'
<1>1. /\ Info(pinfo) /\ Stack(calls) /\ calls # <<>> /\ throwing
      /\ \A k \in 1 .. Len(calls) : ~calls[k].clean
      /\ ~torn => Shown(calls, pinfo)
      /\ torn \in BOOLEAN
  BY DEF IInv, Unwind
<1> DEFINE n == Len(calls)
           c == Last(calls)
           ds == Front(calls)
<1>2. /\ n \in Nat /\ n >= 1 /\ c = calls[n] /\ Len(ds) = n - 1
      /\ \A k \in 1 .. n - 1 : ds[k] = calls[k]
  BY <1>1, Fronted DEF Stack
<1>3. CallOK(c)
  BY <1>1, <1>2 DEF Stack
<1>4. /\ calls' = ds /\ throwing' = throwing
      /\ \/ pinfo' = pinfo /\ torn' = (torn \/ c.error)
         \/ pinfo' = ErrorInfo(c) /\ torn' = torn
  BY DEF Unwind, Top
<1>5. Info(pinfo')
  BY <1>1, <1>3, <1>4, ErrorInfoFields
<1>6. Stack(ds)
  BY <1>1, Popped
<1>7. \A k \in 1 .. Len(ds) : ~ds[k].clean
  <2>1. \A k \in 1 .. n - 1 : k \in 1 .. n
    BY <1>2
  <2> QED
    BY <1>1, <1>2, <2>1
<1>8. ds # <<>> => Ready(ds, Len(ds), pinfo')
  <2>1. ds # <<>> => Len(ds) \in Nat /\ Len(ds) >= 1
    BY <1>6, Fronted DEF Stack
  <2>2. ds # <<>> => 1 \in 1 .. Len(ds) /\ Len(ds) \in 1 .. Len(ds) /\ Len(ds) # 0
    BY <2>1
  <2> QED
    BY <1>7, <2>2 DEF Ready
<1>9. ~torn' => Shown(ds, pinfo')
  <2>1. ~torn' => ~torn
    BY <1>4
  <2>2. pinfo.writable \in BOOLEAN
    BY <1>1 DEF Info
  <2>3. ~torn => /\ Shown(ds, c.saved)
                 /\ ~c.error => pinfo.writable = c.saved.writable
    BY <1>1, <2>2, ShownPopped
  <2>4. ~torn' => pinfo'.writable = c.saved.writable
    BY <1>1, <1>3, <1>4, <2>1, <2>3, ErrorInfoFields
  <2> QED
    BY <2>1, <2>3, <2>4 DEF Shown
<1>10. torn' \in BOOLEAN
  BY <1>1, <1>3, <1>4 DEF CallOK
<1> QED
  BY <1>4, <1>5, <1>6, <1>7, <1>8, <1>9, <1>10 DEF IInv

LEMMA InitGood == ASSUME Init PROVE IInv
<1>1. /\ pinfo = NewInfo /\ calls = <<>> /\ throwing = FALSE /\ torn = FALSE
  BY DEF Init
<1>2. Info(NewInfo) /\ NewInfo.writable = TRUE
  <2> DEFINE l == [pass \in Pass |-> <<>>]
             n == [pass \in Pass |-> 0]
  <2>1. NewInfo = [current_proto |-> NoProto, can_desegment |-> 0, match_uint |-> 0,
                   in_list |-> FALSE, writable |-> TRUE, in_error_pkt |-> FALSE,
                   layers |-> l, curr_layer_num |-> n]
    BY DEF NewInfo
  <2> HIDE DEF l, n
  <2> QED
    BY <2>1 DEF Info, Numbers
<1> DEFINE T == {calls[k] : k \in DOMAIN calls}
<1>3. calls \in Seq(T) /\ Len(calls) = 0
  <2> HIDE DEF T
  <2> QED
    BY <1>1
<1>4. Stack(calls)
  BY <1>3 DEF Stack, IsSeq
<1>5. Shown(calls, pinfo)
  <2>1. pinfo.writable = TRUE
    BY <1>1, <1>2
  <2>2. Open(calls, Len(calls))
    BY <1>3 DEF Open
  <2>3. \A k \in 1 .. Len(calls) : calls[k].saved.writable = Open(calls, k - 1)
    BY <1>3
  <2> QED
    BY <2>1, <2>2, <2>3 DEF Shown
<1> QED
  BY <1>1, <1>2, <1>4, <1>5 DEF IInv

LEMMA StepKeeps == ASSUME IInv, [Next]_vars PROVE IInv'
<1>1. calls # <<>> => Good(calls, pinfo, torn)
  BY DEF IInv, Good, Fits
<1>2. ASSUME Good(calls', pinfo', torn'), torn' \in BOOLEAN, throwing' = FALSE
      PROVE  IInv'
  BY <1>2 DEF IInv, Good, Fits
<1>3. torn \in BOOLEAN /\ throwing \in BOOLEAN
  BY DEF IInv
<1>4. CASE DissectRecord
  <2>1. Good(calls', pinfo', FALSE) /\ torn' = FALSE /\ throwing' = FALSE
    BY <1>4, RecordKeeps DEF DissectRecord
  <2> QED
    BY <1>2, <2>1
<1>5. ASSUME NEW proto \in Protos \cup {NoProto}, CallDissector(proto) PROVE IInv'
  <2>1. calls # <<>> /\ throwing' = FALSE /\ torn' = torn
    BY <1>3, <1>5 DEF CallDissector, Push, MayCall, Acts, Running
  <2> QED
    BY <1>1, <1>2, <1>3, <1>5, <2>1, CallDissectorKeeps
<1>6. ASSUME NEW u \in DOMAIN Table, NEW add \in BOOLEAN, TryUint(u, add) PROVE IInv'
  <2>1. calls # <<>> /\ throwing' = FALSE /\ torn' = torn
    BY <1>3, <1>6 DEF TryUint, Push, MayCall, Acts, Running
  <2> QED
    BY <1>1, <1>2, <1>3, <1>6, <2>1, TryUintKeeps
<1>7. CASE TryHeuristic
  <2>1. calls # <<>> /\ throwing' = FALSE /\ torn' = torn
    BY <1>3, <1>7 DEF TryHeuristic, Push, MayCall, Acts, Running
  <2> QED
    BY <1>1, <1>2, <1>3, <1>7, <2>1, TryHeuristicKeeps
<1>8. ASSUME NEW proto \in ToSet(Heuristics), CallHeurDirect(proto) PROVE IInv'
  <2>1. calls # <<>> /\ throwing' = FALSE /\ torn' = torn
    BY <1>3, <1>8 DEF CallHeurDirect, Push, MayCall, Acts, Running
  <2>2. proto \in Protos
    BY PacketAssumption DEF ToSet
  <2> QED
    BY <1>1, <1>2, <1>3, <1>8, <2>1, <2>2, CallHeurDirectKeeps
<1>9. CASE AddItem
  <2>1. /\ calls # <<>> /\ throwing' = FALSE /\ torn' = torn
        /\ calls' = calls /\ pinfo' = pinfo
    BY <1>3, <1>9 DEF AddItem, Acts, Running
  <2> QED
    BY <1>1, <1>2, <1>3, <2>1
<1>10. CASE OfferDesegment
  <2>1. calls # <<>> /\ throwing' = FALSE /\ torn' = torn
    BY <1>3, <1>10 DEF OfferDesegment, Acts, Running
  <2> QED
    BY <1>1, <1>2, <1>3, <1>10, <2>1, OfferKeeps
<1>11. ASSUME NEW b \in BOOLEAN, SetInErrorPkt(b) PROVE IInv'
  <2> DEFINE q == [pinfo EXCEPT !.in_error_pkt = b]
  <2>1. /\ calls # <<>> /\ throwing' = FALSE /\ torn' = torn
        /\ calls' = calls /\ pinfo' = q
    BY <1>3, <1>11 DEF SetInErrorPkt, Acts, Running
  <2>2. /\ Info(q) /\ q.current_proto = pinfo.current_proto
        /\ q.match_uint = pinfo.match_uint /\ q.can_desegment = pinfo.can_desegment
        /\ q.in_list = pinfo.in_list /\ q.writable = pinfo.writable
    BY DEF IInv, Info
  <2> HIDE DEF q
  <2>3. Fits(calls, q, torn)
    BY <1>1, <2>1, <2>2 DEF Good, Fits, Ready, Own, Shown
  <2> QED
    BY <1>2, <1>3, <2>1, <2>2, <2>3 DEF Good
<1>12. ASSUME NEW len \in {0, 1}, Returns(len) PROVE IInv'
  <2>1. /\ calls # <<>> /\ throwing' = FALSE /\ torn' = torn
        /\ HandleReturns(len) \/ HeuristicReturns(len) \/ DirectReturns(len)
    BY <1>3, <1>12 DEF Returns, Running
  <2>2. Good(calls', pinfo', torn)
    <3>1. CASE HandleReturns(len)
      BY <1>1, <2>1, <3>1, HandleKeeps
    <3>2. CASE HeuristicReturns(len)
      BY <1>1, <2>1, <3>2, HeuristicKeeps
    <3>3. CASE DirectReturns(len)
      BY <1>1, <2>1, <3>3, DirectKeeps
    <3> QED
      BY <2>1, <3>1, <3>2, <3>3
  <2> QED
    BY <1>2, <1>3, <2>1, <2>2
<1>13. ASSUME NEW len \in {0, 1}, ErrorCaught(len) PROVE IInv'
  <2>1. calls # <<>> /\ throwing' = FALSE /\ torn' = torn /\ HandleReturns(len)
    BY <1>13 DEF ErrorCaught
  <2>2. Good(calls', pinfo', torn)
    BY <1>1, <2>1, HandleKeeps
  <2> QED
    BY <1>2, <1>3, <2>1, <2>2
<1>14. CASE Throw
  <2>1. calls # <<>> /\ throwing' = TRUE /\ torn' = torn
    BY <1>14 DEF Throw, Acts, Running
  <2>2. Good(calls', pinfo', torn) /\ \A k \in 1 .. Len(calls') : ~calls'[k].clean
    BY <1>1, <1>14, <2>1, ThrowKeeps
  <2> QED
    BY <1>3, <2>1, <2>2 DEF IInv, Good, Fits
<1>15. CASE Unwind
  BY <1>15, UnwindKeeps
<1>16. CASE DissectorCatches
  <2>1. /\ calls # <<>> /\ throwing' = FALSE /\ torn' = torn
        /\ calls' = calls /\ pinfo' = pinfo
    BY <1>16 DEF DissectorCatches
  <2> QED
    BY <1>1, <1>2, <1>3, <2>1
<1>17. CASE RecordCatches
  <2>1. throwing' = FALSE /\ torn' = torn /\ calls' = calls /\ pinfo' = pinfo
    BY <1>17 DEF RecordCatches
  <2> QED
    BY <1>3, <2>1 DEF IInv
<1>18. CASE UNCHANGED vars
  <2>1. throwing' = throwing /\ torn' = torn /\ calls' = calls /\ pinfo' = pinfo
    BY <1>18 DEF vars
  <2> QED
    BY <2>1 DEF IInv
<1> QED
  BY <1>4, <1>5, <1>6, <1>7, <1>8, <1>9, <1>10, <1>11, <1>12, <1>13, <1>14, <1>15, <1>16,
     <1>17, <1>18 DEF Next

LEMMA Invariant == Spec => []IInv
<1>1. Init => IInv
  BY InitGood
<1>2. IInv /\ [Next]_vars => IInv'
  BY StepKeeps
<1> QED
  BY <1>1, <1>2, PTL DEF Spec

---------------------------------------------------------------------------

(* Nested calls of dissectors restore the protocol, the table entry and    *)
(* the heuristic list a dissector was called for, whatever dissectors it   *)
(* called before and whichever of them rejected the data or were disabled. *)
THEOREM OwnCall == Spec => []SeesItsOwnCall
<1>1. IInv => SeesItsOwnCall
  <2> SUFFICES ASSUME IInv, Running, Top.clean PROVE Own(Last(calls), pinfo)
    BY DEF SeesItsOwnCall, Own, Top
  <2>1. Good(calls, pinfo, torn) /\ calls # <<>>
    BY DEF IInv, Good, Fits, Running
  <2> QED
    BY <2>1, Innermost DEF Top
<1> QED
  BY <1>1, Invariant, PTL

(* can_desegment, lowered by each call and restored by each return, lets   *)
(* only who offers desegmentation and the ones right above it use it.      *)
THEOREM OnlyAbove == Spec => []DesegmentsOnlyAbove
<1>1. IInv => DesegmentsOnlyAbove
  <2> SUFFICES ASSUME IInv, Running, \A k \in DOMAIN calls : calls[k].clean
               PROVE  LET n == Len(calls)
                          offered == n > 1 /\ calls[n - 1].offers
                      IN /\ pinfo.can_desegment > 0 => Top.offers \/ offered
                         /\ Top.offers /\ ~Top.lowered => pinfo.can_desegment = 2
                         /\ offered /\ ~Top.offers /\ ~Top.lowered /\ ~calls[n - 1].lowered
                              => pinfo.can_desegment = 1
    BY DEF DesegmentsOnlyAbove
  <2> DEFINE n == Len(calls)
  <2>1. IsSeq(calls) /\ calls # <<>> /\ Ready(calls, n, pinfo)
    BY DEF IInv, Stack, Running
  <2>2. n \in Nat /\ n >= 1 /\ Last(calls) = calls[n]
    BY <2>1, Fronted
  <2>3. DOMAIN calls = 1 .. n
    BY <2>1, Appended
  <2> HIDE DEF n
  <2>4. 1 \in DOMAIN calls /\ n > 0
    BY <2>2, <2>3
  <2>5. Desegment(calls[n], Offered(calls, n), Steady(calls, n), pinfo.can_desegment)
    BY <2>1, <2>4 DEF Ready
  <2> QED
    BY <2>2, <2>5 DEF Desegment, Offered, Steady, Top, n
<1> QED
  BY <1>1, Invariant, PTL

(* The columns are closed exactly while a packet within an error packet is *)
(* dissected, as long as no exception has left one past its handlers.      *)
THEOREM ReporterShown == Spec => []ColumnsShowReporter
<1>1. IInv => ColumnsShowReporter
  <2> SUFFICES ASSUME IInv, ~torn
               PROVE  pinfo.writable = ~\E k \in DOMAIN calls : calls[k].error
    BY DEF ColumnsShowReporter
  <2>1. IsSeq(calls) /\ pinfo.writable = Open(calls, Len(calls))
    BY DEF IInv, Stack, Shown
  <2>2. DOMAIN calls = 1 .. Len(calls)
    BY <2>1, Appended
  <2> QED
    BY <2>1, <2>2 DEF Open
<1> QED
  BY <1>1, Invariant, PTL

---------------------------------------------------------------------------
(***************************************************************************)
(* Layers.  Each pass keeps at least the layers that were there when a     *)
(* call began, and those with a tree are some of those without, in order.  *)
(***************************************************************************)

LEMMA Divided ==
  ASSUME NEW m \in Nat \ {0}, NEW x \in Int
  PROVE  /\ x % m \in 0 .. m - 1 /\ x % m \in Int /\ x \div m \in Int
         /\ x = m * (x \div m) + (x % m)
OBVIOUS

LEMMA Remainder ==
  ASSUME NEW m \in Nat \ {0}, NEW q \in Int, NEW r \in 0 .. m - 1
  PROVE  (m * q + r) % m = r
OBVIOUS

(* A number that is kept in its width follows what it counts.             *)
LEMMA LessModulo ==
  ASSUME NEW m \in Nat \ {0}, NEW x \in Int, NEW d \in Int
  PROVE  ((x % m) - d) % m = (x - d) % m
<1> DEFINE q == x \div m
           r == x % m
           p == (r - d) \div m
           s == (r - d) % m
<1>1. q \in Int /\ r \in Int /\ x = m * q + r
  BY Divided
<1> HIDE DEF q, r
<1>2. r - d \in Int
  BY <1>1
<1>3. p \in Int /\ s \in 0 .. m - 1 /\ r - d = m * p + s
  BY <1>2, Divided
<1> HIDE DEF p, s
<1>4. x - d = m * (q + p) + s /\ q + p \in Int
  BY <1>1, <1>3
<1>5. (m * (q + p) + s) % m = s
  BY <1>3, <1>4, Remainder
<1> QED
  BY <1>4, <1>5 DEF r, s

(* The first m of a are some of the first n of b, in order.                *)
InOrder(a, m, b, n, at) ==
  \A k \in 1 .. m : at[k] \in 1 .. n /\ a[k] = b[at[k]] /\ \A j \in 1 .. k - 1 : at[j] < at[k]

Embeds(a, m, b, n) == \E at \in [1 .. m -> 1 .. n] : InOrder(a, m, b, n, at)

(* Of layers with their numbers, and of lengths that may be cut down to.   *)
Laid(pi) ==
  /\ \A pass \in Pass : pi.layers[pass] \in Seq(Protos)
  /\ pi.layers = [pass \in Pass |-> pi.layers[pass]]
  /\ pi.curr_layer_num = [pass \in Pass |-> pi.curr_layer_num[pass]]
  /\ pi.curr_layer_num["bare"] = Len(pi.layers["bare"]) % LayerMod
  /\ pi.curr_layer_num["tree"] \in Int
  /\ Embeds(pi.layers["tree"], Len(pi.layers["tree"]), pi.layers["bare"], Len(pi.layers["bare"]))

Reachable(length, pi) ==
  /\ \A pass \in Pass : length[pass] \in 0 .. Len(pi.layers[pass])
  /\ Embeds(pi.layers["tree"], length["tree"], pi.layers["bare"], length["bare"])

Agree(pi) == pi.curr_layer_num["tree"] = pi.curr_layer_num["bare"]

Layered(cs, pi, d) ==
  /\ Laid(pi)
  /\ ~d => Agree(pi)
  /\ \A k \in 1 .. Len(cs) : Reachable(cs[k].length, pi)
  /\ \A k \in 1 .. Len(cs) : \A j \in 1 .. k :
       \A pass \in Pass : cs[j].length[pass] <= cs[k].length[pass]

LEMMA EmbedsSame ==
  ASSUME NEW a, NEW b, NEW c, NEW d, NEW m \in Nat, NEW n \in Nat, Embeds(a, m, b, n),
         \A k \in 1 .. m : c[k] = a[k], \A k \in 1 .. n : d[k] = b[k]
  PROVE  Embeds(c, m, d, n)
BY DEF Embeds, InOrder

LEMMA EmbedsPrefix ==
  ASSUME NEW a, NEW b, NEW m \in Nat, NEW n \in Nat, Embeds(a, m, b, n), NEW k \in 0 .. m
  PROVE  Embeds(a, k, b, n)
<1>1. PICK at \in [1 .. m -> 1 .. n] : InOrder(a, m, b, n, at)
  BY DEF Embeds
<1> DEFINE to == [j \in 1 .. k |-> at[j]]
<1>2. to \in [1 .. k -> 1 .. n] /\ \A j \in 1 .. k : j \in 1 .. m /\ to[j] = at[j]
  OBVIOUS
<1>3. InOrder(a, k, b, n, to)
  <2> HIDE DEF to
  <2> QED
    BY <1>1, <1>2 DEF InOrder
<1> QED
  BY <1>2, <1>3 DEF Embeds

LEMMA EmbedsOneMore ==
  ASSUME NEW a, NEW b, NEW m \in Nat, NEW n \in Nat, Embeds(a, m, b, n), a[m + 1] = b[n + 1]
  PROVE  Embeds(a, m + 1, b, n + 1)
<1>1. PICK at \in [1 .. m -> 1 .. n] : InOrder(a, m, b, n, at)
  BY DEF Embeds
<1> DEFINE to == [j \in 1 .. m + 1 |-> IF j = m + 1 THEN n + 1 ELSE at[j]]
<1>2. to[m + 1] = n + 1 /\ \A j \in 1 .. m : to[j] = at[j] /\ at[j] \in 1 .. n
  OBVIOUS
<1>3. to \in [1 .. m + 1 -> 1 .. n + 1]
  OBVIOUS
<1>4. ASSUME NEW k \in 1 .. m + 1
      PROVE  to[k] \in 1 .. n + 1 /\ a[k] = b[to[k]] /\ \A j \in 1 .. k - 1 : to[j] < to[k]
  <2> HIDE DEF to
  <2>1. CASE k = m + 1
    BY <1>2, <2>1
  <2>2. CASE k \in 1 .. m
    BY <1>1, <1>2, <2>2 DEF InOrder
  <2> QED
    BY <2>1, <2>2
<1> HIDE DEF to
<1> QED
  BY <1>3, <1>4 DEF Embeds, InOrder

---------------------------------------------------------------------------
(* A layer more, or none. *)

Grown(q, pi) ==
  \/ q.layers = pi.layers /\ q.curr_layer_num = pi.curr_layer_num
  \/ \E proto \in Protos :
       /\ q.layers = [pass \in Pass |-> Append(pi.layers[pass], proto)]
       /\ q.curr_layer_num = [pass \in Pass |-> (pi.curr_layer_num[pass] + 1) % LayerMod]

LEMMA Passes == "tree" \in Pass /\ "bare" \in Pass /\ Pass = {"tree", "bare"}
BY DEF Pass

LEMMA GrownLayers ==
  ASSUME NEW pi, Laid(pi), NEW q, Grown(q, pi)
  PROVE  /\ Laid(q) /\ (Agree(pi) => Agree(q))
         /\ \A length : Reachable(length, pi) => Reachable(length, q)
<1>1. CASE q.layers = pi.layers /\ q.curr_layer_num = pi.curr_layer_num
  BY <1>1 DEF Laid, Reachable, Agree
<1>2. ASSUME NEW proto \in Protos,
             q.layers = [pass \in Pass |-> Append(pi.layers[pass], proto)],
             q.curr_layer_num = [pass \in Pass |-> (pi.curr_layer_num[pass] + 1) % LayerMod]
      PROVE  /\ Laid(q) /\ (Agree(pi) => Agree(q))
             /\ \A length : Reachable(length, pi) => Reachable(length, q)
  <2> DEFINE t == pi.layers["tree"]
             b == pi.layers["bare"]
             u == q.layers["tree"]
             c == q.layers["bare"]
  <2>1. /\ t \in Seq(Protos) /\ b \in Seq(Protos) /\ Embeds(t, Len(t), b, Len(b))
        /\ pi.curr_layer_num["bare"] = Len(b) % LayerMod /\ pi.curr_layer_num["tree"] \in Int
        /\ LayerMod \in Nat \ {0}
    BY Passes, PacketAssumption DEF Laid
  <2>2. u = Append(t, proto) /\ c = Append(b, proto)
    BY <1>2, Passes
  <2>3. /\ Len(t) \in Nat /\ Len(b) \in Nat /\ u \in Seq(Protos) /\ c \in Seq(Protos)
        /\ Len(u) = Len(t) + 1 /\ Len(c) = Len(b) + 1
        /\ u[Len(t) + 1] = proto /\ c[Len(b) + 1] = proto
        /\ \A k \in 1 .. Len(t) : u[k] = t[k]
        /\ \A k \in 1 .. Len(b) : c[k] = b[k]
    <3> HIDE DEF t, b, u, c
    <3> QED
      BY <2>1, <2>2
  <2>4. /\ q.curr_layer_num["bare"] = (pi.curr_layer_num["bare"] + 1) % LayerMod
        /\ q.curr_layer_num["tree"] = (pi.curr_layer_num["tree"] + 1) % LayerMod
        /\ q.layers = [pass \in Pass |-> q.layers[pass]]
        /\ q.curr_layer_num = [pass \in Pass |-> q.curr_layer_num[pass]]
        /\ \A pass \in Pass : pass = "tree" \/ pass = "bare"
    BY <1>2, Passes
  <2> HIDE DEF t, b, u, c
  <2>5. Embeds(u, Len(t) + 1, c, Len(b) + 1)
    <3>1. Embeds(u, Len(t), c, Len(b))
      BY <2>1, <2>3, EmbedsSame
    <3> QED
      BY <2>3, <3>1, EmbedsOneMore
  <2>6. q.curr_layer_num["bare"] = Len(c) % LayerMod
    <3>1. -1 \in Int /\ Len(b) \in Int
      BY <2>3
    <3>2. ((Len(b) % LayerMod) - (-1)) % LayerMod = (Len(b) - (-1)) % LayerMod
      BY <2>1, <3>1, LessModulo
    <3>3. Len(b) % LayerMod \in Int
      BY <2>1, <3>1, Divided
    <3>4. (Len(b) % LayerMod) - (-1) = (Len(b) % LayerMod) + 1 /\ Len(b) - (-1) = Len(c)
      BY <2>3, <3>3
    <3> QED
      BY <2>1, <2>4, <3>2, <3>4
  <2>7. q.curr_layer_num["tree"] \in Int
    <3>1. pi.curr_layer_num["tree"] + 1 \in Int
      BY <2>1
    <3>2. (pi.curr_layer_num["tree"] + 1) % LayerMod \in Int
      BY <2>1, <3>1, Divided
    <3> QED
      BY <2>4, <3>2
  <2>8. Laid(q)
    <3>1. \A pass \in Pass : q.layers[pass] \in Seq(Protos)
      BY <2>3, <2>4 DEF u, c
    <3> QED
      BY <2>3, <2>4, <2>5, <2>6, <2>7, <3>1 DEF Laid, u, c
  <2>9. Agree(pi) => Agree(q)
    BY <2>4 DEF Agree
  <2>10. ASSUME NEW length, Reachable(length, pi) PROVE Reachable(length, q)
    <3>1. /\ length["tree"] \in 0 .. Len(t) /\ length["bare"] \in 0 .. Len(b)
          /\ Embeds(t, length["tree"], b, length["bare"])
      BY <2>10, Passes DEF Reachable, t, b
    <3>2. /\ length["tree"] \in Nat /\ length["bare"] \in Nat
          /\ length["tree"] \in 0 .. Len(u) /\ length["bare"] \in 0 .. Len(c)
          /\ \A k \in 1 .. length["tree"] : u[k] = t[k]
          /\ \A k \in 1 .. length["bare"] : c[k] = b[k]
      BY <2>3, <3>1
    <3>3. Embeds(u, length["tree"], c, length["bare"])
      BY <3>1, <3>2, EmbedsSame
    <3> QED
      BY <2>4, <3>2, <3>3 DEF Reachable, u, c
  <2> QED
    BY <2>8, <2>9, <2>10
<1> QED
  BY <1>1, <1>2 DEF Grown

---------------------------------------------------------------------------
(* Layers that go: from both passes after a rejection, when their number   *)
(* goes down with them, and else only from the one with a tree.            *)

Cuts == {{}, {"tree"}, Pass}

CutFrom(q, pi, length, passes) ==
  /\ q.layers = [pass \in Pass |-> IF pass \in passes THEN SubSeq(pi.layers[pass], 1, length[pass])
                                   ELSE pi.layers[pass]]
  /\ q.curr_layer_num =
       [pass \in Pass |->
          IF passes = Pass
          THEN (pi.curr_layer_num[pass] - (Len(pi.layers[pass]) - length[pass])) % LayerMod
          ELSE pi.curr_layer_num[pass]]

LEMMA CutLayers ==
  ASSUME NEW pi, Laid(pi), NEW length, Reachable(length, pi), NEW q,
         NEW passes \in Cuts, CutFrom(q, pi, length, passes)
  PROVE  /\ Laid(q)
         /\ Agree(pi) /\ ~(passes = Pass /\ Drifts(pi, [length |-> length])) => Agree(q)
         /\ \A l : Reachable(l, pi) /\ (\A pass \in Pass : l[pass] <= length[pass])
                     => Reachable(l, q)
<1> DEFINE t == pi.layers["tree"]
           b == pi.layers["bare"]
           m == length["tree"]
           n == length["bare"]
           u == q.layers["tree"]
           c == q.layers["bare"]
           tm == SubSeq(t, 1, m)
           bn == SubSeq(b, 1, n)
<1>1. /\ t \in Seq(Protos) /\ b \in Seq(Protos) /\ Embeds(t, Len(t), b, Len(b))
      /\ pi.curr_layer_num["bare"] = Len(b) % LayerMod /\ pi.curr_layer_num["tree"] \in Int
      /\ LayerMod \in Nat \ {0} /\ m \in 0 .. Len(t) /\ n \in 0 .. Len(b) /\ Embeds(t, m, b, n)
      /\ Len(t) \in Nat /\ Len(b) \in Nat /\ m \in Nat /\ n \in Nat
  <2>1. t \in Seq(Protos) /\ b \in Seq(Protos) /\ m \in 0 .. Len(t) /\ n \in 0 .. Len(b)
    BY Passes DEF Laid, Reachable
  <2>2. Len(t) \in Nat /\ Len(b) \in Nat
    BY <2>1
  <2>3. m \in Nat /\ n \in Nat
    BY <2>1, <2>2
  <2>4. Embeds(t, Len(t), b, Len(b)) /\ Embeds(t, m, b, n)
    BY DEF Laid, Reachable
  <2> QED
    BY <2>1, <2>2, <2>3, <2>4, PacketAssumption DEF Laid
<1>2. /\ tm \in Seq(Protos) /\ Len(tm) = m /\ \A k \in 1 .. m : tm[k] = t[k]
      /\ bn \in Seq(Protos) /\ Len(bn) = n /\ \A k \in 1 .. n : bn[k] = b[k]
  <2> HIDE DEF t, b, m, n
  <2> QED
    BY <1>1
<1>3. /\ \A l : Reachable(l, pi) => /\ l["tree"] \in Nat /\ l["bare"] \in Nat
                                    /\ Embeds(t, l["tree"], b, l["bare"])
  <2> SUFFICES ASSUME NEW l, Reachable(l, pi)
               PROVE  l["tree"] \in Nat /\ l["bare"] \in Nat /\ Embeds(t, l["tree"], b, l["bare"])
    OBVIOUS
  <2>1. l["tree"] \in 0 .. Len(t) /\ l["bare"] \in 0 .. Len(b)
    BY Passes DEF Reachable
  <2> QED
    BY <1>1, <2>1 DEF Reachable
<1>4. \A pass \in Pass : pass = "tree" \/ pass = "bare"
  BY Passes
<1>5. CASE passes = {}
  <2>1. q.layers = pi.layers /\ q.curr_layer_num = pi.curr_layer_num
    BY <1>5, Passes DEF CutFrom, Laid
  <2> QED
    BY <2>1 DEF Laid, Reachable, Agree
<1>6. CASE passes = Pass
  <2>1. /\ u = tm /\ c = bn
        /\ q.layers = [pass \in Pass |-> q.layers[pass]]
        /\ q.curr_layer_num = [pass \in Pass |-> q.curr_layer_num[pass]]
        /\ q.curr_layer_num["tree"] = (pi.curr_layer_num["tree"] - (Len(t) - m)) % LayerMod
        /\ q.curr_layer_num["bare"] = (pi.curr_layer_num["bare"] - (Len(b) - n)) % LayerMod
    BY <1>6, Passes DEF CutFrom
  <2>2. Drifts(pi, [length |-> length]) <=> Len(t) - m # Len(b) - n
    BY DEF Drifts
  <2> HIDE DEF t, b, m, n, u, c, tm, bn
  <2>3. Embeds(u, Len(u), c, Len(c))
    BY <1>1, <1>2, <2>1, EmbedsSame
  <2>4. q.curr_layer_num["bare"] = Len(c) % LayerMod
    <3>1. Len(b) \in Int /\ Len(b) - n \in Int
      BY <1>1
    <3>2. ((Len(b) % LayerMod) - (Len(b) - n)) % LayerMod = (Len(b) - (Len(b) - n)) % LayerMod
      BY <1>1, <3>1, LessModulo
    <3>3. Len(b) - (Len(b) - n) = Len(c)
      BY <1>1, <1>2, <2>1
    <3> QED
      BY <1>1, <2>1, <3>2, <3>3
  <2>5. q.curr_layer_num["tree"] \in Int
    <3>1. pi.curr_layer_num["tree"] - (Len(t) - m) \in Int
      BY <1>1
    <3>2. (pi.curr_layer_num["tree"] - (Len(t) - m)) % LayerMod \in Int
      BY <1>1, <3>1, Divided
    <3> QED
      BY <2>1, <3>2
  <2>6. Laid(q)
    <3>1. \A pass \in Pass : q.layers[pass] \in Seq(Protos)
      BY <1>2, <1>4, <2>1 DEF u, c
    <3> QED
      BY <2>1, <2>3, <2>4, <2>5, <3>1 DEF Laid, u, c
  <2>7. Agree(pi) /\ ~Drifts(pi, [length |-> length]) => Agree(q)
    BY <2>1, <2>2 DEF Agree
  <2>8. ASSUME NEW l, Reachable(l, pi), \A pass \in Pass : l[pass] <= length[pass]
        PROVE  Reachable(l, q)
    <3>1. /\ l["tree"] \in Nat /\ l["bare"] \in Nat /\ Embeds(t, l["tree"], b, l["bare"])
          /\ l["tree"] <= m /\ l["bare"] <= n
      BY <1>3, <2>8, Passes DEF m, n
    <3>2. /\ l["tree"] \in 0 .. Len(u) /\ l["bare"] \in 0 .. Len(c)
          /\ \A k \in 1 .. l["tree"] : u[k] = t[k]
          /\ \A k \in 1 .. l["bare"] : c[k] = b[k]
      <4>1. Len(u) = m /\ Len(c) = n /\ m \in Nat /\ n \in Nat
        BY <1>1, <1>2, <2>1
      <4>2. \A k \in 1 .. l["tree"] : k \in 1 .. m
        BY <3>1, <4>1
      <4>3. \A k \in 1 .. l["bare"] : k \in 1 .. n
        BY <3>1, <4>1
      <4>4. l["tree"] \in 0 .. m /\ l["bare"] \in 0 .. n
        BY <3>1, <4>1
      <4> QED
        BY <1>2, <2>1, <4>1, <4>2, <4>3, <4>4
    <3>3. Embeds(u, l["tree"], c, l["bare"])
      BY <3>1, <3>2, EmbedsSame
    <3> QED
      BY <1>4, <3>2, <3>3 DEF Reachable, u, c
  <2> QED
    BY <1>6, <2>6, <2>7, <2>8
<1>7. CASE passes = {"tree"}
  <2>1. /\ u = tm /\ c = b
        /\ q.layers = [pass \in Pass |-> q.layers[pass]]
        /\ q.curr_layer_num = [pass \in Pass |-> q.curr_layer_num[pass]]
        /\ q.curr_layer_num["tree"] = pi.curr_layer_num["tree"]
        /\ q.curr_layer_num["bare"] = pi.curr_layer_num["bare"]
    <3>1. passes # Pass
      BY <1>7, Passes
    <3> QED
      BY <1>7, <3>1, Passes DEF CutFrom
  <2> HIDE DEF t, b, m, n, u, c, tm, bn
  <2>2. Embeds(u, Len(u), c, Len(c))
    <3>1. Embeds(t, m, b, Len(b))
      BY <1>1, EmbedsPrefix
    <3> QED
      BY <1>1, <1>2, <2>1, <3>1, EmbedsSame
  <2>3. Laid(q)
    <3>1. \A pass \in Pass : q.layers[pass] \in Seq(Protos)
      BY <1>1, <1>2, <1>4, <2>1 DEF u, c
    <3> QED
      BY <1>1, <2>1, <2>2, <3>1 DEF Laid, u, c
  <2>4. Agree(pi) => Agree(q)
    BY <2>1 DEF Agree
  <2>5. ASSUME NEW l, Reachable(l, pi), \A pass \in Pass : l[pass] <= length[pass]
        PROVE  Reachable(l, q)
    <3>1. /\ l["tree"] \in Nat /\ l["bare"] \in Nat /\ Embeds(t, l["tree"], b, l["bare"])
          /\ l["tree"] <= m /\ l["bare"] \in 0 .. Len(b)
      BY <1>3, <2>5, Passes DEF m, Reachable, b
    <3>2. /\ l["tree"] \in 0 .. Len(u) /\ l["bare"] \in 0 .. Len(c)
          /\ \A k \in 1 .. l["tree"] : u[k] = t[k]
      BY <1>1, <1>2, <2>1, <3>1
    <3>3. Embeds(u, l["tree"], c, l["bare"])
      BY <2>1, <3>1, <3>2, EmbedsSame, ZenonT(60)
    <3> QED
      BY <1>4, <3>2, <3>3 DEF Reachable, u, c
  <2> QED
    BY <2>3, <2>4, <2>5
<1> QED
  BY <1>5, <1>6, <1>7 DEF Cuts

---------------------------------------------------------------------------
(* The stack, whose lengths only grow from a call to the one it makes.     *)

LEMMA LayeredPopped ==
  ASSUME NEW cs, IsSeq(cs), cs # <<>>, NEW pi, NEW d, Layered(cs, pi, d)
  PROVE  Layered(Front(cs), pi, d)
<1>1. /\ Len(cs) \in Nat /\ Len(cs) >= 1 /\ Len(Front(cs)) = Len(cs) - 1
      /\ \A k \in 1 .. Len(cs) - 1 : Front(cs)[k] = cs[k]
  BY Fronted
<1> QED
  BY <1>1 DEF Layered

LEMMA LayeredGrown ==
  ASSUME NEW cs, NEW pi, NEW d, Layered(cs, pi, d), NEW q, Grown(q, pi)
  PROVE  Layered(cs, q, d)
BY GrownLayers DEF Layered

LEMMA CountReachable ==
  ASSUME NEW pi, Laid(pi)
  PROVE  Reachable(Count(pi), pi) /\ \A pass \in Pass : Count(pi)[pass] = Len(pi.layers[pass])
<1>1. \A pass \in Pass : Count(pi)[pass] = Len(pi.layers[pass]) /\ Len(pi.layers[pass]) \in Nat
  BY DEF Count, Laid
<1> QED
  BY <1>1, Passes DEF Reachable, Laid

LEMMA LayeredAppended ==
  ASSUME NEW cs, IsSeq(cs), NEW pi, NEW d, Layered(cs, pi, d), NEW c, Reachable(c.length, pi),
         \A j \in 1 .. Len(cs) : \A pass \in Pass : cs[j].length[pass] <= c.length[pass]
  PROVE  Layered(Append(cs, c), pi, d)
<1> DEFINE ds == Append(cs, c)
           n == Len(cs)
<1>1. /\ n \in Nat /\ Len(ds) = n + 1 /\ ds[n + 1] = c /\ \A k \in 1 .. n : ds[k] = cs[k]
  BY Appended
<1> HIDE DEF ds, n
<1>2. \A k \in 1 .. n + 1 : Reachable(ds[k].length, pi)
  BY <1>1 DEF Layered, n
<1>3. ASSUME NEW k \in 1 .. n + 1, NEW j \in 1 .. k, NEW pass \in Pass
      PROVE  ds[j].length[pass] <= ds[k].length[pass]
  <2>1. CASE k \in 1 .. n
    <3>1. j \in 1 .. n /\ ds[j] = cs[j] /\ ds[k] = cs[k]
      BY <1>1, <2>1
    <3> QED
      BY <2>1, <3>1 DEF Layered, n
  <2>2. CASE k = n + 1 /\ j \in 1 .. n
    BY <1>1, <2>2 DEF n
  <2>3. CASE k = n + 1 /\ j = n + 1
    <3>1. c.length[pass] \in 0 .. Len(pi.layers[pass])
      BY DEF Reachable
    <3> QED
      BY <1>1, <2>3, <3>1
  <2> QED
    BY <1>1, <2>1, <2>2, <2>3
<1> QED
  BY <1>1, <1>2, <1>3 DEF Layered, ds

LEMMA LayeredPushed ==
  ASSUME NEW cs, IsSeq(cs), NEW pi, NEW d, Layered(cs, pi, d), NEW c, c.length = Count(pi),
         NEW q, Grown(q, pi)
  PROVE  Layered(Append(cs, c), q, d)
<1>1. Reachable(c.length, pi)
  BY CountReachable DEF Layered
<1>2. ASSUME NEW j \in 1 .. Len(cs), NEW pass \in Pass
      PROVE  cs[j].length[pass] <= c.length[pass]
  <2>1. cs[j].length[pass] \in 0 .. Len(pi.layers[pass])
    BY DEF Layered, Reachable
  <2>2. c.length[pass] = Len(pi.layers[pass])
    BY CountReachable DEF Layered
  <2> QED
    BY <2>1, <2>2
<1> QED
  BY <1>1, <1>2, LayeredAppended, LayeredGrown

(* The innermost call is replaced by one that began with as many layers.   *)
LEMMA LayeredReplaced ==
  ASSUME NEW cs, IsSeq(cs), cs # <<>>, NEW pi, NEW d, Layered(cs, pi, d),
         NEW c, c.length = Last(cs).length
  PROVE  Layered(Append(Front(cs), c), pi, d)
<1>1. /\ Len(cs) \in Nat /\ Len(cs) >= 1 /\ Last(cs) = cs[Len(cs)]
      /\ IsSeq(Front(cs)) /\ Len(Front(cs)) = Len(cs) - 1
      /\ \A k \in 1 .. Len(cs) - 1 : Front(cs)[k] = cs[k]
  BY Fronted
<1>2. Len(cs) \in 1 .. Len(cs)
  BY <1>1
<1>3. Reachable(c.length, pi)
  BY <1>1, <1>2 DEF Layered
<1>4. ASSUME NEW j \in 1 .. Len(Front(cs)), NEW pass \in Pass
      PROVE  Front(cs)[j].length[pass] <= c.length[pass]
  <2>1. j \in 1 .. Len(cs) /\ Front(cs)[j] = cs[j]
    BY <1>1
  <2> QED
    BY <1>1, <1>2, <2>1 DEF Layered
<1>5. Layered(Front(cs), pi, d)
  BY LayeredPopped
<1> QED
  BY <1>1, <1>3, <1>4, <1>5, LayeredAppended

LEMMA LayeredCut ==
  ASSUME NEW cs, IsSeq(cs), cs # <<>>, NEW pi, NEW d, Layered(cs, pi, d), NEW q,
         NEW passes \in Cuts, CutFrom(q, pi, Last(cs).length, passes),
         NEW e, ~e => ~d /\ ~(passes = Pass /\ Drifts(pi, Last(cs)))
  PROVE  Layered(cs, q, e)
<1> DEFINE l == Last(cs).length
<1>1. Len(cs) \in Nat /\ Len(cs) >= 1 /\ Last(cs) = cs[Len(cs)] /\ Len(cs) \in 1 .. Len(cs)
  BY Fronted
<1>2. Reachable(l, pi) /\ Laid(pi)
  BY <1>1 DEF Layered
<1>3. Drifts(pi, Last(cs)) = Drifts(pi, [length |-> l])
  BY DEF Drifts
<1> HIDE DEF l
<1>4. /\ Laid(q)
      /\ Agree(pi) /\ ~(passes = Pass /\ Drifts(pi, [length |-> l])) => Agree(q)
      /\ \A x : Reachable(x, pi) /\ (\A pass \in Pass : x[pass] <= l[pass]) => Reachable(x, q)
  BY <1>2, CutLayers DEF l
<1>5. ~e => Agree(q)
  BY <1>3, <1>4 DEF Layered
<1>6. ASSUME NEW k \in 1 .. Len(cs) PROVE Reachable(cs[k].length, q)
  <2>1. Reachable(cs[k].length, pi)
    BY DEF Layered
  <2>2. k \in 1 .. Len(cs) /\ \A pass \in Pass : cs[k].length[pass] <= l[pass]
    BY <1>1 DEF Layered, l
  <2> QED
    BY <1>4, <2>1, <2>2
<1> QED
  BY <1>4, <1>5, <1>6 DEF Layered

---------------------------------------------------------------------------
(* What packet.c does, in these terms.                                     *)

LEMMA AddLayerGrown ==
  ASSUME NEW pi, NEW r, Info(r), r.layers = pi.layers, r.curr_layer_num = pi.curr_layer_num,
         NEW proto \in Protos
  PROVE  Grown(AddLayer(r, proto), pi)
<1> DEFINE l == [pass \in Pass |-> Append(r.layers[pass], proto)]
           n == [pass \in Pass |-> (r.curr_layer_num[pass] + 1) % LayerMod]
<1>1. AddLayer(r, proto) = [r EXCEPT !.layers = l, !.curr_layer_num = n]
  BY DEF AddLayer
<1>2. /\ l = [pass \in Pass |-> Append(pi.layers[pass], proto)]
      /\ n = [pass \in Pass |-> (pi.curr_layer_num[pass] + 1) % LayerMod]
  OBVIOUS
<1> HIDE DEF l, n
<1>3. AddLayer(r, proto).layers = l /\ AddLayer(r, proto).curr_layer_num = n
  BY <1>1 DEF Info
<1> QED
  BY <1>2, <1>3 DEF Grown

LEMMA WorkInfoGrown ==
  ASSUME NEW pi, NEW r, Info(r), r.layers = pi.layers, r.curr_layer_num = pi.curr_layer_num,
         NEW proto \in Protos \cup {NoProto}, NEW add
  PROVE  Grown(WorkInfo(r, proto, add), pi)
<1> DEFINE q == [r EXCEPT !.can_desegment = Lower(@),
                          !.current_proto = IF proto = NoProto THEN @ ELSE proto,
                          !.writable = @ /\ ~r.in_error_pkt]
<1>1. Lower(r.can_desegment) \in 0 .. 2 /\ (r.writable /\ ~r.in_error_pkt) \in BOOLEAN
  BY LowerIn DEF Info
<1>2. Info(q) /\ q.layers = pi.layers /\ q.curr_layer_num = pi.curr_layer_num
  BY <1>1 DEF Info
<1>3. WorkInfo(r, proto, add) = IF add /\ proto # NoProto THEN AddLayer(q, proto) ELSE q
  BY DEF WorkInfo
<1> HIDE DEF q
<1>4. proto # NoProto => proto \in Protos
  OBVIOUS
<1>5. CASE add /\ proto # NoProto
  BY <1>2, <1>3, <1>4, <1>5, AddLayerGrown
<1>6. CASE ~(add /\ proto # NoProto)
  BY <1>2, <1>3, <1>6 DEF Grown
<1> QED
  BY <1>5, <1>6

LEMMA HeuristicInfoGrown ==
  ASSUME NEW pi, Info(pi), NEW c, c.proto \in Protos, c.saved.can_desegment \in 0 .. 2
  PROVE  Grown(HeuristicInfo(pi, c), pi)
<1> DEFINE q == [pi EXCEPT !.can_desegment = Lower(c.saved.can_desegment),
                           !.current_proto = c.proto, !.in_list = TRUE]
<1>1. Lower(c.saved.can_desegment) \in 0 .. 2
  BY LowerIn
<1>2. Info(q) /\ q.layers = pi.layers /\ q.curr_layer_num = pi.curr_layer_num
  BY <1>1 DEF Info
<1>3. HeuristicInfo(pi, c) = AddLayer(q, c.proto)
  BY DEF HeuristicInfo
<1> HIDE DEF q
<1> QED
  BY <1>2, <1>3, AddLayerGrown

(* q has the layers and the number of r. *)
SameLayers(q, r) == q.layers = r.layers /\ q.curr_layer_num = r.curr_layer_num

LEMMA RemovedCut ==
  ASSUME NEW pi, NEW r, Info(r), SameLayers(r, pi), NEW length, NEW passes \in Cuts,
         NEW rejected, passes # {} => (rejected <=> passes = Pass),
         NEW q, SameLayers(q, RemoveLayers(r, length, passes, rejected))
  PROVE  CutFrom(q, pi, length, passes)
<1> DEFINE l == [pass \in Pass |-> IF pass \in passes THEN SubSeq(r.layers[pass], 1, length[pass])
                                   ELSE r.layers[pass]]
           n == [pass \in Pass |->
                  IF pass \in passes /\ rejected
                  THEN (r.curr_layer_num[pass] - (Len(r.layers[pass]) - length[pass])) % LayerMod
                  ELSE r.curr_layer_num[pass]]
<1>1. RemoveLayers(r, length, passes, rejected) = [r EXCEPT !.layers = l, !.curr_layer_num = n]
  BY DEF RemoveLayers
<1>2. \A pass \in Pass : pass \in passes /\ rejected <=> passes = Pass
  BY Passes DEF Cuts
<1>3. /\ l = [pass \in Pass |-> IF pass \in passes THEN SubSeq(pi.layers[pass], 1, length[pass])
                                ELSE pi.layers[pass]]
      /\ n = [pass \in Pass |->
                IF passes = Pass
                THEN (pi.curr_layer_num[pass] - (Len(pi.layers[pass]) - length[pass])) % LayerMod
                ELSE pi.curr_layer_num[pass]]
  BY <1>2 DEF SameLayers
<1> HIDE DEF l, n
<1>4. q.layers = l /\ q.curr_layer_num = n
  BY <1>1 DEF Info, SameLayers
<1> QED
  BY <1>3, <1>4 DEF CutFrom

(* After a return: from both passes only when the layers are the call's.   *)
LEMMA UnlayeredCut ==
  ASSUME NEW cs, IsSeq(cs), cs # <<>>, NEW pi, NEW d, Layered(cs, pi, d), NEW r, Info(r),
         SameLayers(r, pi), NEW len, NEW q,
         SameLayers(q, RemoveLayers(r, Last(cs).length, Unlayered(Last(cs), len), len = 0)),
         NEW e, ~e => ~d /\ ~(len = 0 /\ Last(cs).layer /\ Drifts(pi, Last(cs)))
  PROVE  Layered(cs, q, e)
<1> DEFINE c == Last(cs)
           u == Unlayered(c, len)
           rejected == len = 0
<1>1. /\ u \in Cuts /\ (u # {} => (rejected <=> u = Pass)) /\ (u = Pass => len = 0 /\ c.layer)
  BY Passes DEF Unlayered, Cuts
<1>2. SameLayers(q, RemoveLayers(r, c.length, u, rejected))
  OBVIOUS
<1>3. ~e => ~d /\ ~(u = Pass /\ Drifts(pi, c))
  BY <1>1
<1> HIDE DEF u, rejected
<1>4. CutFrom(q, pi, c.length, u)
  BY <1>1, <1>2, RemovedCut
<1> QED
  BY <1>1, <1>3, <1>4, LayeredCut

LEMMA WorkDoneLayered ==
  ASSUME NEW cs, IsSeq(cs), cs # <<>>, NEW pi, NEW d, Layered(cs, pi, d), Info(pi),
         CallOK(Last(cs)), NEW len,
         NEW e, ~e => ~d /\ ~(len = 0 /\ Last(cs).layer /\ Drifts(pi, Last(cs)))
  PROVE  Layered(cs, WorkDone(pi, Last(cs), len), e)
<1> DEFINE c == Last(cs)
           shown == [pi EXCEPT !.writable = IF c.error THEN c.saved.writable ELSE @]
           cut == RemoveLayers(shown, c.length, Unlayered(c, len), len = 0)
           q == WorkDone(pi, c, len)
<1>1. c.saved \in SavedFields
  BY DEF CallOK
<1>2. Info(shown) /\ SameLayers(shown, pi)
  BY <1>1 DEF Info, SavedFields, SameLayers
<1>3. Alike(cut, shown)
  <2> HIDE DEF shown
  <2> QED
    BY <1>2, RemoveLayersFields
<1>4. q = [cut EXCEPT !.current_proto = c.saved.current_proto,
                      !.can_desegment = c.saved.can_desegment,
                      !.match_uint = IF c.uint # 0 THEN c.saved.match_uint ELSE @]
  BY DEF WorkDone
<1>5. SameLayers(q, cut)
  <2> HIDE DEF cut, q
  <2> QED
    BY <1>3, <1>4 DEF Alike, Info, SameLayers
<1> HIDE DEF shown, q
<1> QED
  BY <1>2, <1>5, UnlayeredCut DEF q

LEMMA ListDoneSame ==
  ASSUME NEW pi, Info(pi), NEW c
  PROVE  SameLayers(ListDone(pi, c), pi)
BY DEF Info, ListDone, SameLayers

LEMMA LayeredSame ==
  ASSUME NEW cs, NEW pi, NEW d, Layered(cs, pi, d), NEW q, SameLayers(q, pi)
  PROVE  Layered(cs, q, d)
BY LayeredGrown DEF SameLayers, Grown

LEMMA LayeredWeaker ==
  ASSUME NEW cs, NEW pi, NEW d, Layered(cs, pi, d), NEW e, d => e
  PROVE  Layered(cs, pi, e)
BY DEF Layered

---------------------------------------------------------------------------
(* One lemma for each of the code's steps that touch the stack.            *)

LEMMA HandleLayered ==
  ASSUME calls # <<>>, IInv, Layered(calls, pinfo, drifted), NEW len, HandleReturns(len)
  PROVE  Layered(calls', pinfo', drifted')
<1> DEFINE c == Last(calls)
           below == Front(calls)
           left == WorkDone(pinfo, c, len)
           mid == drifted \/ (len = 0 /\ c.layer /\ Drifts(pinfo, c))
           b == Last(below)
           direct == below # <<>> /\ b.rejected
           cd == WorkCall(left, data, TRUE)
           cut == RemoveLayers(left, b.length, Pass, TRUE)
<1>1. IsSeq(calls) /\ Info(pinfo) /\ CallOK(c) /\ IsSeq(below)
  <2>1. IsSeq(calls) /\ Info(pinfo) /\ Good(calls, pinfo, torn)
    BY DEF IInv, Stack, Good, Fits
  <2> QED
    BY <2>1, Innermost, Fronted
<1>2. /\ \/ calls' = Append(below, cd) /\ pinfo' = WorkInfo(left, data, TRUE)
         \/ direct /\ calls' = Front(below) /\ pinfo' = ListDone(cut, b)
         \/ calls' = below /\ pinfo' = left
      /\ drifted' = (drifted \/ (len = 0 /\ c.layer /\ Drifts(pinfo, c))
                             \/ (direct /\ Drifts(left, b)))
  BY DEF HandleReturns, DirectDone, Top
<1>3. Layered(calls, left, mid)
  <2>1. ~mid => ~drifted /\ ~(len = 0 /\ c.layer /\ Drifts(pinfo, c))
    OBVIOUS
  <2> HIDE DEF mid
  <2> QED
    BY <1>1, <2>1, WorkDoneLayered
<1>4. Layered(below, left, mid)
  BY <1>1, <1>3, LayeredPopped
<1>5. Info(left)
  BY <1>1, WorkDoneFields
<1>6. mid => drifted'
  BY <1>2
<1> HIDE DEF left, mid, below
<1>7. CASE calls' = Append(below, cd) /\ pinfo' = WorkInfo(left, data, TRUE)
  <2>1. Grown(WorkInfo(left, data, TRUE), left)
    BY <1>5, DataIn, WorkInfoGrown
  <2>2. cd.length = Count(left)
    BY DEF WorkCall, Call
  <2> DEFINE y == WorkInfo(left, data, TRUE)
  <2>3. calls' = Append(below, cd) /\ pinfo' = y /\ Grown(y, left)
    BY <1>7, <2>1
  <2> HIDE DEF cd, y
  <2>4. Layered(Append(below, cd), y, mid)
    BY <1>1, <1>4, <2>2, <2>3, LayeredPushed
  <2> QED
    BY <1>6, <2>3, <2>4, LayeredWeaker
<1>8. CASE direct /\ calls' = Front(below) /\ pinfo' = ListDone(cut, b)
  <2>1. SameLayers(left, left) /\ SameLayers(cut, cut)
    BY DEF SameLayers
  <2>2. Pass \in Cuts /\ CutFrom(cut, left, b.length, Pass)
    <3>1. Pass \in Cuts /\ (Pass # {} => (TRUE <=> Pass = Pass))
      BY DEF Cuts
    <3> QED
      BY <1>5, <2>1, <3>1, RemovedCut
  <2>3. Info(cut)
    BY <1>5, RemoveLayersFields DEF Alike
  <2>4. SameLayers(ListDone(cut, b), cut)
    BY <2>3, ListDoneSame
  <2> HIDE DEF cut
  <2>5. ~drifted' => ~mid /\ ~(Pass = Pass /\ Drifts(left, b))
    BY <1>2, <1>6, <1>8
  <2> HIDE DEF b
  <2>6. Layered(below, cut, drifted')
    BY <1>1, <1>4, <1>8, <2>2, <2>5, LayeredCut DEF b
  <2>7. Layered(Front(below), cut, drifted')
    BY <1>1, <1>8, <2>6, LayeredPopped
  <2> QED
    BY <1>8, <2>4, <2>7, LayeredSame
<1>9. CASE calls' = below /\ pinfo' = left
  BY <1>4, <1>6, <1>9, LayeredWeaker
<1> QED
  BY <1>2, <1>7, <1>8, <1>9

LEMMA HeuristicLayered ==
  ASSUME calls # <<>>, IInv, Layered(calls, pinfo, drifted), NEW len, HeuristicReturns(len)
  PROVE  Layered(calls', pinfo', drifted')
<1> DEFINE c == Last(calls)
           left == RemoveLayers(pinfo, c.length, Unlayered(c, len), len = 0)
           turn(k) == [c EXCEPT !.proto = Heuristics[k], !.entry = k,
                                !.lowered = FALSE, !.offers = FALSE]
<1>1. IsSeq(calls) /\ Info(pinfo) /\ CallOK(c)
  <2>1. IsSeq(calls) /\ Info(pinfo) /\ Good(calls, pinfo, torn)
    BY DEF IInv, Stack, Good, Fits
  <2> QED
    BY <2>1, Innermost
<1>2. /\ \/ calls' = Front(calls) /\ pinfo' = ListDone(left, c)
         \/ \E k \in DOMAIN Heuristics : /\ calls' = Append(Front(calls), turn(k))
                                         /\ pinfo' = HeuristicInfo(left, turn(k))
      /\ drifted' = (drifted \/ (len = 0 /\ Drifts(pinfo, c)))
  BY DEF HeuristicReturns, Top
<1>3. Layered(calls, left, drifted')
  <2>1. SameLayers(pinfo, pinfo) /\ SameLayers(left, left)
    BY DEF SameLayers
  <2>2. ~drifted' => ~drifted /\ ~(len = 0 /\ c.layer /\ Drifts(pinfo, c))
    BY <1>2
  <2> QED
    BY <1>1, <2>1, <2>2, UnlayeredCut
<1>4. Info(left)
  BY <1>1, RemoveLayersFields DEF Alike
<1> HIDE DEF left
<1>5. CASE calls' = Front(calls) /\ pinfo' = ListDone(left, c)
  <2>1. SameLayers(ListDone(left, c), left)
    BY <1>4, ListDoneSame
  <2>2. Layered(Front(calls), left, drifted')
    BY <1>1, <1>3, LayeredPopped
  <2> QED
    BY <1>5, <2>1, <2>2, LayeredSame
<1>6. ASSUME NEW k \in DOMAIN Heuristics, calls' = Append(Front(calls), turn(k)),
             pinfo' = HeuristicInfo(left, turn(k))
      PROVE  Layered(calls', pinfo', drifted')
  <2>1. PICK t : t = turn(k)
    OBVIOUS
  <2>2. /\ t.length = c.length /\ t.proto = Heuristics[k] /\ t.saved = c.saved
        /\ c.saved \in SavedFields
    BY <1>1, <2>1 DEF CallOK
  <2>3. t.proto \in Protos /\ t.saved.can_desegment \in 0 .. 2
    BY <2>2, PacketAssumption DEF SavedFields
  <2>4. Grown(HeuristicInfo(left, t), left)
    BY <1>4, <2>3, HeuristicInfoGrown
  <2>5. Layered(Append(Front(calls), t), left, drifted')
    BY <1>1, <1>3, <2>2, LayeredReplaced
  <2>6. Layered(Append(Front(calls), t), HeuristicInfo(left, t), drifted')
    BY <2>4, <2>5, LayeredGrown
  <2> QED
    BY <1>6, <2>1, <2>6
<1> QED
  BY <1>2, <1>5, <1>6

LEMMA DirectLayered ==
  ASSUME calls # <<>>, IInv, Layered(calls, pinfo, drifted), NEW len, DirectReturns(len)
  PROVE  Layered(calls', pinfo', drifted')
<1> DEFINE cd == WorkCall(pinfo, data, TRUE)
           r == [Last(calls) EXCEPT !.rejected = TRUE]
           ds == Append(Front(calls), r)
<1>1. IsSeq(calls) /\ Info(pinfo) /\ CallOK(Last(calls)) /\ IsSeq(ds)
  <2>1. IsSeq(calls) /\ Info(pinfo) /\ Good(calls, pinfo, torn)
    BY DEF IInv, Stack, Good, Fits
  <2> QED
    BY <2>1, Innermost, Fronted, Appended
<1>2. /\ \/ calls' = Append(ds, cd) /\ pinfo' = WorkInfo(pinfo, data, TRUE)
         \/ calls' = Front(calls) /\ pinfo' = ListDone(pinfo, Last(calls))
      /\ drifted' = drifted
  BY DEF DirectReturns, Top
<1>3. CASE calls' = Append(ds, cd) /\ pinfo' = WorkInfo(pinfo, data, TRUE)
  <2>1. r.length = Last(calls).length
    BY <1>1 DEF CallOK
  <2> HIDE DEF r
  <2>2. Layered(ds, pinfo, drifted)
    BY <1>1, <2>1, LayeredReplaced
  <2>3. Grown(WorkInfo(pinfo, data, TRUE), pinfo)
    BY <1>1, DataIn, WorkInfoGrown
  <2>4. cd.length = Count(pinfo)
    BY DEF WorkCall, Call
  <2> HIDE DEF ds, cd
  <2>5. Layered(Append(ds, cd), WorkInfo(pinfo, data, TRUE), drifted)
    BY <1>1, <2>2, <2>3, <2>4, LayeredPushed
  <2> QED
    BY <1>2, <1>3, <2>5
<1>4. CASE calls' = Front(calls) /\ pinfo' = ListDone(pinfo, Last(calls))
  BY <1>1, <1>2, <1>4, ListDoneSame, LayeredPopped, LayeredSame
<1> QED
  BY <1>2, <1>3, <1>4

LEMMA CallDissectorLayered ==
  ASSUME IInv, Layered(calls, pinfo, drifted), NEW proto \in Protos \cup {NoProto},
         CallDissector(proto)
  PROVE  Layered(calls', pinfo', drifted')
<1> DEFINE enabled == proto \notin Disabled
           p == IF enabled THEN proto ELSE data
           c == [WorkCall(pinfo, p, TRUE) EXCEPT !.fallback = enabled]
<1>1. calls' = Append(calls, c) /\ pinfo' = WorkInfo(pinfo, p, TRUE) /\ drifted' = drifted
  BY DEF CallDissector, Push
<1>2. p \in Protos \cup {NoProto} /\ Info(pinfo) /\ IsSeq(calls)
  BY DataIn DEF IInv, Stack
<1>3. c.length = Count(pinfo)
  BY DEF WorkCall, Call
<1> HIDE DEF c, p
<1>4. Grown(WorkInfo(pinfo, p, TRUE), pinfo)
  BY <1>2, WorkInfoGrown
<1> QED
  BY <1>1, <1>2, <1>3, <1>4, LayeredPushed

LEMMA TryUintLayered ==
  ASSUME IInv, Layered(calls, pinfo, drifted), NEW u \in DOMAIN Table, NEW add, TryUint(u, add)
  PROVE  Layered(calls', pinfo', drifted')
<1> DEFINE p == Table[u]
           x == [pinfo EXCEPT !.match_uint = u]
           c == [WorkCall(pinfo, p, add) EXCEPT !.uint = u]
<1>1. calls' = Append(calls, c) /\ pinfo' = WorkInfo(x, p, add) /\ drifted' = drifted
  BY DEF TryUint, Push
<1>2. p \in Protos \cup {NoProto} /\ IsSeq(calls)
  BY PacketAssumption DEF IInv, Stack
<1>3. Info(x) /\ x.layers = pinfo.layers /\ x.curr_layer_num = pinfo.curr_layer_num
  BY DEF IInv, Info, Numbers
<1>4. c.length = Count(pinfo)
  BY DEF WorkCall, Call
<1> HIDE DEF c, p, x
<1>5. Grown(WorkInfo(x, p, add), pinfo)
  BY <1>2, <1>3, WorkInfoGrown
<1> QED
  BY <1>1, <1>2, <1>4, <1>5, LayeredPushed

LEMMA TryHeuristicLayered ==
  ASSUME IInv, Layered(calls, pinfo, drifted), TryHeuristic
  PROVE  Layered(calls', pinfo', drifted')
<1> DEFINE b(k) == Call("heuristic", Heuristics[k], TRUE, Count(pinfo), pinfo)
<1>1. PICK k \in DOMAIN Heuristics :
        /\ calls' = Append(calls, [b(k) EXCEPT !.entry = k])
        /\ pinfo' = HeuristicInfo(pinfo, [b(k) EXCEPT !.entry = k])
        /\ drifted' = drifted
  BY DEF TryHeuristic, Push
<1>2. Info(pinfo) /\ IsSeq(calls) /\ Heuristics[k] \in Protos
  BY PacketAssumption DEF IInv, Stack
<1>3. PICK c : c = [b(k) EXCEPT !.entry = k]
  OBVIOUS
<1>4. c.length = Count(pinfo) /\ c.proto = Heuristics[k] /\ c.saved = Saved(pinfo)
  BY <1>3 DEF Call
<1>5. c.saved.can_desegment \in 0 .. 2
  BY <1>2, <1>4 DEF Saved, Info
<1>6. Grown(HeuristicInfo(pinfo, c), pinfo)
  BY <1>2, <1>4, <1>5, HeuristicInfoGrown
<1>7. calls' = Append(calls, c) /\ pinfo' = HeuristicInfo(pinfo, c)
  BY <1>1, <1>3
<1> QED
  BY <1>1, <1>2, <1>4, <1>6, <1>7, LayeredPushed

LEMMA CallHeurDirectLayered ==
  ASSUME calls # <<>>, IInv, Layered(calls, pinfo, drifted), NEW proto \in Protos,
         CallHeurDirect(proto)
  PROVE  Layered(calls', pinfo', drifted')
<1> DEFINE low == [pinfo EXCEPT !.can_desegment = Lower(@)]
           c == Call("direct", proto, TRUE, Count(pinfo), pinfo)
           q == [low EXCEPT !.current_proto = proto, !.in_list = TRUE]
           r == [Last(calls) EXCEPT !.lowered = TRUE]
           ds == Append(Front(calls), r)
           cd == WorkCall(low, data, TRUE)
<1>1. /\ \/ calls' = Append(calls, c) /\ pinfo' = AddLayer(q, proto)
         \/ calls' = Append(ds, cd) /\ pinfo' = WorkInfo(low, data, TRUE)
      /\ drifted' = drifted
  BY DEF CallHeurDirect, Push, Top
<1>2. IsSeq(calls) /\ Info(pinfo) /\ CallOK(Last(calls)) /\ IsSeq(ds)
  <2>1. IsSeq(calls) /\ Info(pinfo) /\ Good(calls, pinfo, torn)
    BY DEF IInv, Stack, Good, Fits
  <2> QED
    BY <2>1, Innermost, Fronted, Appended
<1>3. Info(low) /\ low.layers = pinfo.layers /\ low.curr_layer_num = pinfo.curr_layer_num
  <2>1. Lower(pinfo.can_desegment) \in 0 .. 2
    BY <1>2, LowerIn DEF Info
  <2> QED
    BY <1>2, <2>1 DEF Info
<1> HIDE DEF low
<1>4. Info(q) /\ q.layers = pinfo.layers /\ q.curr_layer_num = pinfo.curr_layer_num
  BY <1>3 DEF Info
<1> HIDE DEF q
<1>5. CASE calls' = Append(calls, c) /\ pinfo' = AddLayer(q, proto)
  <2>1. c.length = Count(pinfo)
    BY DEF WorkCall, Call
  <2> HIDE DEF c
  <2>2. Grown(AddLayer(q, proto), pinfo)
    BY <1>4, AddLayerGrown
  <2> QED
    BY <1>1, <1>2, <1>5, <2>1, <2>2, LayeredPushed
<1>6. CASE calls' = Append(ds, cd) /\ pinfo' = WorkInfo(low, data, TRUE)
  <2>1. r.length = Last(calls).length
    BY <1>2 DEF CallOK
  <2> HIDE DEF r
  <2>2. Layered(ds, pinfo, drifted)
    BY <1>2, <2>1, LayeredReplaced
  <2>3. SameLayers(low, pinfo)
    BY <1>3 DEF SameLayers
  <2>4. Layered(ds, low, drifted)
    BY <2>2, <2>3, LayeredSame
  <2>5. Grown(WorkInfo(low, data, TRUE), low)
    BY <1>3, DataIn, WorkInfoGrown
  <2>6. cd.length = Count(low)
    BY DEF WorkCall, Call
  <2> HIDE DEF ds, cd
  <2> QED
    BY <1>1, <1>2, <1>6, <2>4, <2>5, <2>6, LayeredPushed
<1> QED
  BY <1>1, <1>5, <1>6

LEMMA NewInfoLayered == Info(NewInfo) /\ Layered(<<>>, NewInfo, FALSE)
<1> DEFINE none == [pass \in Pass |-> <<>>]
           zero == [pass \in Pass |-> 0]
<1>1. NewInfo = [current_proto |-> NoProto, can_desegment |-> 0, match_uint |-> 0,
                 in_list |-> FALSE, writable |-> TRUE, in_error_pkt |-> FALSE,
                 layers |-> none, curr_layer_num |-> zero]
  BY DEF NewInfo
<1>2. none["tree"] = <<>> /\ none["bare"] = <<>> /\ zero["tree"] = 0 /\ zero["bare"] = 0
  BY Passes
<1>3. \A pass \in Pass : none[pass] = <<>>
  OBVIOUS
<1>4. none = [pass \in Pass |-> none[pass]] /\ zero = [pass \in Pass |-> zero[pass]]
  OBVIOUS
<1> HIDE DEF none, zero
<1>5. NewInfo.layers = none /\ NewInfo.curr_layer_num = zero
  BY <1>1
<1>6. Info(NewInfo)
  BY <1>1 DEF Info, Numbers
<1>7. 0 % LayerMod = 0
  <2>1. LayerMod * 0 + 0 = 0 /\ 0 \in 0 .. LayerMod - 1 /\ LayerMod \in Nat \ {0} /\ 0 \in Int
    BY PacketAssumption
  <2>2. (LayerMod * 0 + 0) % LayerMod = 0
    BY <2>1, Remainder
  <2> QED
    BY <2>1, <2>2
<1>8. Embeds(<<>>, 0, <<>>, 0)
  <2> DEFINE at == [k \in 1 .. 0 |-> k]
  <2>1. at \in [1 .. 0 -> 1 .. 0] /\ \A k \in 1 .. 0 : FALSE
    OBVIOUS
  <2> HIDE DEF at
  <2>2. InOrder(<<>>, 0, <<>>, 0, at)
    BY <2>1 DEF InOrder
  <2> QED
    BY <2>1, <2>2 DEF Embeds
<1>9. <<>> \in Seq(Protos) /\ Len(<<>>) = 0
  OBVIOUS
<1>10. Laid(NewInfo)
  <2>1. none["bare"] = <<>> /\ none["tree"] = <<>> /\ Len(none["bare"]) = 0 /\ Len(none["tree"]) = 0
    BY <1>2, <1>9
  <2>2. Embeds(none["tree"], Len(none["tree"]), none["bare"], Len(none["bare"]))
    BY <1>8, <2>1
  <2>3. zero["bare"] = Len(none["bare"]) % LayerMod /\ zero["tree"] \in Int
    BY <1>2, <1>7, <2>1
  <2>4. \A pass \in Pass : none[pass] \in Seq(Protos)
    BY <1>3, <1>9
  <2> QED
    BY <1>4, <1>5, <2>2, <2>3, <2>4 DEF Laid
<1>11. Agree(NewInfo)
  BY <1>2, <1>5 DEF Agree
<1> QED
  BY <1>6, <1>9, <1>10, <1>11 DEF Layered

LEMMA RecordLayered ==
  ASSUME DissectRecord
  PROVE  Layered(calls', pinfo', drifted')
<1> DEFINE c == [WorkCall(NewInfo, frame, TRUE) EXCEPT !.fallback = TRUE, !.count = 0]
           y == WorkInfo(NewInfo, frame, TRUE)
<1>1. calls' = Append(<<>>, c) /\ pinfo' = y /\ drifted' = FALSE
  BY DEF DissectRecord
<1>2. c.length = Count(NewInfo)
  BY DEF WorkCall, Call
<1>3. IsSeq(<<>>)
  BY DEF IsSeq
<1>4. Grown(y, NewInfo)
  BY NewInfoLayered, DataIn, WorkInfoGrown
<1> HIDE DEF c, y
<1>5. Layered(Append(<<>>, c), y, FALSE)
  BY <1>2, <1>3, <1>4, NewInfoLayered, LayeredPushed
<1> QED
  BY <1>1, <1>5

(* Neither a call nor a layer comes or goes. *)
LEMMA SteadyLayered ==
  ASSUME NEW cs, NEW pi, NEW d, Layered(cs, pi, d), NEW ds, Len(ds) = Len(cs),
         \A k \in 1 .. Len(cs) : ds[k].length = cs[k].length, NEW q, SameLayers(q, pi)
  PROVE  Layered(ds, q, d)
<1>1. Len(cs) \in Nat => \A k \in 1 .. Len(cs) : \A j \in 1 .. k : j \in 1 .. Len(cs)
  OBVIOUS
<1>2. Layered(cs, q, d)
  BY LayeredSame
<1> QED
  BY <1>2 DEF Layered

LEMMA StepLayered ==
  ASSUME IInv, Layered(calls, pinfo, drifted), [Next]_vars
  PROVE  Layered(calls', pinfo', drifted')
<1>1. Info(pinfo) /\ Stack(calls) /\ IsSeq(calls)
  BY DEF IInv, Stack
<1>2. CASE DissectRecord
  BY <1>2, RecordLayered
<1>3. ASSUME NEW proto \in Protos \cup {NoProto}, CallDissector(proto)
      PROVE  Layered(calls', pinfo', drifted')
  BY <1>3, CallDissectorLayered
<1>4. ASSUME NEW u \in DOMAIN Table, NEW add \in BOOLEAN, TryUint(u, add)
      PROVE  Layered(calls', pinfo', drifted')
  BY <1>4, TryUintLayered
<1>5. CASE TryHeuristic
  BY <1>5, TryHeuristicLayered
<1>6. ASSUME NEW proto \in ToSet(Heuristics), CallHeurDirect(proto)
      PROVE  Layered(calls', pinfo', drifted')
  <2>1. proto \in Protos /\ calls # <<>>
    BY <1>6, PacketAssumption DEF ToSet, CallHeurDirect, MayCall, Acts, Running
  <2> QED
    BY <1>6, <2>1, CallHeurDirectLayered
<1>7. CASE AddItem
  BY <1>7 DEF AddItem
<1>8. CASE OfferDesegment
  <2> DEFINE q == [pinfo EXCEPT !.can_desegment = 2]
             r == [Last(calls) EXCEPT !.offers = TRUE]
  <2>1. calls # <<>> /\ calls' = Append(Front(calls), r) /\ pinfo' = q /\ drifted' = drifted
    BY <1>8 DEF OfferDesegment, Top, Acts, Running
  <2>2. SameLayers(q, pinfo)
    BY <1>1 DEF Info, SameLayers
  <2>3. CallOK(Last(calls))
    BY <2>1, Innermost DEF IInv, Good, Fits
  <2>4. r.length = Last(calls).length
    BY <2>3 DEF CallOK
  <2> HIDE DEF q, r
  <2>5. Layered(Append(Front(calls), r), pinfo, drifted)
    BY <1>1, <2>1, <2>4, LayeredReplaced
  <2> QED
    BY <2>1, <2>2, <2>5, LayeredSame
<1>9. ASSUME NEW b \in BOOLEAN, SetInErrorPkt(b) PROVE Layered(calls', pinfo', drifted')
  <2>1. calls' = calls /\ drifted' = drifted /\ SameLayers(pinfo', pinfo)
    BY <1>1, <1>9 DEF SetInErrorPkt, Info, SameLayers
  <2> QED
    BY <2>1, LayeredSame
<1>10. ASSUME NEW len, HandleReturns(len) \/ HeuristicReturns(len) \/ DirectReturns(len),
              calls # <<>>
       PROVE  Layered(calls', pinfo', drifted')
  BY <1>10, HandleLayered, HeuristicLayered, DirectLayered
<1>11. ASSUME NEW len \in {0, 1}, Returns(len) \/ ErrorCaught(len)
       PROVE  Layered(calls', pinfo', drifted')
  BY <1>10, <1>11 DEF Returns, ErrorCaught, Running
<1>12. CASE Throw
  <2> DEFINE ds == [k \in DOMAIN calls |-> [calls[k] EXCEPT !.clean = FALSE]]
  <2>1. calls' = ds /\ SameLayers(pinfo', pinfo) /\ drifted' = drifted
    BY <1>12 DEF Throw, SameLayers
  <2>2. DOMAIN calls = 1 .. Len(calls) /\ Len(calls) \in Nat
    BY <1>1, Appended
  <2>3. \A k \in 1 .. Len(calls) : ds[k].length = calls[k].length
    BY <1>1, <2>2 DEF Stack, CallOK
  <2>4. Len(ds) = Len(calls)
    BY <2>2
  <2> HIDE DEF ds
  <2> QED
    BY <2>1, <2>3, <2>4, SteadyLayered
<1>13. CASE Unwind
  <2>1. calls # <<>> /\ calls' = Front(calls) /\ drifted' = drifted
    BY <1>13 DEF Unwind
  <2>2. SameLayers(pinfo', pinfo)
    BY <1>1, <1>13 DEF Unwind, ErrorInfo, Info, SameLayers
  <2>3. Layered(Front(calls), pinfo, drifted)
    BY <1>1, <2>1, LayeredPopped
  <2> QED
    BY <2>1, <2>2, <2>3, LayeredSame
<1>14. CASE DissectorCatches \/ RecordCatches \/ UNCHANGED vars
  BY <1>14 DEF DissectorCatches, RecordCatches, vars
<1> QED
  BY <1>2, <1>3, <1>4, <1>5, <1>6, <1>7, <1>8, <1>9, <1>11, <1>12, <1>13, <1>14 DEF Next

LEMMA LayeredCounted ==
  ASSUME Layered(calls, pinfo, drifted)
  PROVE  LayersCounted
<1> DEFINE tree == pinfo.layers["tree"]
           bare == pinfo.layers["bare"]
<1>1. /\ Embeds(tree, Len(tree), bare, Len(bare))
      /\ tree \in Seq(Protos) /\ bare \in Seq(Protos)
  BY Passes DEF Layered, Laid
<1>2. DOMAIN tree = 1 .. Len(tree) /\ DOMAIN bare = 1 .. Len(bare)
  BY <1>1
<1> HIDE DEF tree, bare
<1>3. PICK at \in [1 .. Len(tree) -> 1 .. Len(bare)] : InOrder(tree, Len(tree), bare, Len(bare), at)
  BY <1>1 DEF Embeds
<1>4. /\ at \in [DOMAIN tree -> DOMAIN bare]
      /\ \A k \in DOMAIN tree : tree[k] = bare[at[k]] /\ \A j \in 1 .. k - 1 : at[j] < at[k]
  BY <1>2, <1>3 DEF InOrder
<1> QED
  BY <1>4 DEF LayersCounted, Layered, Laid, Agree, tree, bare

(* The number of the current layer is, in its width, that of the layers    *)
(* there are, and the layers of a pass with a tree are some of those of    *)
(* one without, in order, however calls nest, reject, are tried in turn or *)
(* are left by exceptions; and the number is the same in both passes until *)
(* a rejection takes back more layers in one than in the other.            *)
THEOREM LayerNumbers == Spec => []LayersCounted
<1> DEFINE Inv == IInv /\ Layered(calls, pinfo, drifted)
<1>1. Init => Inv
  <2>1. Init => calls = <<>> /\ pinfo = NewInfo /\ drifted = FALSE
    BY DEF Init
  <2> QED
    BY <2>1, InitGood, NewInfoLayered
<1>2. Inv /\ [Next]_vars => Inv'
  BY StepKeeps, StepLayered
<1>3. Inv => LayersCounted
  BY LayeredCounted
<1> HIDE DEF Inv
<1> QED
  BY <1>1, <1>2, <1>3, PTL DEF Spec

-----------------------------------------------------------------------------
(***************************************************************************)
(* Tap.                                                                    *)
(***************************************************************************)

Packets == [name : Name, error : BOOLEAN, data : Nat]
Entries == [tap_id : Nat, error : BOOLEAN, data : Nat]
Answers == [data : Nat, failed : BOOLEAN]
Listeners ==
  [data : Tapdata, tap_id : Nat, needs_redraw : BOOLEAN, failed : BOOLEAN,
   code : Filter \cup {NoFilter}, name : Name, undrawn : BOOLEAN, got : Seq(Answers)]
Runs ==
  [at : {"none", "dissecting", "pushing", "done"}, with_taps : BOOLEAN,
   matching : SUBSET Filter, failed : SUBSET Nat, i : Nat, k : Nat]

Typed ==
  /\ tap_dissector_list \in Seq(Name)
  /\ tap_listener_queue \in Seq(Listeners)
  /\ tapping_is_active \in BOOLEAN
  /\ tap_packet_array \in Seq(Entries) /\ Len(tap_packet_array) <= QueueLen
  /\ run \in Runs
  /\ issued \in [Name -> Nat]
  /\ tapped \in Seq(Packets)

HasId(name, id) == id \in DOMAIN tap_dissector_list /\ tap_dissector_list[id] = name

(* A name has one id.                                                      *)
Ids ==
  /\ \A m, n \in DOMAIN tap_dissector_list : tap_dissector_list[m] = tap_dissector_list[n] => m = n
  /\ \A name \in Name : issued[name] # 0 => HasId(name, issued[name])

(* A listener is of a tap that exists, and its mark is right.              *)
Sound(l) == HasId(l.name, l.tap_id) /\ RedrawExact(l)

Numbered == \A d \in 1 .. Len(tapped) : tapped[d].data = d

KeptLen == IF Len(tapped) < QueueLen THEN Len(tapped) ELSE QueueLen

(* The queue holds the first packets tapped in this run.                   *)
Mirrors ==
  /\ Len(tap_packet_array) = KeptLen
  /\ \A d \in 1 .. KeptLen : /\ HasId(tapped[d].name, tap_packet_array[d].tap_id)
                             /\ tap_packet_array[d].error = tapped[d].error
                             /\ tap_packet_array[d].data = d

(* The d-th packet is for the listener l.                                  *)
Wanted(l, d) ==
  /\ run.with_taps /\ l.data \notin NoPacketRoutine
  /\ l.code # NoFilter => l.code \in run.matching
  /\ tapped[d].name = l.name
  /\ tapped[d].error => l.data \in WantsErrors

(* Of the first upto packets the listener l, which had not failed before,  *)
(* got what it wanted, up to the one it failed on.                         *)
Answered(l, upto) ==
  LET got == l.got
  IN  /\ \A n \in DOMAIN got : got[n].data \in 1 .. upto /\ Wanted(l, got[n].data)
      /\ \A m, n \in DOMAIN got : m < n => got[m].data < got[n].data
      /\ \A n \in DOMAIN got : got[n].failed = (l.failed /\ n = Len(got))
      /\ l.failed => got # <<>>
      /\ \A d \in 1 .. upto : Wanted(l, d) =>
            \/ \E n \in DOMAIN got : got[n].data = d
            \/ l.failed /\ d > got[Len(got)].data

Served(k, l, upto) ==
  IF k \in run.failed THEN l.got = <<>> /\ l.failed ELSE Answered(l, upto)

(* The packets that the k-th listener has been asked about.                *)
Upto(k) == IF run.at = "pushing" THEN IF k < run.k THEN run.i ELSE run.i - 1 ELSE KeptLen

Phase ==
  /\ run.at = "none" => run = NoRun
  /\ run.at \in {"none", "dissecting"} =>
        \A k \in Positions : tap_listener_queue[k].got = <<>>
  /\ run.at = "dissecting" =>
        /\ tapping_is_active = (run.with_taps /\ tap_listener_queue # <<>>)
        /\ tapping_is_active => Mirrors
        /\ run.failed = {k \in Positions : tap_listener_queue[k].failed}
  /\ run.at # "dissecting" => ~tapping_is_active
  /\ run.at = "pushing" => /\ run.with_taps /\ Mirrors
                           /\ run.i \in 1 .. Len(tap_packet_array)
                           /\ run.k \in 1 .. Len(tap_listener_queue)
  /\ run.at \in {"pushing", "done"} =>
        \A k \in Positions : Served(k, tap_listener_queue[k], Upto(k))

TapIInv ==
  /\ Typed /\ Ids /\ Numbered
  /\ \A k \in Positions : Sound(tap_listener_queue[k])
  /\ Phase

---------------------------------------------------------------------------
(***************************************************************************)
(* Sequences and positions.                                                *)
(***************************************************************************)

(* A set of natural numbers has a least member.                            *)
LEMMA Least ==
  ASSUME NEW S \in SUBSET Nat, S # {}
  PROVE  \E n \in S : \A m \in S : n <= m
<1>1. IsWellFoundedOn(OpToRel(<, Nat), Nat)
  BY NatLessThanWellFounded
<1>2. PICK n \in S : \A m \in S : <<m, n>> \notin OpToRel(<, Nat)
  BY <1>1, WFMin
<1>3. ASSUME NEW m \in S PROVE n <= m
  <2>1. n \in Nat /\ m \in Nat
    OBVIOUS
  <2>2. <<m, n>> \notin OpToRel(<, Nat)
    BY <1>2
  <2>3. ~(m < n)
    BY <2>1, <2>2 DEF OpToRel
  <2> QED
    BY <2>1, <2>3
<1> QED
  BY <1>3

LEMMA Indices ==
  ASSUME NEW S, NEW s \in Seq(S)
  PROVE  Len(s) \in Nat /\ DOMAIN s = 1 .. Len(s) /\ \A k \in DOMAIN s : s[k] \in S
OBVIOUS

LEMMA Tapped ==
  ASSUME NEW S, NEW s \in Seq(S), NEW e \in S
  PROVE  /\ Append(s, e) \in Seq(S) /\ Len(Append(s, e)) = Len(s) + 1
         /\ Append(s, e)[Len(s) + 1] = e /\ Append(s, e) # <<>>
         /\ \A k \in 1 .. Len(s) : Append(s, e)[k] = s[k]
OBVIOUS

LEMMA Mapped ==
  ASSUME NEW S, NEW s \in Seq(S), NEW t, DOMAIN t = DOMAIN s,
         t = [k \in DOMAIN s |-> t[k]], \A k \in DOMAIN s : t[k] \in S
  PROVE  t \in Seq(S) /\ Len(t) = Len(s)
<1>1. DOMAIN s = 1 .. Len(s) /\ Len(s) \in Nat
  OBVIOUS
<1>2. t \in [1 .. Len(s) -> S]
  BY <1>1
<1> QED
  BY <1>1, <1>2

LEMMA Concatenated ==
  ASSUME NEW S, NEW s \in Seq(S), NEW t \in Seq(S)
  PROVE  s \o t \in Seq(S) /\ Len(s \o t) = Len(s) + Len(t)
OBVIOUS

LEMMA Removed ==
  ASSUME NEW S, NEW s \in Seq(S), NEW p \in DOMAIN s
  PROVE  /\ RemoveAt(s, p) \in Seq(S)
         /\ \A k \in DOMAIN RemoveAt(s, p) : \E j \in DOMAIN s : RemoveAt(s, p)[k] = s[j]
<1>1. Len(s) \in Nat /\ p \in 1 .. Len(s) /\ DOMAIN s = 1 .. Len(s)
  OBVIOUS
<1> DEFINE a == SubSeq(s, 1, p - 1)
           b == SubSeq(s, p + 1, Len(s))
<1>2. a \in Seq(S) /\ Len(a) = p - 1 /\ \A k \in 1 .. p - 1 : a[k] = s[k]
  BY <1>1
<1>3. b \in Seq(S) /\ Len(b) = Len(s) - p /\ \A k \in 1 .. Len(s) - p : b[k] = s[p + k]
  BY <1>1
<1>4. RemoveAt(s, p) = a \o b
  BY DEF RemoveAt
<1> HIDE DEF a, b
<1>5. a \o b \in Seq(S) /\ Len(a \o b) = Len(s) - 1
  <2>1. a \o b \in Seq(S) /\ Len(a \o b) = Len(a) + Len(b)
    BY <1>2, <1>3, Concatenated
  <2> QED
    BY <1>1, <1>2, <1>3, <2>1
<1>6. ASSUME NEW k \in DOMAIN (a \o b) PROVE \E j \in DOMAIN s : (a \o b)[k] = s[j]
  <2>1. k \in 1 .. Len(s) - 1
    BY <1>1, <1>5
  <2>2. CASE k <= p - 1
    <3>1. (a \o b)[k] = a[k]
      BY <1>1, <1>2, <1>3, <2>1, <2>2
    <3> QED
      BY <1>1, <1>2, <2>1, <2>2, <3>1
  <2>3. CASE k > p - 1
    <3>1. (a \o b)[k] = b[k - (p - 1)] /\ k - (p - 1) \in 1 .. Len(s) - p
      BY <1>1, <1>2, <1>3, <2>1, <2>3
    <3>2. b[k - (p - 1)] = s[k + 1] /\ k + 1 \in 1 .. Len(s)
      BY <1>1, <1>3, <2>1, <2>3, <3>1, SMTT(30)
    <3> QED
      BY <1>1, <3>1, <3>2
  <2> QED
    BY <1>1, <2>1, <2>2, <2>3
<1> QED
  BY <1>4, <1>5, <1>6

LEMMA Prepended ==
  ASSUME NEW S, NEW s \in Seq(S), NEW e \in S
  PROVE  /\ <<e>> \o s \in Seq(S)
         /\ \A k \in DOMAIN (<<e>> \o s) :
               (<<e>> \o s)[k] = e \/ \E j \in DOMAIN s : (<<e>> \o s)[k] = s[j]
<1>1. <<e>> \in Seq(S) /\ Len(<<e>>) = 1 /\ <<e>>[1] = e
  OBVIOUS
<1>2. <<e>> \o s \in Seq(S) /\ Len(<<e>> \o s) = 1 + Len(s) /\ Len(s) \in Nat
  BY <1>1
<1>3. ASSUME NEW k \in 1 .. 1 + Len(s), k # 1 PROVE (<<e>> \o s)[k] = s[k - 1] /\ k - 1 \in 1 .. Len(s)
  BY <1>1, <1>2, <1>3
<1>4. (<<e>> \o s)[1] = e
  BY <1>1, <1>2
<1> QED
  BY <1>2, <1>3, <1>4

LEMMA FirstWithType ==
  ASSUME Typed, NEW owner, FirstWith(owner) # 0
  PROVE  FirstWith(owner) \in Positions
<1> DEFINE with == {k \in Positions : tap_listener_queue[k].data = owner}
<1>1. with # {}
  BY DEF FirstWith
<1>2. with \in SUBSET Nat
  BY Indices DEF Typed, Positions
<1>3. FirstWith(owner) = CHOOSE k \in with : \A j \in with : k <= j
  BY <1>1 DEF FirstWith
<1>4. \E k \in with : \A j \in with : k <= j
  <2> HIDE DEF with
  <2> QED
    BY <1>1, <1>2, Least
<1>5. FirstWith(owner) \in with
  <2> HIDE DEF with
  <2> QED
    BY <1>3, <1>4
<1> QED
  BY <1>5

LEMMA FoundId ==
  ASSUME Typed, NEW name, FindTapId(name) # 0
  PROVE  HasId(name, FindTapId(name)) /\ FindTapId(name) \in Nat
<1>1. Contains(tap_dissector_list, name)
  BY DEF FindTapId
<1>2. \E id \in DOMAIN tap_dissector_list : tap_dissector_list[id] = name
  BY <1>1, Indices DEF Contains, Typed
<1> QED
  BY <1>1, <1>2, Indices DEF FindTapId, HasId, Typed

---------------------------------------------------------------------------
(***************************************************************************)
(* The calls between runs.                                                 *)
(***************************************************************************)

LEMMA Begins == TapInit => TapIInv
<1> SUFFICES ASSUME TapInit PROVE TapIInv
  OBVIOUS
<1> USE DEF TapInit
<1>1. NoRun \in Runs
  BY DEF NoRun, Runs
<1>2. Typed
  <2>1. issued \in [Name -> Nat]
    OBVIOUS
  <2>2. Len(tap_packet_array) <= QueueLen
    BY TapAssumption
  <2>3. tap_dissector_list \in Seq(Name) /\ tap_listener_queue \in Seq(Listeners)
    OBVIOUS
  <2>4. tap_packet_array \in Seq(Entries) /\ tapped \in Seq(Packets)
    OBVIOUS
  <2>5. run \in Runs /\ tapping_is_active \in BOOLEAN
    BY <1>1
  <2> QED
    BY <2>1, <2>2, <2>3, <2>4, <2>5 DEF Typed
<1>3. Ids /\ Numbered
  BY DEF Ids, Numbered
<1>4. Positions = {}
  BY DEF Positions
<1>5. Phase
  BY <1>4 DEF Phase, NoRun
<1> QED
  BY <1>2, <1>3, <1>4, <1>5 DEF TapIInv

(* Between runs the listeners may become any that are sound.               *)
LEMMA QueueChanged ==
  ASSUME TapIInv, Idle, OnlyListeners, tap_listener_queue' \in Seq(Listeners),
         \A k \in DOMAIN tap_listener_queue' :
            Sound(tap_listener_queue'[k]) /\ tap_listener_queue'[k].got = <<>>
  PROVE  TapIInv'
<1> USE DEF OnlyListeners
<1>1. Typed'
  BY DEF TapIInv, Typed
<1>2. Ids' /\ Numbered'
  BY DEF TapIInv, Ids, HasId, Numbered
<1>3. (\A k \in Positions : Sound(tap_listener_queue[k]))'
  BY DEF Sound, HasId, RedrawExact, Positions
<1>4. Phase'
  BY DEF TapIInv, Phase, Idle, NoRun, Positions
<1> QED
  BY <1>1, <1>2, <1>3, <1>4 DEF TapIInv

LEMMA IdleListeners ==
  ASSUME TapIInv, Idle
  PROVE  /\ Positions = 1 .. Len(tap_listener_queue) /\ Len(tap_listener_queue) \in Nat
         /\ \A k \in Positions : /\ tap_listener_queue[k] \in Listeners
                                 /\ Sound(tap_listener_queue[k])
                                 /\ tap_listener_queue[k].got = <<>>
<1>1. tap_listener_queue \in Seq(Listeners)
  BY DEF TapIInv, Typed
<1>2. /\ Positions = 1 .. Len(tap_listener_queue) /\ Len(tap_listener_queue) \in Nat
      /\ \A k \in Positions : tap_listener_queue[k] \in Listeners
  BY <1>1, Indices DEF Positions
<1> QED
  BY <1>2 DEF TapIInv, Phase, Idle, NoRun

(* A new name gets an id of its own.                                       *)
LEMMA RegisterTapKeeps ==
  ASSUME TapIInv, NEW name \in Name, RegisterTap(name)
  PROVE  TapIInv'
<1> DEFINE list == tap_dissector_list
<1>1. list \in Seq(Name) /\ Len(list) \in Nat /\ DOMAIN list = 1 .. Len(list)
  BY Indices DEF TapIInv, Typed
<1>2. /\ UNCHANGED <<tap_listener_queue, tapping_is_active, tap_packet_array, run, tapped>>
      /\ run = NoRun
  BY DEF RegisterTap, Idle
<1>3. /\ list' \in Seq(Name) /\ issued' \in [Name -> Nat] /\ Ids'
      /\ \A n \in Name : \A id : HasId(n, id) => HasId(n, id)'
  <2>1. CASE FindTapId(name) # 0
    <3>1. HasId(name, FindTapId(name)) /\ FindTapId(name) \in Nat
      BY <2>1, FoundId DEF TapIInv
    <3>2. list' = list /\ issued' = [issued EXCEPT ![name] = FindTapId(name)]
      BY <2>1 DEF RegisterTap
    <3> QED
      BY <1>1, <3>1, <3>2 DEF TapIInv, Typed, Ids, HasId
  <2>2. CASE FindTapId(name) = 0
    <3>1. list' = Append(list, name) /\ issued' = [issued EXCEPT ![name] = NewTapId]
      BY <2>2 DEF RegisterTap
    <3>2. NewTapId = Len(list) + 1
      BY <1>1 DEF NewTapId
    <3>3. /\ list' \in Seq(Name) /\ Len(list') = Len(list) + 1 /\ list'[Len(list) + 1] = name
          /\ DOMAIN list' = 1 .. Len(list) + 1
          /\ \A k \in 1 .. Len(list) : list'[k] = list[k]
      BY <1>1, <3>1, Tapped, Indices
    <3>4. \A k \in 1 .. Len(list) : list[k] # name
      <4> SUFFICES ASSUME NEW k \in 1 .. Len(list), list[k] = name PROVE FALSE
        OBVIOUS
      <4>1. Contains(list, name)
        BY <1>1 DEF Contains
      <4>2. (CHOOSE id \in DOMAIN list : list[id] = name) \in DOMAIN list
        BY <1>1
      <4> QED
        BY <1>1, <2>2, <4>1, <4>2 DEF FindTapId
    <3>5. \A n \in Name : \A id : HasId(n, id) => HasId(n, id)'
      BY <1>1, <3>3 DEF HasId
    <3>6. /\ issued' \in [Name -> Nat]
          /\ \A n \in Name : issued'[n] # 0 => HasId(n, issued[n])'
      <4>1. issued \in [Name -> Nat] /\ \A n \in Name : issued[n] # 0 => HasId(n, issued[n])
        BY DEF TapIInv, Typed, Ids
      <4>2. ASSUME NEW n \in Name PROVE issued'[n] # 0 => HasId(n, issued[n])'
        <5>1. CASE n = name
          BY <1>1, <3>1, <3>2, <3>3, <4>1, <5>1 DEF HasId
        <5>2. CASE n # name
          <6>1. issued'[n] = issued[n]
            BY <3>1, <4>1, <5>2
          <6>2. issued[n] # 0 => HasId(n, issued[n])
            BY <4>1
          <6> QED
            BY <1>1, <3>3, <6>1, <6>2 DEF HasId
        <5> QED
          BY <5>1, <5>2
      <4>3. issued' \in [Name -> Nat]
        BY <1>1, <3>1, <3>2, <4>1
      <4> QED
        BY <4>2, <4>3
    <3>7. \A m, n \in DOMAIN list' : list'[m] = list'[n] => m = n
      <4>1. \A m, n \in DOMAIN list : list[m] = list[n] => m = n
        BY DEF TapIInv, Ids
      <4> HIDE DEF list
      <4> QED
        BY <1>1, <3>3, <3>4, <4>1
    <3> QED
      BY <3>3, <3>5, <3>6, <3>7 DEF Ids
  <2> QED
    BY <2>1, <2>2
<1>4. Typed'
  BY <1>2, <1>3 DEF TapIInv, Typed
<1>5. (\A k \in Positions : Sound(tap_listener_queue[k]))'
  <2> SUFFICES ASSUME NEW k \in Positions PROVE Sound(tap_listener_queue[k])'
    BY <1>2 DEF Positions
  <2>1. Sound(tap_listener_queue[k]) /\ tap_listener_queue[k] \in Listeners
    BY Indices DEF TapIInv, Typed, Positions
  <2> QED
    BY <1>2, <1>3, <2>1 DEF Sound, RedrawExact, Listeners
<1>6. Numbered' /\ Phase'
  BY <1>2 DEF TapIInv, Numbered, Phase, NoRun, Positions
<1> QED
  BY <1>3, <1>4, <1>5, <1>6 DEF TapIInv

LEMMA RegisterTapListenerKeeps ==
  ASSUME TapIInv, NEW name \in Name, NEW owner \in Tapdata, RegisterTapListener(name, owner)
  PROVE  TapIInv'
<1> DEFINE l == Listener(owner, FindTapId(name), name)
<1>1. HasId(name, FindTapId(name)) /\ FindTapId(name) \in Nat
  BY FoundId DEF RegisterTapListener, TapIInv
<1>2. l \in Listeners /\ Sound(l) /\ l.got = <<>>
  BY <1>1 DEF Listener, Listeners, Sound, RedrawExact
<1>3. tap_listener_queue \in Seq(Listeners) /\ tap_listener_queue' = <<l>> \o tap_listener_queue
  BY DEF TapIInv, Typed, RegisterTapListener
<1> HIDE DEF l
<1>4. /\ tap_listener_queue' \in Seq(Listeners)
      /\ \A k \in DOMAIN tap_listener_queue' : \/ tap_listener_queue'[k] = l
            \/ \E j \in Positions : tap_listener_queue'[k] = tap_listener_queue[j]
  BY <1>2, <1>3, Prepended DEF Positions
<1>5. Idle /\ OnlyListeners
  BY DEF RegisterTapListener
<1>6. \A k \in DOMAIN tap_listener_queue' :
         Sound(tap_listener_queue'[k]) /\ tap_listener_queue'[k].got = <<>>
  BY <1>2, <1>4, <1>5, IdleListeners
<1> QED
  BY <1>4, <1>5, <1>6, QueueChanged

LEMMA RemoveTapListenerKeeps ==
  ASSUME TapIInv, NEW owner \in Tapdata, RemoveTapListener(owner)
  PROVE  TapIInv'
<1>1. Idle /\ OnlyListeners /\ FirstWith(owner) \in Positions
  BY FirstWithType DEF RemoveTapListener, TapIInv
<1>2. /\ tap_listener_queue \in Seq(Listeners)
      /\ tap_listener_queue' = RemoveAt(tap_listener_queue, FirstWith(owner))
  BY DEF TapIInv, Typed, RemoveTapListener
<1>3. /\ tap_listener_queue' \in Seq(Listeners)
      /\ \A k \in DOMAIN tap_listener_queue' :
            \E j \in Positions : tap_listener_queue'[k] = tap_listener_queue[j]
  BY <1>1, <1>2, Removed DEF Positions
<1>4. \A k \in DOMAIN tap_listener_queue' :
         Sound(tap_listener_queue'[k]) /\ tap_listener_queue'[k].got = <<>>
  BY <1>1, <1>3, IdleListeners
<1> QED
  BY <1>1, <1>3, <1>4, QueueChanged

LEMMA SetTapDfilterKeeps ==
  ASSUME TapIInv, NEW owner \in Tapdata, NEW filter \in Filter \cup {NoFilter},
         SetTapDfilter(owner, filter)
  PROVE  TapIInv'
<1> DEFINE p == FirstWith(owner)
           l == [tap_listener_queue[p] EXCEPT !.code = filter, !.needs_redraw = TRUE,
                                              !.undrawn = TRUE]
<1>1. Idle /\ OnlyListeners /\ p \in Positions
  BY FirstWithType DEF SetTapDfilter, TapIInv
<1>2. tap_listener_queue' = [tap_listener_queue EXCEPT ![p] = l]
  BY DEF SetTapDfilter
<1>3. l \in Listeners /\ Sound(l) /\ l.got = <<>>
  BY <1>1, IdleListeners DEF Listeners, Sound, RedrawExact
<1> HIDE DEF l, p
<1>4. tap_listener_queue \in Seq(Listeners)
  BY DEF TapIInv, Typed
<1>5. \A k \in Positions : tap_listener_queue'[k] = IF k = p THEN l ELSE tap_listener_queue[k]
  BY <1>2, <1>4 DEF Positions
<1>6. DOMAIN tap_listener_queue' = Positions /\ tap_listener_queue' \in Seq(Listeners)
  BY <1>1, <1>2, <1>3, <1>4 DEF Positions
<1>7. \A k \in DOMAIN tap_listener_queue' :
         Sound(tap_listener_queue'[k]) /\ tap_listener_queue'[k].got = <<>>
  BY <1>1, <1>3, <1>5, <1>6, IdleListeners
<1> QED
  BY <1>1, <1>6, <1>7, QueueChanged

LEMMA ResetTapListenersKeeps ==
  ASSUME TapIInv, ResetTapListeners
  PROVE  TapIInv'
<1> DEFINE reset(l) == [l EXCEPT !.needs_redraw = TRUE, !.failed = FALSE, !.undrawn = TRUE]
<1>1. Idle /\ OnlyListeners /\ tap_listener_queue' = [k \in Positions |-> reset(tap_listener_queue[k])]
  BY DEF ResetTapListeners, EachListener
<1>2. \A k \in Positions : /\ reset(tap_listener_queue[k]) \in Listeners
                           /\ Sound(reset(tap_listener_queue[k]))
                           /\ reset(tap_listener_queue[k]).got = <<>>
  BY <1>1, IdleListeners DEF Listeners, Sound, RedrawExact
<1> HIDE DEF reset
<1>3. tap_listener_queue' \in Seq(Listeners) /\ DOMAIN tap_listener_queue' = Positions
  BY <1>1, <1>2, IdleListeners, Mapped DEF TapIInv, Typed, Positions
<1> QED
  BY <1>1, <1>2, <1>3, QueueChanged

LEMMA DrawTapListenersKeeps ==
  ASSUME TapIInv, NEW draw_all \in BOOLEAN, DrawTapListeners(draw_all)
  PROVE  TapIInv'
<1> DEFINE drawn(l) == (l.needs_redraw \/ draw_all) /\ l.data \notin NoDrawRoutine
           draw(l) == [l EXCEPT !.needs_redraw = FALSE, !.undrawn = @ /\ ~drawn(l)]
<1>1. Idle /\ OnlyListeners /\ tap_listener_queue' = [k \in Positions |-> draw(tap_listener_queue[k])]
  BY DEF DrawTapListeners, EachListener
<1>2. ASSUME NEW k \in Positions
      PROVE  /\ draw(tap_listener_queue[k]) \in Listeners
             /\ Sound(draw(tap_listener_queue[k]))
             /\ draw(tap_listener_queue[k]).got = <<>>
  <2> DEFINE l == tap_listener_queue[k]
  <2>1. l \in Listeners /\ Sound(l) /\ l.got = <<>>
    BY <1>1, IdleListeners
  <2> HIDE DEF l
  <2>2. drawn(l) \in BOOLEAN
    OBVIOUS
  <2>3. (l.undrawn /\ ~drawn(l)) \in BOOLEAN
    OBVIOUS
  <2>4. draw(l) \in Listeners
    BY <2>1, <2>3 DEF Listeners
  <2>5. draw(l).data = l.data /\ draw(l).name = l.name /\ draw(l).tap_id = l.tap_id
    BY <2>1 DEF Listeners
  <2>6. draw(l).got = l.got /\ draw(l).needs_redraw = FALSE
    BY <2>1 DEF Listeners
  <2>7. draw(l).undrawn = (l.undrawn /\ ~drawn(l))
    BY <2>1 DEF Listeners
  <2>8. l.data \notin NoDrawRoutine => draw(l).undrawn = FALSE
    BY <2>1, <2>7 DEF Sound, RedrawExact, Listeners
  <2> HIDE DEF draw
  <2>9. Sound(draw(l))
    BY <2>1, <2>5, <2>6, <2>8 DEF Sound, RedrawExact
  <2> QED
    BY <2>1, <2>4, <2>6, <2>9 DEF l
<1> HIDE DEF draw
<1>3. tap_listener_queue' \in Seq(Listeners) /\ DOMAIN tap_listener_queue' = Positions
  BY <1>1, <1>2, IdleListeners, Mapped DEF TapIInv, Typed, Positions
<1> QED
  BY <1>1, <1>2, <1>3, QueueChanged

---------------------------------------------------------------------------
(***************************************************************************)
(* A run.                                                                  *)
(***************************************************************************)

LEMMA RunBeginKeeps ==
  ASSUME TapIInv, NEW with_taps \in BOOLEAN, NEW matching \in SUBSET Filter,
         RunBegin(with_taps, matching)
  PROVE  TapIInv'
<1>1. /\ Idle /\ tapped' = <<>>
      /\ UNCHANGED <<tap_dissector_list, tap_listener_queue, issued>>
      /\ run' = [NoRun EXCEPT !.at = "dissecting", !.with_taps = with_taps, !.matching = matching,
                              !.failed = {k \in Positions : tap_listener_queue[k].failed}]
  BY DEF RunBegin
<1>2. {k \in Positions : tap_listener_queue[k].failed} \in SUBSET Nat
  BY <1>1, IdleListeners
<1>3. run' \in Runs
  BY <1>1, <1>2 DEF Runs, NoRun
<1>4. ~tapping_is_active
  BY <1>1 DEF TapIInv, Phase, Idle, NoRun
<1>5. IF with_taps /\ tap_listener_queue # <<>>
      THEN tapping_is_active' = TRUE /\ tap_packet_array' = <<>>
      ELSE UNCHANGED <<tapping_is_active, tap_packet_array>>
  BY DEF RunBegin, TapQueueInit
<1>6. Len(<<>>) <= QueueLen /\ <<>> \in Seq(Entries) /\ tapped' \in Seq(Packets)
  BY <1>1, TapAssumption
<1>7. Typed'
  BY <1>1, <1>3, <1>5, <1>6 DEF TapIInv, Typed
<1>8. Ids' /\ (\A k \in Positions : Sound(tap_listener_queue[k]))'
  BY <1>1 DEF TapIInv, Ids, HasId, Sound, RedrawExact, Positions
<1>9. Numbered' /\ KeptLen' = 0
  BY <1>1, TapAssumption DEF Numbered, KeptLen
<1>10. Phase'
  <2>1. run'.at = "dissecting" /\ run'.with_taps = with_taps
    BY <1>1 DEF NoRun
  <2>2. run'.failed = {k \in Positions : tap_listener_queue[k].failed}
    BY <1>1 DEF NoRun
  <2>3. (\A k \in Positions : tap_listener_queue[k].got = <<>>)'
    BY <1>1, IdleListeners DEF Positions
  <2>4. tapping_is_active' = (with_taps /\ tap_listener_queue # <<>>)
    BY <1>4, <1>5 DEF TapIInv, Typed
  <2>5. tapping_is_active' => Mirrors'
    <3> SUFFICES ASSUME tapping_is_active' PROVE Mirrors'
      OBVIOUS
    <3>1. tap_packet_array' = <<>>
      BY <1>4, <1>5
    <3> QED
      BY <1>9, <3>1 DEF Mirrors
  <2> QED
    BY <1>1, <2>1, <2>2, <2>3, <2>4, <2>5 DEF Phase, Positions
<1> QED
  BY <1>7, <1>8, <1>9, <1>10 DEF TapIInv

LEMMA TapQueuePacketKeeps ==
  ASSUME TapIInv, NEW name \in Name, NEW error \in BOOLEAN, TapQueuePacket(name, error)
  PROVE  TapIInv'
<1> DEFINE owner == Len(tapped) + 1
           p == [name |-> name, error |-> error, data |-> owner]
           e == [tap_id |-> issued[name], error |-> error, data |-> owner]
<1>1. /\ run.at = "dissecting" /\ issued[name] # 0
      /\ UNCHANGED <<tap_dissector_list, tap_listener_queue, tapping_is_active, run, issued>>
  BY DEF TapQueuePacket
<1>2. /\ tapped' = Append(tapped, p)
      /\ tap_packet_array' = IF tapping_is_active /\ ~QueueFull
                             THEN Append(tap_packet_array, e) ELSE tap_packet_array
  BY DEF TapQueuePacket
<1>3. /\ tapped \in Seq(Packets) /\ Len(tapped) \in Nat
      /\ tap_packet_array \in Seq(Entries) /\ Len(tap_packet_array) \in Nat
      /\ Len(tap_packet_array) <= QueueLen /\ QueueLen \in Nat
  BY Indices, TapAssumption DEF TapIInv, Typed
<1>4. p \in Packets /\ e \in Entries /\ HasId(name, issued[name])
  BY <1>1, <1>3 DEF Packets, Entries, TapIInv, Typed, Ids
<1>5. /\ p.name = name /\ p.error = error /\ p.data = Len(tapped) + 1
      /\ e.tap_id = issued[name] /\ e.error = error /\ e.data = Len(tapped) + 1
  OBVIOUS
<1> HIDE DEF p, e
<1>6. /\ tapped' \in Seq(Packets) /\ Len(tapped') = Len(tapped) + 1
      /\ tapped'[Len(tapped) + 1] = p
      /\ \A k \in 1 .. Len(tapped) : tapped'[k] = tapped[k]
  BY <1>2, <1>3, <1>4, Tapped
<1>7. /\ tap_packet_array' \in Seq(Entries) /\ Len(tap_packet_array') <= QueueLen
      /\ tapping_is_active /\ Len(tap_packet_array) < QueueLen =>
            /\ Len(tap_packet_array') = Len(tap_packet_array) + 1
            /\ tap_packet_array'[Len(tap_packet_array) + 1] = e
            /\ \A k \in 1 .. Len(tap_packet_array) : tap_packet_array'[k] = tap_packet_array[k]
      /\ ~(tapping_is_active /\ Len(tap_packet_array) < QueueLen) =>
            tap_packet_array' = tap_packet_array
  <2>1. CASE tapping_is_active /\ Len(tap_packet_array) < QueueLen
    <3>1. tap_packet_array' = Append(tap_packet_array, e)
      BY <1>2, <1>3, <2>1 DEF QueueFull
    <3>2. /\ tap_packet_array' \in Seq(Entries)
          /\ Len(tap_packet_array') = Len(tap_packet_array) + 1
          /\ tap_packet_array'[Len(tap_packet_array) + 1] = e
          /\ \A k \in 1 .. Len(tap_packet_array) : tap_packet_array'[k] = tap_packet_array[k]
      BY <1>3, <1>4, <3>1, Tapped
    <3> QED
      BY <1>3, <2>1, <3>2
  <2>2. CASE ~(tapping_is_active /\ Len(tap_packet_array) < QueueLen)
    <3>1. tap_packet_array' = tap_packet_array
      BY <1>2, <1>3, <2>2 DEF QueueFull
    <3> QED
      BY <1>3, <2>2, <3>1
  <2> QED
    BY <2>1, <2>2
<1>8. Typed'
  BY <1>1, <1>6, <1>7 DEF TapIInv, Typed
<1>9. Ids' /\ (\A k \in Positions : Sound(tap_listener_queue[k]))'
  BY <1>1 DEF TapIInv, Ids, HasId, Sound, RedrawExact, Positions
<1>10. Numbered'
  <2>1. \A d \in 1 .. Len(tapped) : tapped[d].data = d
    BY DEF TapIInv, Numbered
  <2> QED
    BY <1>3, <1>5, <1>6, <2>1, SMTT(30) DEF Numbered
<1>11. tapping_is_active => Mirrors'
  <2> SUFFICES ASSUME tapping_is_active PROVE Mirrors'
    OBVIOUS
  <2>1. Mirrors
    BY <1>1 DEF TapIInv, Phase
  <2>2. CASE Len(tapped) < QueueLen
    <3>1. Len(tap_packet_array) = Len(tapped) /\ KeptLen' = Len(tapped) + 1 /\ KeptLen = Len(tapped)
      BY <1>3, <1>6, <2>1, <2>2 DEF Mirrors, KeptLen
    <3>2. Len(tap_packet_array') = Len(tapped) + 1
      BY <1>7, <2>2, <3>1
    <3>3. ASSUME NEW d \in 1 .. Len(tapped) + 1
          PROVE  (/\ HasId(tapped[d].name, tap_packet_array[d].tap_id)
                  /\ tap_packet_array[d].error = tapped[d].error
                  /\ tap_packet_array[d].data = d)'
      <4>1. CASE d = Len(tapped) + 1
        <5>1. tapped'[d] = p /\ tap_packet_array'[d] = e
          BY <1>6, <1>7, <2>2, <3>1, <4>1
        <5> QED
          BY <1>1, <1>4, <1>5, <4>1, <5>1 DEF HasId
      <4>2. CASE d # Len(tapped) + 1
        <5>1. d \in 1 .. Len(tapped)
          BY <1>3, <4>2
        <5>2. tapped'[d] = tapped[d] /\ tap_packet_array'[d] = tap_packet_array[d]
          BY <1>6, <1>7, <2>2, <3>1, <5>1
        <5>3. /\ HasId(tapped[d].name, tap_packet_array[d].tap_id)
              /\ tap_packet_array[d].error = tapped[d].error
              /\ tap_packet_array[d].data = d
          BY <2>1, <3>1, <5>1 DEF Mirrors
        <5> QED
          BY <1>1, <5>2, <5>3 DEF HasId
      <4> QED
        BY <4>1, <4>2
    <3> QED
      BY <3>1, <3>2, <3>3 DEF Mirrors
  <2>3. CASE ~(Len(tapped) < QueueLen)
    <3>1. Len(tap_packet_array) = QueueLen /\ KeptLen' = QueueLen /\ KeptLen = QueueLen
      BY <1>3, <1>6, <2>1, <2>3 DEF Mirrors, KeptLen
    <3>2. tap_packet_array' = tap_packet_array
      BY <1>3, <1>7, <3>1
    <3>3. \A d \in 1 .. QueueLen : tapped'[d] = tapped[d]
      BY <1>3, <1>6, <2>3
    <3> QED
      BY <1>1, <2>1, <3>1, <3>2, <3>3 DEF Mirrors, HasId
  <2> QED
    BY <2>2, <2>3
<1>12. Phase'
  BY <1>1, <1>11 DEF TapIInv, Phase, Positions
<1> QED
  BY <1>8, <1>9, <1>10, <1>12 DEF TapIInv

(* Before the first push nobody got anything, and nobody should have.      *)
LEMMA Unserved ==
  ASSUME TapIInv, run.at = "dissecting", NEW k \in Positions, NEW upto \in Nat,
         upto = 0 \/ ~run.with_taps
  PROVE  Served(k, tap_listener_queue[k], upto)
<1>1. /\ tap_listener_queue[k].got = <<>> /\ tap_listener_queue[k] \in Listeners
      /\ (k \in run.failed) = tap_listener_queue[k].failed
  <2>1. tap_listener_queue[k] \in Listeners
    BY Indices DEF TapIInv, Typed, Positions
  <2> QED
    BY <2>1 DEF TapIInv, Phase, Listeners
<1> DEFINE l == tap_listener_queue[k]
<1>2. k \notin run.failed => ~l.failed
  BY <1>1
<1>3. l.got = <<>> /\ DOMAIN l.got = {}
  BY <1>1
<1>4. \A d \in 1 .. upto : ~Wanted(l, d)
  BY DEF Wanted
<1>5. k \in run.failed => l.failed
  BY <1>1 DEF Listeners
<1> HIDE DEF l
<1>6. ~l.failed => Answered(l, upto)
  BY <1>3, <1>4 DEF Answered
<1> QED
  BY <1>2, <1>3, <1>5, <1>6 DEF Served, l

LEMMA RunEndKeeps ==
  ASSUME TapIInv, RunEnd
  PROVE  TapIInv'
<1> USE DEF RunEnd
<1>1. /\ run.at = "dissecting" /\ run \in Runs
      /\ UNCHANGED <<tap_dissector_list, tap_listener_queue, tap_packet_array, issued, tapped>>
  BY DEF TapIInv, Typed
<1>2. Ids' /\ Numbered' /\ (\A k \in Positions : Sound(tap_listener_queue[k]))'
  BY <1>1 DEF TapIInv, Ids, HasId, Numbered, Sound, RedrawExact, Positions
<1>3. Positions = 1 .. Len(tap_listener_queue) /\ Len(tap_listener_queue) \in Nat
  BY Indices DEF TapIInv, Typed, Positions
<1>4. KeptLen \in Nat
  BY Indices, TapAssumption DEF TapIInv, Typed, KeptLen
<1>5. /\ tapping_is_active = (run.with_taps /\ tap_listener_queue # <<>>)
      /\ tapping_is_active => Mirrors
  BY <1>1 DEF TapIInv, Phase
<1>6. tapping_is_active' = FALSE
  BY <1>5
<1>7. CASE run.with_taps /\ tapping_is_active /\ tap_packet_array # <<>>
  <2>1. run' = [run EXCEPT !.at = "pushing", !.i = 1, !.k = 1]
    BY <1>7
  <2>2. /\ run' \in Runs /\ run'.at = "pushing" /\ run'.i = 1 /\ run'.k = 1
        /\ run'.with_taps = run.with_taps /\ run'.failed = run.failed /\ run'.matching = run.matching
    BY <1>1, <2>1 DEF Runs
  <2>3. tap_listener_queue # <<>> /\ tap_packet_array \in Seq(Entries) /\ tap_listener_queue \in Seq(Listeners)
    BY <1>5, <1>7 DEF TapIInv, Typed
  <2>4. 1 \in 1 .. Len(tap_packet_array) /\ 1 \in 1 .. Len(tap_listener_queue)
    BY <1>7, <2>3
  <2>5. Mirrors'
    BY <1>1, <1>5, <1>7 DEF Mirrors, HasId, KeptLen
  <2>6. ASSUME NEW k \in Positions PROVE Served(k, tap_listener_queue[k], Upto(k))'
    <3>1. Upto(k)' = 0
      BY <1>3, <2>2 DEF Upto
    <3>2. Served(k, tap_listener_queue[k], 0)
      BY <1>1, Unserved
    <3> QED
      BY <1>1, <2>2, <3>1, <3>2 DEF Served, Answered, Wanted
  <2>7. Phase'
    BY <1>1, <1>6, <1>7, <2>2, <2>4, <2>5, <2>6 DEF Phase, Positions
  <2>8. Typed'
    BY <1>1, <1>6, <2>2 DEF TapIInv, Typed
  <2> QED
    BY <1>2, <2>7, <2>8 DEF TapIInv
<1>8. CASE ~(run.with_taps /\ tapping_is_active /\ tap_packet_array # <<>>)
  <2>1. run' = [run EXCEPT !.at = "done"]
    BY <1>8
  <2>2. /\ run' \in Runs /\ run'.at = "done"
        /\ run'.with_taps = run.with_taps /\ run'.failed = run.failed /\ run'.matching = run.matching
    BY <1>1, <2>1 DEF Runs
  <2>3. ASSUME NEW k \in Positions PROVE KeptLen = 0 \/ ~run.with_taps
    <3>1. tap_listener_queue # <<>>
      BY <1>3
    <3>2. CASE run.with_taps
      <4>1. tapping_is_active /\ tap_packet_array = <<>>
        BY <1>5, <1>8, <3>1, <3>2
      <4> QED
        BY <1>5, <4>1 DEF Mirrors
    <3> QED
      BY <3>2
  <2>4. ASSUME NEW k \in Positions PROVE Served(k, tap_listener_queue[k], Upto(k))'
    <3>1. Upto(k)' = KeptLen
      BY <1>1, <2>2 DEF Upto, KeptLen
    <3>2. Served(k, tap_listener_queue[k], KeptLen)
      BY <1>1, <1>4, <2>3, Unserved
    <3> QED
      BY <1>1, <2>2, <3>1, <3>2 DEF Served, Answered, Wanted
  <2>5. Phase'
    BY <1>1, <1>6, <2>2, <2>4 DEF Phase, Positions
  <2>6. Typed'
    BY <1>1, <1>6, <2>2 DEF TapIInv, Typed
  <2> QED
    BY <1>2, <2>5, <2>6 DEF TapIInv
<1> QED
  BY <1>7, <1>8

LEMMA RunLeaveKeeps ==
  ASSUME TapIInv, RunLeave
  PROVE  TapIInv'
<1> DEFINE forget(l) == [l EXCEPT !.got = <<>>]
<1>1. /\ run' = NoRun /\ tapped' = <<>> /\ run.at = "done"
      /\ tap_listener_queue' = [k \in Positions |-> forget(tap_listener_queue[k])]
      /\ UNCHANGED <<tap_dissector_list, tapping_is_active, tap_packet_array, issued>>
  BY DEF RunLeave, EachListener
<1>2. ASSUME NEW k \in Positions
      PROVE  /\ forget(tap_listener_queue[k]) \in Listeners
             /\ Sound(forget(tap_listener_queue[k]))
             /\ forget(tap_listener_queue[k]).got = <<>>
  <2> DEFINE l == tap_listener_queue[k]
  <2>1. l \in Listeners /\ Sound(l)
    BY Indices DEF TapIInv, Typed, Positions
  <2>2. <<>> \in Seq(Answers)
    OBVIOUS
  <2> HIDE DEF l
  <2>3. forget(l) \in Listeners /\ forget(l).got = <<>>
    BY <2>1, <2>2 DEF Listeners
  <2>4. Sound(forget(l))
    BY <2>1 DEF Listeners, Sound, RedrawExact
  <2> QED
    BY <2>3, <2>4 DEF l
<1> HIDE DEF forget
<1>3. /\ tap_listener_queue' \in Seq(Listeners) /\ Positions' = Positions
      /\ \A k \in Positions : Sound(tap_listener_queue'[k]) /\ tap_listener_queue'[k].got = <<>>
  BY <1>1, <1>2, Mapped, Indices DEF TapIInv, Typed, Positions
<1>4. NoRun \in Runs /\ NoRun.at = "none"
  BY DEF NoRun, Runs
<1>5. Typed'
  <2>1. tapped' \in Seq(Packets)
    BY <1>1
  <2> QED
    BY <1>1, <1>3, <1>4, <2>1 DEF TapIInv, Typed
<1>6. Ids' /\ Numbered'
  BY <1>1 DEF TapIInv, Ids, HasId, Numbered
<1>7. (\A k \in Positions : Sound(tap_listener_queue[k]))'
  BY <1>1, <1>3 DEF Sound, HasId, RedrawExact
<1>8. Phase'
  BY <1>1, <1>3, <1>4 DEF TapIInv, Phase
<1> QED
  BY <1>5, <1>6, <1>7, <1>8 DEF TapIInv

---------------------------------------------------------------------------
(***************************************************************************)
(* The push.                                                               *)
(***************************************************************************)

(* The ids tell packets of one tap from those of another.                  *)
LEMMA IsForWanted ==
  ASSUME TapIInv, run.at = "pushing"
  PROVE  /\ run.i \in 1 .. KeptLen /\ run.k \in Positions /\ run.i \in Nat
         /\ tap_packet_array[run.i].data = run.i
         /\ IsFor(tap_packet_array[run.i], tap_listener_queue[run.k]) <=>
               ~tap_listener_queue[run.k].failed /\ Wanted(tap_listener_queue[run.k], run.i)
<1> DEFINE e == tap_packet_array[run.i]
           l == tap_listener_queue[run.k]
<1>1. /\ run.with_taps /\ Mirrors /\ run.i \in 1 .. Len(tap_packet_array)
      /\ run.k \in 1 .. Len(tap_listener_queue)
  BY DEF TapIInv, Phase
<1>2. run.k \in Positions /\ run.i \in 1 .. KeptLen /\ run.i \in Nat
  BY <1>1, Indices DEF TapIInv, Typed, Positions, Mirrors
<1>3. HasId(tapped[run.i].name, e.tap_id) /\ e.error = tapped[run.i].error /\ e.data = run.i
  BY <1>1, <1>2 DEF Mirrors
<1>4. HasId(l.name, l.tap_id)
  BY <1>2 DEF TapIInv, Sound
<1>5. e.tap_id = l.tap_id <=> tapped[run.i].name = l.name
  BY <1>3, <1>4 DEF HasId, TapIInv, Ids
<1> HIDE DEF e, l
<1>6. IsFor(e, l) <=> ~l.failed /\ Wanted(l, run.i)
  BY <1>1, <1>3, <1>5 DEF IsFor, Wanted
<1> QED
  BY <1>2, <1>3, <1>6 DEF e, l

LEMMA FilterPasses ==
  ASSUME NEW l \in Listeners, NEW i \in Nat \ {0}, Answered(l, i - 1),
         l.failed \/ ~Wanted(l, i)
  PROVE  Answered(l, i)
<1>1. l.got \in Seq(Answers)
  BY DEF Listeners
<1>2. \A n \in DOMAIN l.got : l.got[n].data \in 1 .. i - 1 /\ l.got[n].data \in 1 .. i
  BY DEF Answered
<1>3. ASSUME NEW d \in 1 .. i, Wanted(l, d), \A n \in DOMAIN l.got : l.got[n].data # d
      PROVE  l.failed /\ d > l.got[Len(l.got)].data
  <2>1. CASE d \in 1 .. i - 1
    BY <1>3, <2>1 DEF Answered
  <2>2. CASE d = i
    <3>1. l.failed /\ l.got # <<>>
      BY <1>3, <2>2 DEF Answered
    <3>2. Len(l.got) \in DOMAIN l.got
      BY <1>1, <3>1
    <3> QED
      BY <1>2, <2>2, <3>1, <3>2
  <2> QED
    BY <2>1, <2>2
<1> QED
  BY <1>2, <1>3 DEF Answered

LEMMA Gives ==
  ASSUME NEW l \in Listeners, NEW i \in Nat \ {0}, Answered(l, i - 1), ~l.failed, Wanted(l, i),
         NEW fails \in BOOLEAN, NEW m,
         m.data = l.data, m.code = l.code, m.name = l.name, m.failed = fails,
         m.got = Append(l.got, [data |-> i, failed |-> fails])
  PROVE  Answered(m, i)
<1> DEFINE a == [data |-> i, failed |-> fails]
           n1 == Len(l.got) + 1
<1>1. l.got \in Seq(Answers) /\ Len(l.got) \in Nat /\ DOMAIN l.got = 1 .. Len(l.got)
  BY DEF Listeners
<1>2. a \in Answers /\ a.data = i /\ a.failed = fails
  BY DEF Answers
<1> HIDE DEF a
<1>3. /\ m.got \in Seq(Answers) /\ Len(m.got) = n1 /\ m.got[n1] = a /\ m.got # <<>>
      /\ \A n \in DOMAIN l.got : m.got[n] = l.got[n]
  BY <1>1, <1>2, Tapped DEF a
<1>4. DOMAIN m.got = DOMAIN l.got \cup {n1} /\ n1 \notin DOMAIN l.got
  BY <1>1, <1>3
<1>5. \A d : Wanted(m, d) <=> Wanted(l, d)
  BY DEF Wanted
<1>6. \A n \in DOMAIN l.got : l.got[n].data \in 1 .. i - 1 /\ Wanted(l, l.got[n].data)
  BY DEF Answered
<1>7. \A n \in DOMAIN m.got : m.got[n].data \in 1 .. i /\ Wanted(m, m.got[n].data)
  BY <1>2, <1>3, <1>4, <1>5, <1>6
<1>8. ASSUME NEW j \in DOMAIN m.got, NEW n \in DOMAIN m.got, j < n
      PROVE  m.got[j].data < m.got[n].data
  <2>1. j \in DOMAIN l.got
    BY <1>1, <1>4, <1>8
  <2>2. CASE n = n1
    BY <1>2, <1>3, <1>6, <2>1, <2>2
  <2>3. CASE n \in DOMAIN l.got
    BY <1>3, <1>8, <2>1, <2>3 DEF Answered
  <2> QED
    BY <1>4, <2>2, <2>3
<1>9. ASSUME NEW n \in DOMAIN m.got PROVE m.got[n].failed = (m.failed /\ n = Len(m.got))
  <2>1. CASE n = n1
    BY <1>2, <1>3, <2>1
  <2>2. CASE n \in DOMAIN l.got
    <3>1. l.got[n].failed = FALSE
      BY <2>2 DEF Answered
    <3> QED
      BY <1>3, <1>4, <2>2, <3>1
  <2> QED
    BY <1>4, <2>1, <2>2
<1>10. ASSUME NEW d \in 1 .. i, Wanted(m, d) PROVE \E n \in DOMAIN m.got : m.got[n].data = d
  <2>1. CASE d = i
    BY <1>2, <1>3, <1>4, <2>1
  <2>2. CASE d \in 1 .. i - 1
    <3>1. PICK n \in DOMAIN l.got : l.got[n].data = d
      BY <1>5, <1>10, <2>2 DEF Answered
    <3> QED
      BY <1>3, <1>4, <3>1
  <2> QED
    BY <2>1, <2>2
<1> QED
  BY <1>3, <1>7, <1>8, <1>9, <1>10 DEF Answered

(* The k-th listener has been asked about the i-th packet: the push goes   *)
(* on to the next.                                                         *)
LEMMA PushGoesOn ==
  ASSUME TapIInv, run.at = "pushing", PushNext, NEW m \in Listeners, Sound(m),
         UNCHANGED <<tap_dissector_list, tapping_is_active, tap_packet_array, issued, tapped>>,
         tap_listener_queue' = [tap_listener_queue EXCEPT ![run.k] = m],
         Served(run.k, m, run.i)
  PROVE  TapIInv'
<1>1. /\ tap_listener_queue \in Seq(Listeners) /\ run \in Runs /\ run.i \in Nat /\ run.k \in Nat
      /\ Positions = 1 .. Len(tap_listener_queue) /\ Len(tap_listener_queue) \in Nat
      /\ Len(tap_packet_array) \in Nat
  BY Indices DEF TapIInv, Typed, Positions, Runs
<1>2. /\ run.with_taps /\ Mirrors /\ run.i \in 1 .. Len(tap_packet_array) /\ run.k \in Positions
      /\ ~tapping_is_active
  BY <1>1 DEF TapIInv, Phase
<1>3. /\ tap_listener_queue' \in Seq(Listeners) /\ Positions' = Positions
      /\ Len(tap_listener_queue') = Len(tap_listener_queue)
      /\ \A k \in Positions :
            tap_listener_queue'[k] = IF k = run.k THEN m ELSE tap_listener_queue[k]
  BY <1>1, <1>2 DEF Positions
<1>4. \A k \in Positions : Served(k, tap_listener_queue'[k], IF k <= run.k THEN run.i ELSE run.i - 1)
  <2> SUFFICES ASSUME NEW k \in Positions
               PROVE  Served(k, tap_listener_queue'[k], IF k <= run.k THEN run.i ELSE run.i - 1)
    OBVIOUS
  <2>1. Served(k, tap_listener_queue[k], IF k < run.k THEN run.i ELSE run.i - 1)
    BY DEF TapIInv, Phase, Upto
  <2>2. CASE k = run.k
    BY <1>1, <1>3, <2>2
  <2>3. CASE k # run.k
    <3>1. (k < run.k) = (k <= run.k)
      BY <1>1, <2>3
    <3> QED
      BY <1>3, <2>1, <2>3, <3>1
  <2> QED
    BY <2>2, <2>3
<1>5. /\ run' \in Runs /\ run'.at \in {"pushing", "done"}
      /\ run'.with_taps = run.with_taps /\ run'.matching = run.matching /\ run'.failed = run.failed
      /\ run'.at = "pushing" => /\ run'.i \in 1 .. Len(tap_packet_array)
                                /\ run'.k \in 1 .. Len(tap_listener_queue)
      /\ \A k \in Positions : Upto(k)' = IF k <= run.k THEN run.i ELSE run.i - 1
  <2>1. CASE run.k < Len(tap_listener_queue)
    <3>1. run' = [run EXCEPT !.k = @ + 1]
      BY <2>1 DEF PushNext
    <3>2. /\ run' \in Runs /\ run'.at = "pushing" /\ run'.i = run.i /\ run'.k = run.k + 1
          /\ run'.with_taps = run.with_taps /\ run'.matching = run.matching
          /\ run'.failed = run.failed
      BY <1>1, <3>1 DEF Runs
    <3>3. \A k \in Positions : Upto(k)' = IF k <= run.k THEN run.i ELSE run.i - 1
      BY <1>1, <3>2 DEF Upto
    <3> QED
      BY <1>1, <1>2, <2>1, <3>2, <3>3
  <2>2. CASE ~(run.k < Len(tap_listener_queue)) /\ run.i < Len(tap_packet_array)
    <3>1. run' = [run EXCEPT !.i = @ + 1, !.k = 1]
      BY <2>2 DEF PushNext
    <3>2. /\ run' \in Runs /\ run'.at = "pushing" /\ run'.i = run.i + 1 /\ run'.k = 1
          /\ run'.with_taps = run.with_taps /\ run'.matching = run.matching
          /\ run'.failed = run.failed
      <4>1. run.i + 1 \in Nat /\ run.at = "pushing"
        BY <1>1
      <4>2. run' \in Runs
        BY <1>1, <3>1, <4>1 DEF Runs
      <4> QED
        BY <1>1, <3>1, <4>1, <4>2 DEF Runs
    <3>3. \A k \in Positions : Upto(k)' = IF k <= run.k THEN run.i ELSE run.i - 1
      BY <1>1, <1>2, <2>2, <3>2 DEF Upto
    <3> QED
      BY <1>1, <1>2, <2>2, <3>2, <3>3
  <2>3. CASE ~(run.k < Len(tap_listener_queue)) /\ ~(run.i < Len(tap_packet_array))
    <3>1. run' = [run EXCEPT !.at = "done", !.i = 0, !.k = 0]
      BY <2>3 DEF PushNext
    <3>2. /\ run' \in Runs /\ run'.at = "done"
          /\ run'.with_taps = run.with_taps /\ run'.matching = run.matching
          /\ run'.failed = run.failed
      BY <1>1, <3>1 DEF Runs
    <3>3. run.i = KeptLen /\ KeptLen' = KeptLen
      BY <1>1, <1>2, <2>3 DEF Mirrors, KeptLen
    <3>4. \A k \in Positions : Upto(k)' = IF k <= run.k THEN run.i ELSE run.i - 1
      BY <1>1, <1>2, <2>3, <3>2, <3>3 DEF Upto
    <3> QED
      BY <3>2, <3>4
  <2> QED
    BY <2>1, <2>2, <2>3
<1>6. Typed'
  BY <1>3, <1>5 DEF TapIInv, Typed
<1>7. Ids' /\ Numbered'
  BY DEF TapIInv, Ids, HasId, Numbered
<1>8. (\A k \in Positions : Sound(tap_listener_queue[k]))'
  <2> SUFFICES ASSUME NEW k \in Positions PROVE Sound(tap_listener_queue[k])'
    BY <1>3
  <2>1. Sound(tap_listener_queue[k]) /\ tap_listener_queue'[k] \in {m, tap_listener_queue[k]}
    BY <1>3 DEF TapIInv
  <2> QED
    BY <2>1 DEF Sound, HasId, RedrawExact
<1>9. Mirrors'
  BY <1>2 DEF Mirrors, HasId, KeptLen
<1>10. (\A k \in Positions : Served(k, tap_listener_queue[k], Upto(k)))'
  <2> SUFFICES ASSUME NEW k \in Positions PROVE Served(k, tap_listener_queue[k], Upto(k))'
    BY <1>3
  <2> DEFINE u == IF k <= run.k THEN run.i ELSE run.i - 1
  <2>1. Served(k, tap_listener_queue'[k], u) /\ Upto(k)' = u
    BY <1>4, <1>5
  <2> HIDE DEF u
  <2> QED
    BY <1>5, <2>1 DEF Served, Answered, Wanted
<1>11. Phase'
  BY <1>2, <1>3, <1>5, <1>9, <1>10 DEF Phase
<1> QED
  BY <1>6, <1>7, <1>8, <1>11 DEF TapIInv

LEMMA PushStepKeeps ==
  ASSUME TapIInv, PushStep
  PROVE  TapIInv'
<1> DEFINE l == tap_listener_queue[run.k]
           e == tap_packet_array[run.i]
<1>1. run.at = "pushing" /\ PushNext
  BY DEF PushStep, PassOver, CallPacketRoutine
<1>2. UNCHANGED <<tap_dissector_list, tapping_is_active, tap_packet_array, issued, tapped>>
  BY DEF PushStep, PassOver, CallPacketRoutine
<1>3. /\ run.k \in Positions /\ run.i \in Nat \ {0} /\ e.data = run.i
      /\ IsFor(e, l) <=> ~l.failed /\ Wanted(l, run.i)
  BY <1>1, IsForWanted
<1>4. l \in Listeners /\ Sound(l) /\ tap_listener_queue \in Seq(Listeners)
  BY <1>3, Indices DEF TapIInv, Typed, Positions
<1>5. Served(run.k, l, run.i - 1)
  <2>1. Upto(run.k) = run.i - 1
    BY <1>1, <1>3, Indices DEF Upto, TapIInv, Typed, Positions
  <2> QED
    BY <1>1, <1>3, <2>1 DEF TapIInv, Phase
<1>6. CASE PassOver
  <2>1. l.failed \/ ~Wanted(l, run.i)
    BY <1>3, <1>6 DEF PassOver
  <2>2. Served(run.k, l, run.i)
    <3> HIDE DEF l, e
    <3> QED
      BY <1>3, <1>4, <1>5, <2>1, FilterPasses DEF Served
  <2>3. tap_listener_queue' = [tap_listener_queue EXCEPT ![run.k] = l]
    BY <1>4, <1>6 DEF PassOver
  <2> HIDE DEF l
  <2> QED
    BY <1>1, <1>2, <1>4, <2>2, <2>3, PushGoesOn
<1>7. CASE \E status \in {"DONT_REDRAW", "REDRAW", "FAILED"} : CallPacketRoutine(status)
  <2>1. PICK status \in {"DONT_REDRAW", "REDRAW", "FAILED"} : CallPacketRoutine(status)
    BY <1>7
  <2> DEFINE fails == status = "FAILED"
             redraw == status = "REDRAW"
             a == [data |-> e.data, failed |-> fails]
             m == [l EXCEPT !.needs_redraw = @ \/ redraw, !.failed = @ \/ fails,
                            !.undrawn = @ \/ redraw, !.got = Append(@, a)]
  <2>2. IsFor(e, l) /\ tap_listener_queue' = [tap_listener_queue EXCEPT ![run.k] = m]
    BY <2>1 DEF CallPacketRoutine
  <2>3. ~l.failed /\ Wanted(l, run.i)
    BY <1>3, <2>2
  <2>4. fails \in BOOLEAN /\ redraw \in BOOLEAN
    OBVIOUS
  <2>5. a = [data |-> run.i, failed |-> fails] /\ a \in Answers
    BY <1>3 DEF Answers
  <2> HIDE DEF l, e, fails, redraw, a
  <2>6. Append(l.got, a) \in Seq(Answers)
    BY <1>4, <2>5, Tapped DEF Listeners
  <2>7. m \in Listeners
    <3>1. (l.needs_redraw \/ redraw) \in BOOLEAN /\ (l.failed \/ fails) \in BOOLEAN
          /\ (l.undrawn \/ redraw) \in BOOLEAN
      OBVIOUS
    <3> QED
      BY <1>4, <2>6, <3>1 DEF Listeners
  <2>8. /\ m.data = l.data /\ m.code = l.code /\ m.name = l.name /\ m.tap_id = l.tap_id
        /\ m.got = Append(l.got, a)
    BY <1>4 DEF Listeners
  <2>9. /\ m.failed = (l.failed \/ fails) /\ m.needs_redraw = (l.needs_redraw \/ redraw)
        /\ m.undrawn = (l.undrawn \/ redraw)
    BY <1>4 DEF Listeners
  <2> HIDE DEF m
  <2>10. Sound(m)
    BY <1>4, <2>8, <2>9 DEF Sound, RedrawExact
  <2>11. m.failed = fails
    BY <2>3, <2>4, <2>9
  <2>12. Served(run.k, m, run.i)
    <3>1. CASE run.k \in run.failed
      BY <1>5, <2>3, <3>1 DEF Served
    <3>2. CASE run.k \notin run.failed
      <4>1. Answered(l, run.i - 1)
        BY <1>5, <3>2 DEF Served
      <4>2. Answered(m, run.i)
        BY <1>3, <1>4, <2>3, <2>4, <2>5, <2>8, <2>11, <4>1, Gives
      <4> QED
        BY <3>2, <4>2 DEF Served
    <3> QED
      BY <3>1, <3>2
  <2> QED
    BY <1>1, <1>2, <2>2, <2>7, <2>10, <2>12, PushGoesOn
<1> QED
  BY <1>6, <1>7 DEF PushStep

---------------------------------------------------------------------------
(***************************************************************************)
(* The invariant, and what it gives.                                       *)
(***************************************************************************)

LEMMA TapStepKeeps == TapIInv /\ [TapNext]_tapVars => TapIInv'
<1> SUFFICES ASSUME TapIInv, [TapNext]_tapVars PROVE TapIInv'
  OBVIOUS
<1>1. CASE \E name \in Name : RegisterTap(name)
  BY <1>1, RegisterTapKeeps
<1>2. CASE \E name \in Name, owner \in Tapdata : RegisterTapListener(name, owner)
  BY <1>2, RegisterTapListenerKeeps
<1>3. CASE \E owner \in Tapdata : RemoveTapListener(owner)
  BY <1>3, RemoveTapListenerKeeps
<1>4. CASE \E owner \in Tapdata, filter \in Filter \cup {NoFilter} : SetTapDfilter(owner, filter)
  BY <1>4, SetTapDfilterKeeps
<1>5. CASE ResetTapListeners
  BY <1>5, ResetTapListenersKeeps
<1>6. CASE \E draw_all \in BOOLEAN : DrawTapListeners(draw_all)
  BY <1>6, DrawTapListenersKeeps
<1>7. CASE \E matching \in SUBSET Filter : RunBegin(TRUE, matching)
  BY <1>7, RunBeginKeeps
<1>8. CASE RunBegin(FALSE, {})
  BY <1>8, RunBeginKeeps
<1>9. CASE \E name \in Name, error \in BOOLEAN : TapQueuePacket(name, error)
  BY <1>9, TapQueuePacketKeeps
<1>10. CASE RunEnd
  BY <1>10, RunEndKeeps
<1>11. CASE PushStep
  BY <1>11, PushStepKeeps
<1>12. CASE RunLeave
  BY <1>12, RunLeaveKeeps
<1>13. CASE UNCHANGED tapVars
  <2>1. UNCHANGED <<tap_dissector_list, tap_listener_queue, tapping_is_active,
                    tap_packet_array, run, issued, tapped>>
    BY <1>13 DEF tapVars
  <2>2. Typed' /\ Ids' /\ Numbered'
    BY <2>1 DEF TapIInv, Typed, Ids, HasId, Numbered
  <2>3. (\A k \in Positions : Sound(tap_listener_queue[k]))'
    BY <2>1 DEF TapIInv, Sound, HasId, RedrawExact, Positions
  <2>4. Phase'
    BY <2>1 DEF TapIInv, Phase, Mirrors, HasId, Served, Answered, Wanted, Upto, KeptLen, Positions
  <2> QED
    BY <2>2, <2>3, <2>4 DEF TapIInv
<1> QED
  BY <1>1, <1>2, <1>3, <1>4, <1>5, <1>6, <1>7, <1>8, <1>9, <1>10, <1>11, <1>12, <1>13 DEF TapNext

LEMMA Inductive == TapSpec => []TapIInv
<1> QED
  BY Begins, TapStepKeeps, PTL DEF TapSpec

LEMMA KeptIs ==
  ASSUME Typed
  PROVE  /\ KeptLen \in Nat /\ DOMAIN Kept = 1 .. KeptLen /\ Len(Kept) = KeptLen
         /\ \A d \in 1 .. KeptLen : Kept[d] = tapped[d] /\ d \in 1 .. Len(tapped)
<1>1. tapped \in Seq(Packets) /\ Len(tapped) \in Nat /\ QueueLen \in Nat
  BY Indices, TapAssumption DEF Typed
<1>2. KeptLen \in Nat /\ KeptLen <= Len(tapped) /\ Kept = SubSeq(tapped, 1, KeptLen)
  BY <1>1 DEF Kept, KeptLen
<1> HIDE DEF KeptLen
<1> QED
  BY <1>1, <1>2

LEMMA DueIs ==
  ASSUME Typed, Numbered, NEW l
  PROVE  Due(l) = {d \in 1 .. KeptLen : Wanted(l, d)}
<1> DEFINE Q == {q \in ToSet(Kept) :
        /\ run.with_taps /\ l.data \notin NoPacketRoutine
        /\ l.code # NoFilter => l.code \in run.matching
        /\ q.name = l.name
        /\ q.error => l.data \in WantsErrors}
<1>1. /\ DOMAIN Kept = 1 .. KeptLen
      /\ \A d \in 1 .. KeptLen : Kept[d] = tapped[d] /\ tapped[d].data = d
  BY KeptIs DEF Numbered
<1>2. ToSet(Kept) = {Kept[d] : d \in 1 .. KeptLen}
  BY <1>1 DEF ToSet
<1>3. Due(l) = {p.data : p \in Q}
  BY DEF Due
<1>4. ASSUME NEW d \in Due(l) PROVE d \in 1 .. KeptLen /\ Wanted(l, d)
  <2>1. PICK p \in Q : d = p.data
    BY <1>3
  <2>2. PICK n \in 1 .. KeptLen : p = Kept[n]
    BY <1>2, <2>1
  <2>3. d = n /\ p = tapped[d]
    BY <1>1, <2>1, <2>2
  <2> QED
    BY <2>1, <2>2, <2>3 DEF Wanted
<1>5. ASSUME NEW d \in 1 .. KeptLen, Wanted(l, d) PROVE d \in Due(l)
  <2>1. tapped[d] \in Q /\ tapped[d].data = d
    BY <1>1, <1>2, <1>5 DEF Wanted
  <2> HIDE DEF Q
  <2> QED
    BY <1>3, <2>1
<1> QED
  BY <1>4, <1>5

LEMMA ServedAll ==
  ASSUME TapIInv, run.at = "done", NEW k \in Positions
  PROVE  GotItsDue(k)
<1> DEFINE l == tap_listener_queue[k]
           got == {p.data : p \in ToSet(l.got)}
           failures == {n \in DOMAIN l.got : l.got[n].failed}
           due == IF failures = {} THEN Due(l)
                  ELSE {d \in Due(l) : d <= l.got[Len(l.got)].data}
<1>1. Served(k, l, KeptLen)
  BY DEF TapIInv, Phase, Upto
<1>2. CASE k \in run.failed
  BY <1>1, <1>2 DEF Served, GotItsDue
<1>3. CASE k \notin run.failed
  <2>1. Answered(l, KeptLen)
    BY <1>1, <1>3 DEF Served
  <2>2. l.got \in Seq(Answers) /\ DOMAIN l.got = 1 .. Len(l.got) /\ Len(l.got) \in Nat
        /\ l.failed \in BOOLEAN
    <3>1. l \in Listeners
      BY Indices DEF TapIInv, Typed, Positions
    <3> HIDE DEF l
    <3>2. l.got \in Seq(Answers) /\ l.failed \in BOOLEAN
      BY <3>1 DEF Listeners
    <3> QED
      BY <3>2, Indices
  <2>3. Due(l) = {d \in 1 .. KeptLen : Wanted(l, d)}
    BY DueIs DEF TapIInv
  <2>4. got = {l.got[n].data : n \in DOMAIN l.got}
    BY DEF ToSet
  <2>5. KeptLen \in Nat
    BY KeptIs DEF TapIInv
  <2> HIDE DEF l
  <2>6. failures = IF l.failed THEN {Len(l.got)} ELSE {}
    <3>1. l.failed => Len(l.got) \in DOMAIN l.got
      BY <2>1, <2>2 DEF Answered
    <3> QED
      BY <2>1, <2>2, <3>1 DEF Answered
  <2>7. \A n \in DOMAIN l.got : l.got[n].data \in Due(l)
    BY <2>1, <2>3 DEF Answered
  <2>8. CASE ~l.failed
    <3>1. \A d \in Due(l) : \E n \in DOMAIN l.got : l.got[n].data = d
      BY <2>1, <2>3, <2>8 DEF Answered
    <3>2. got = Due(l)
      BY <2>4, <2>7, <3>1
    <3>3. due = Due(l)
      BY <2>6, <2>8
    <3>4. failures = {} /\ l.failed = (failures # {})
      BY <2>2, <2>6, <2>8
    <3>5. \A m, n \in DOMAIN l.got : m < n => l.got[m].data < l.got[n].data
      BY <2>1 DEF Answered
    <3> QED
      BY <1>3, <3>2, <3>3, <3>4, <3>5 DEF GotItsDue, l
  <2>9. CASE l.failed
    <3> DEFINE last == l.got[Len(l.got)].data
    <3>1. Len(l.got) \in DOMAIN l.got /\ last \in 1 .. KeptLen
      BY <2>1, <2>2, <2>9 DEF Answered
    <3>2. \A n \in DOMAIN l.got : l.got[n].data <= last
      <4> SUFFICES ASSUME NEW n \in DOMAIN l.got, n # Len(l.got) PROVE l.got[n].data <= last
        BY <2>5, <3>1
      <4>1. l.got[n].data < last
        BY <2>1, <2>2, <3>1 DEF Answered
      <4>2. l.got[n].data \in Nat
        BY <2>1, <2>5 DEF Answered
      <4> QED
        BY <2>5, <3>1, <4>1, <4>2
    <3>3. due = {d \in Due(l) : d <= last}
      BY <2>6, <2>9
    <3>4. ASSUME NEW d \in Due(l), d <= last PROVE \E n \in DOMAIN l.got : l.got[n].data = d
      <4>1. ~(d > last) /\ d \in 1 .. KeptLen /\ Wanted(l, d)
        BY <2>3, <2>5, <3>1, <3>4
      <4> QED
        BY <2>1, <4>1 DEF Answered
    <3>5. got = due
      BY <2>4, <2>7, <3>2, <3>3, <3>4
    <3> QED
      BY <1>3, <2>1, <2>6, <2>9, <3>5 DEF GotItsDue, Answered, l
  <2> QED
    BY <2>8, <2>9
<1> QED
  BY <1>2, <1>3

(* After each run with taps every listener has got its due, in order and   *)
(* once, up to the packet it failed on; and a listener is marked for a     *)
(* redraw exactly when it changed since it was drawn.                      *)
THEOREM AllDelivered == TapSpec => []Delivered
<1>1. ASSUME TapIInv PROVE TapTypeOK
  <2>1. /\ tap_listener_queue \in Seq(Listeners)
        /\ \A k \in Positions : /\ tap_listener_queue[k] \in Listeners
                                /\ tap_listener_queue[k].tap_id \in DOMAIN tap_dissector_list
    BY <1>1, Indices DEF TapIInv, Typed, Positions, Sound, HasId
  <2>2. run.at \in {"none", "dissecting", "pushing", "done"}
    BY <1>1 DEF TapIInv, Typed, Runs
  <2>3. run.at = "pushing" => run.i \in DOMAIN tap_packet_array /\ run.k \in Positions
    BY <1>1, Indices DEF TapIInv, Typed, Phase, Positions
  <2> QED
    BY <1>1, <2>1, <2>2, <2>3 DEF TapIInv, Typed, TapTypeOK, Listeners
<1>2. TapIInv => Delivered
  BY <1>1, ServedAll DEF TapIInv, Sound, Delivered
<1> QED
  BY <1>2, Inductive, PTL

(* While a packet is dissected with taps fetch_tapped_data finds what was  *)
(* tapped under the name in this very run, up to the queue's limit, and    *)
(* without listeners or taps it finds nothing.                             *)
THEOREM AllFetchesOfThisRun == TapSpec => []FetchesThisRun
<1>1. ASSUME TapIInv, run.at = "dissecting", NEW name \in Name, NEW idx, issued[name] # 0
      PROVE  LET mine == {n \in DOMAIN Kept : Kept[n].name = name}
             IN  FetchTappedData(issued[name], idx) =
                    IF /\ run.with_taps /\ tap_listener_queue # <<>>
                       /\ AfterOthers(mine, idx) # {}
                    THEN Kept[CHOOSE n \in AfterOthers(mine, idx) : TRUE].data ELSE 0
  <2> DEFINE mine == {n \in DOMAIN Kept : Kept[n].name = name}
             hits == {n \in DOMAIN tap_packet_array : tap_packet_array[n].tap_id = issued[name]}
             Pick(set) == CHOOSE n \in AfterOthers(set, idx) : TRUE
             first == Pick(mine)
  <2>1. tapping_is_active = (run.with_taps /\ tap_listener_queue # <<>>)
    BY <1>1 DEF TapIInv, Phase
  <2>2. CASE ~tapping_is_active
    BY <2>1, <2>2 DEF FetchTappedData
  <2>3. CASE tapping_is_active
    <3>1. Mirrors /\ HasId(name, issued[name])
      BY <1>1, <2>3 DEF TapIInv, Phase, Ids
    <3>2. /\ DOMAIN tap_packet_array = DOMAIN Kept
          /\ \A n \in DOMAIN Kept :
                /\ HasId(Kept[n].name, tap_packet_array[n].tap_id)
                /\ tap_packet_array[n].data = Kept[n].data
      BY <1>1, <3>1, KeptIs, Indices DEF TapIInv, Typed, Mirrors, Numbered
    <3>3. \A n \in DOMAIN Kept : tap_packet_array[n].tap_id = issued[name] <=> Kept[n].name = name
      BY <1>1, <3>1, <3>2 DEF HasId, TapIInv, Ids
    <3>4. hits = mine
      BY <3>2, <3>3
    <3>5. AfterOthers(mine, idx) \subseteq DOMAIN Kept
      BY DEF AfterOthers
    <3>6. FetchTappedData(issued[name], idx) =
             IF AfterOthers(hits, idx) # {} THEN tap_packet_array[Pick(hits)].data ELSE 0
      BY <2>3 DEF FetchTappedData
    <3> HIDE DEF mine, hits
    <3>7. AfterOthers(mine, idx) # {} => first \in DOMAIN Kept
      BY <3>5
    <3> HIDE DEF Pick
    <3>8. AfterOthers(mine, idx) # {} => tap_packet_array[first].data = Kept[first].data
      BY <3>2, <3>7
    <3> QED
      BY <2>1, <2>3, <3>4, <3>6, <3>8 DEF mine, Pick
  <2> QED
    BY <2>2, <2>3
<1>2. TapIInv => FetchesThisRun
  BY <1>1 DEF FetchesThisRun
<1> QED
  BY <1>2, Inductive, PTL

-----------------------------------------------------------------------------
(***************************************************************************)
(* Except.                                                                 *)
(***************************************************************************)

(* The greatest member of a set of numbers that is bounded: Max finds it. *)
LEMMA GreatestExists ==
  ASSUME NEW n \in Nat, NEW S \in SUBSET (1 .. n), S # {}
  PROVE  Max(S) \in S /\ \A x \in S : x <= Max(S)
<1> DEFINE R == OpToRel(<, Nat)
           T == {m \in Nat : n - m \in S}
<1>1. \A x, y \in Nat : <<x, y>> \in R <=> x < y
  BY Zenon DEF OpToRel
<1>2. IsWellFoundedOn(R, Nat)
  BY NatLessThanWellFounded, Zenon
<1> HIDE DEF R
<1>3. PICK x \in S : TRUE
  OBVIOUS
<1>4. n - x \in T
  BY <1>3
<1>5. PICK m \in T : \A l \in T : ~(<<l, m>> \in R)
  <2>1. T \subseteq Nat /\ T # {}
    BY <1>4
  <2> HIDE DEF T
  <2> QED
    BY <1>2, <2>1, WFMin
<1>6. \A l \in T : ~(l < m)
  BY <1>1, <1>5
<1>7. n - m \in S /\ \A y \in S : n - m >= y
  <2>1. \A y \in S : n - y \in T
    OBVIOUS
  <2> QED
    BY <1>6, <2>1
<1> QED
  BY <1>7 DEF Max

(***************************************************************************)
(* What the macros' locals tell of a TRY: the blocks it entered are those  *)
(* except_state remembers, and exc is set once an exception came.          *)
(***************************************************************************)
TryFields ==
  [kind : {"try"}, at : {"try", "catch", "finally", "endtry"}, catches : CatchLists,
   finally : BOOLEAN, state : SUBSET {"CAUGHT", "RETHROWN", "FINALLY"}, exc : BOOLEAN,
   obj : ExceptId, thrown : Code \cup {None}, handled : BOOLEAN, caughts : Nat, finallys : Nat]

Counted(r) ==
  /\ r.caughts = IF "CAUGHT" \in r.state \/ "RETHROWN" \in r.state THEN 1 ELSE 0
  /\ r.finallys = IF "FINALLY" \in r.state THEN 1 ELSE 0
  /\ r.handled <=> "CAUGHT" \in r.state
  /\ "CAUGHT" \in r.state => r.exc
  /\ r.exc <=> r.thrown # None

SoundTry(r) ==
  /\ r \in TryFields
  /\ Counted(r)
  /\ r.at = "catch" => r.state = {"CAUGHT"}
  /\ r.at = "endtry" /\ r.finally => "FINALLY" \in r.state

SoundRegions(rs) == \A d \in DOMAIN rs : rs[d] = Cleanup \/ SoundTry(rs[d])

(* What is owed are the cleanups of the regions rs. *)
Owes(o, rs) ==
  \A d \in 1 .. MaxDepth :
    o[d] = IF d <= Len(rs) /\ rs[d].kind = "cleanup" THEN 1 ELSE 0

Region == {Cleanup} \cup TryFields

ExceptIInv ==
  /\ aborted \in BOOLEAN
  /\ regions \in Seq(Region) /\ Depth <= MaxDepth
  /\ SoundRegions(regions)
  /\ stack \in Seq(1 .. MaxDepth)
  /\ owed \in [1 .. MaxDepth -> Int]
  /\ ~aborted => stack = [d \in 1 .. Depth |-> d] /\ Owes(owed, regions)

(* The stack that leads to n regions. *)
LEMMA CountUp ==
  ASSUME NEW n \in 0 .. MaxDepth
  PROVE  /\ [d \in 1 .. n |-> d] \in Seq(1 .. MaxDepth)
         /\ Len([d \in 1 .. n |-> d]) = n
<1>1. n \in Nat /\ MaxDepth \in Nat
  BY ExceptAssumption
<1>2. \A d \in 1 .. n : d \in 1 .. MaxDepth
  BY <1>1
<1> QED
  BY <1>1, <1>2

LEMMA FrontOf ==
  ASSUME NEW S, NEW s \in Seq(S), s # << >>
  PROVE  /\ Front(s) \in Seq(S) /\ Len(Front(s)) = Len(s) - 1
         /\ \A i \in 1 .. Len(s) - 1 : Front(s)[i] = s[i]
<1>1. /\ Len(s) \in Nat /\ Len(s) >= 1 /\ Front(s) = SubSeq(s, 1, Len(s) - 1)
      /\ \A i \in 1 .. Len(s) : s[i] \in S
  BY DEF Front
<1>2. Front(s) = [i \in 1 .. Len(s) - 1 |-> s[i]]
  BY <1>1
<1>3. Len(s) - 1 \in Nat /\ \A i \in 1 .. Len(s) - 1 : s[i] \in S
  BY <1>1
<1> QED
  BY <1>2, <1>3

LEMMA CleanupIsNoTry == ASSUME NEW r, SoundTry(r) PROVE r.kind = "try" /\ r # Cleanup
<1>1. r.kind = "try"
  BY DEF SoundTry, TryFields
<1>2. Cleanup.kind = "cleanup"
  BY DEF Cleanup
<1> QED
  BY <1>1, <1>2

(***************************************************************************)
(* The macros.                                                             *)
(***************************************************************************)

(* A TRY begins sound. *)
LEMMA NewTrySound ==
  ASSUME NEW catches \in CatchLists, NEW finally \in BOOLEAN
  PROVE  SoundTry(NewTry(catches, finally))
BY ExceptAssumption DEF SoundTry, TryFields, Counted, NewTry, Unset, ExceptId, None

(* Past the CATCH clauses a TRY is sound; it keeps its exception. *)
LEMMA AfterCatchSound ==
  ASSUME NEW r \in TryFields, Counted(r)
  PROVE  SoundTry(AfterCatch(r)) /\ AfterCatch(r).thrown = r.thrown
<1> DEFINE f == AfterCatch(r)
<1>0. /\ r.state \in SUBSET {"CAUGHT", "RETHROWN", "FINALLY"} /\ r.finallys \in Nat
      /\ r.caughts \in Nat /\ r.handled \in BOOLEAN
  BY DEF TryFields
<1>1. CASE r.finally /\ "FINALLY" \notin r.state
  <2> DEFINE state == r.state \cup {"FINALLY"}
  <2>1. f = [r EXCEPT !.at = "finally", !.state = state, !.handled = r.handled,
                      !.caughts = r.caughts, !.finallys = r.finallys + 1]
    BY <1>1 DEF AfterCatch, TryFields
  <2>2. /\ state \in SUBSET {"CAUGHT", "RETHROWN", "FINALLY"} /\ r.finallys + 1 \in Nat
        /\ "FINALLY" \in state /\ ("CAUGHT" \in state <=> "CAUGHT" \in r.state)
        /\ "RETHROWN" \in state <=> "RETHROWN" \in r.state
    BY <1>0
  <2> HIDE DEF f, state
  <2>3. /\ f \in TryFields /\ f.at = "finally" /\ f.state = state /\ f.handled = r.handled
        /\ f.caughts = r.caughts /\ f.finallys = r.finallys + 1
        /\ f.exc = r.exc /\ f.thrown = r.thrown
    BY <1>0, <2>1, <2>2 DEF TryFields
  <2> QED
    BY <1>1, <2>2, <2>3 DEF SoundTry, Counted, f
<1>2. CASE ~(r.finally /\ "FINALLY" \notin r.state)
  <2>1. f = [r EXCEPT !.at = "endtry", !.state = r.state, !.handled = r.handled,
                      !.caughts = r.caughts, !.finallys = r.finallys]
    BY <1>2 DEF AfterCatch, TryFields
  <2> HIDE DEF f
  <2>2. /\ f \in TryFields /\ f.at = "endtry" /\ f.state = r.state /\ f.handled = r.handled
        /\ f.caughts = r.caughts /\ f.finallys = r.finallys
        /\ f.exc = r.exc /\ f.thrown = r.thrown /\ f.finally = r.finally
    BY <1>0, <2>1 DEF TryFields
  <2> QED
    BY <1>2, <2>2 DEF SoundTry, Counted, f
<1> QED
  BY <1>1, <1>2

(* An exception lands in a TRY: no block is entered a second time, and the *)
(* TRY has the exception.                                                  *)
LEMMA LandedSound ==
  ASSUME NEW r, SoundTry(r), NEW code \in Code
  PROVE  SoundTry(Landed(r, code)) /\ Landed(r, code).thrown = code
<1> DEFINE again == IF "CAUGHT" \in r.state
                    THEN (r.state \ {"CAUGHT"}) \cup {"RETHROWN"} ELSE r.state
           s == [r EXCEPT !.state = again, !.exc = TRUE, !.thrown = code, !.handled = FALSE]
<1>1. code # None /\ r \in TryFields
  BY ExceptAssumption DEF None, SoundTry
<1>2. /\ again \in SUBSET {"CAUGHT", "RETHROWN", "FINALLY"} /\ "CAUGHT" \notin again
      /\ "FINALLY" \in again <=> "FINALLY" \in r.state
      /\ "RETHROWN" \in again <=> "CAUGHT" \in r.state \/ "RETHROWN" \in r.state
      /\ again = {} => r.state = {}
  BY <1>1 DEF TryFields
<1>3. /\ s \in TryFields /\ s.state = again /\ s.exc = TRUE /\ s.thrown = code
      /\ s.handled = FALSE /\ s.caughts = r.caughts /\ s.finallys = r.finallys
      /\ s.caughts \in Nat /\ s.finallys \in Nat
  <2> HIDE DEF again
  <2> QED
    BY <1>1, <1>2 DEF TryFields
<1>4. Landed(r, code)
        = IF again = {} /\ s.obj.code \in s.catches
          THEN [s EXCEPT !.at = "catch", !.state = {"CAUGHT"}, !.handled = TRUE, !.caughts = @ + 1]
          ELSE AfterCatch(s)
  BY DEF Landed
<1> HIDE DEF again, s
<1>5. Counted(s)
  BY <1>1, <1>2, <1>3 DEF SoundTry, Counted
<1>6. CASE again = {} /\ s.obj.code \in s.catches
  <2> DEFINE f == Landed(r, code)
  <2>1. f = [s EXCEPT !.at = "catch", !.state = {"CAUGHT"}, !.handled = TRUE,
                      !.caughts = s.caughts + 1, !.finallys = s.finallys]
    BY <1>3, <1>4, <1>6 DEF TryFields
  <2> HIDE DEF f
  <2>2. {"CAUGHT"} \in SUBSET {"CAUGHT", "RETHROWN", "FINALLY"} /\ s.caughts + 1 \in Nat
    BY <1>3
  <2>3. /\ f \in TryFields /\ f.at = "catch" /\ f.state = {"CAUGHT"} /\ f.handled = TRUE
        /\ f.caughts = s.caughts + 1 /\ f.finallys = s.finallys
        /\ f.exc = s.exc /\ f.thrown = s.thrown
    BY <1>3, <2>1, <2>2 DEF TryFields
  <2>4. s.caughts = 0 /\ s.finallys = 0
    BY <1>3, <1>5, <1>6 DEF Counted
  <2> QED
    BY <1>1, <1>3, <2>3, <2>4 DEF SoundTry, Counted, f
<1>7. CASE ~(again = {} /\ s.obj.code \in s.catches)
  BY <1>3, <1>4, <1>5, <1>7, AfterCatchSound
<1> QED
  BY <1>6, <1>7

(* What the catcher's except_obj holds then. *)
LEMMA ObjSound ==
  ASSUME NEW r, SoundTry(r), NEW obj \in ObjOf(r)
  PROVE  SoundTry([r EXCEPT !.obj = obj])
<1>1. obj \in ExceptId
  BY ExceptAssumption DEF ObjOf, SoundTry, TryFields, ExceptId
<1> QED
  BY <1>1 DEF SoundTry, TryFields, Counted

---------------------------------------------------------------------------
(***************************************************************************)
(* do_throw.                                                               *)
(***************************************************************************)

(* A throw over a sound stack ends in a TRY: the regions above it are      *)
(* cleanups, which are called, and the TRY gets the exception.             *)
LEMMA ThrowLands ==
  ASSUME NEW rs \in Seq(Region), SoundRegions(rs), Len(rs) <= MaxDepth,
         NEW st, st = [d \in 1 .. Len(rs) |-> d],
         owed \in [1 .. MaxDepth -> Int], Owes(owed, rs),
         NEW id \in ExceptId, NEW code \in Code,
         DoThrow(rs, st, id, code), ~aborted, ~aborted'
  PROVE  \E k \in 1 .. Len(rs), r \in Region :
           /\ rs[k] # Cleanup
           /\ \A j \in k + 1 .. Len(rs) : rs[j] = Cleanup
           /\ SoundTry(r) /\ r.thrown = code
           /\ regions' = Append(SubSeq(rs, 1, k - 1), r)
           /\ stack' = [d \in 1 .. k |-> d]
           /\ owed' \in [1 .. MaxDepth -> Int]
           /\ Owes(owed', regions')
<1> DEFINE n == Len(rs)
           hits == {k \in DOMAIN st : rs[st[k]].kind = "try" /\ Matches(id)}
           k == Max(hits)
<1>1. n \in Nat /\ DOMAIN st = 1 .. n /\ \A d \in 1 .. n : st[d] = d
  OBVIOUS
<1>2. /\ hits # {}
      /\ CallCleanups(rs, st, k + 1)
      /\ stack' = Unwound(st, k)
      /\ \E obj \in ObjOf(rs[st[k]]) :
            regions' = Append(SubSeq(rs, 1, st[k] - 1), Landed([rs[st[k]] EXCEPT !.obj = obj], code))
  BY DEF DoThrow, Abort
<1>3. Matches(id)
  BY <1>2
<1>4. \A d \in 1 .. n : d \in hits <=> rs[d].kind = "try"
  BY <1>1, <1>3
<1>5. k \in hits /\ \A d \in hits : d <= k
  <2>1. hits \in SUBSET (1 .. n)
    BY <1>1
  <2> HIDE DEF hits
  <2> QED
    BY <1>1, <1>2, <2>1, GreatestExists
<1>6. k \in 1 .. n /\ st[k] = k /\ rs[k].kind = "try"
  BY <1>1, <1>4, <1>5
<1> HIDE DEF hits, k
<1>7. Cleanup.kind = "cleanup"
  BY DEF Cleanup
<1>8. rs[k] # Cleanup /\ SoundTry(rs[k])
  BY <1>6, <1>7 DEF SoundRegions
<1>9. \A j \in k + 1 .. n : rs[j] = Cleanup
  <2> SUFFICES ASSUME NEW j \in k + 1 .. n, rs[j] # Cleanup PROVE FALSE
    OBVIOUS
  <2>1. j \in 1 .. n /\ j > k
    BY <1>1, <1>6
  <2>2. SoundTry(rs[j])
    BY <2>1 DEF SoundRegions
  <2>3. j \in hits
    BY <1>4, <2>1, <2>2, CleanupIsNoTry
  <2> QED
    BY <1>5, <1>6, <2>1, <2>3
<1>10. PICK obj \in ObjOf(rs[k]) :
         regions' = Append(SubSeq(rs, 1, k - 1), Landed([rs[k] EXCEPT !.obj = obj], code))
  BY <1>2, <1>6
<1> DEFINE r == Landed([rs[k] EXCEPT !.obj = obj], code)
<1>11. SoundTry(r) /\ r.thrown = code
  BY <1>8, <1>10, ObjSound, LandedSound
<1> HIDE DEF r
<1>12. stack' = [d \in 1 .. k |-> d]
  BY <1>1, <1>2, <1>6 DEF Unwound
<1>13. /\ regions' = Append(SubSeq(rs, 1, k - 1), r)
       /\ Len(regions') = k /\ regions'[k] = r
       /\ \A d \in 1 .. k - 1 : regions'[d] = rs[d]
  BY <1>1, <1>6, <1>10 DEF r
<1>14. owed' = [d \in 1 .. MaxDepth |->
                  IF d \in k + 1 .. n /\ rs[d].kind = "cleanup" THEN owed[d] - 1 ELSE owed[d]]
  <2> DEFINE called == {st[i] : i \in {i \in k + 1 .. Len(st) : rs[st[i]].kind = "cleanup"}}
  <2>1. Len(st) = n
    BY <1>1
  <2>2. \A d : d \in called <=> d \in k + 1 .. n /\ rs[d].kind = "cleanup"
    BY <1>1, <1>6, <2>1
  <2> QED
    BY <1>2, <2>2 DEF CallCleanups
<1>15. Owes(owed', regions')
  <2> SUFFICES ASSUME NEW d \in 1 .. MaxDepth
               PROVE  owed'[d] = IF d <= k /\ regions'[d].kind = "cleanup" THEN 1 ELSE 0
    BY <1>13 DEF Owes
  <2>1. owed[d] = IF d <= n /\ rs[d].kind = "cleanup" THEN 1 ELSE 0
    BY DEF Owes
  <2>2. CASE d < k
    BY <1>1, <1>6, <1>13, <1>14, <2>1, <2>2
  <2>3. CASE d = k
    <3>1. r.kind = "try"
      BY <1>11, CleanupIsNoTry
    <3> QED
      BY <1>1, <1>6, <1>13, <1>14, <2>1, <2>3, <3>1
  <2>4. CASE d > k
    BY <1>1, <1>6, <1>7, <1>9, <1>13, <1>14, <2>1, <2>4
  <2> QED
    BY <1>1, <1>6, <2>2, <2>3, <2>4, ExceptAssumption
<1>16. owed' \in [1 .. MaxDepth -> Int]
  BY <1>14
<1> QED
  <2>1. r \in Region
    BY <1>11 DEF SoundTry, Region
  <2> QED
    BY <1>6, <1>8, <1>9, <1>11, <1>12, <1>13, <1>15, <1>16, <2>1

(* A throw keeps the invariant, whether it lands or ends the program. *)
LEMMA ExceptThrowKeeps ==
  ASSUME ExceptIInv, ~aborted,
         NEW rs \in Seq(Region), SoundRegions(rs), Len(rs) <= MaxDepth,
         NEW st, st = [d \in 1 .. Len(rs) |-> d], Owes(owed, rs),
         NEW id \in ExceptId, NEW code \in Code,
         DoThrow(rs, st, id, code)
  PROVE  ExceptIInv'
<1>1. CASE aborted'
  <2>1. /\ UNCHANGED regions
        /\ UNCHANGED stack \/ stack' = << >>
        /\ UNCHANGED owed \/ CallCleanups(rs, st, 1)
    BY <1>1 DEF DoThrow, Abort
  <2>2. owed' \in [1 .. MaxDepth -> Int]
    <3>1. CASE UNCHANGED owed
      BY <3>1 DEF ExceptIInv
    <3>2. CASE CallCleanups(rs, st, 1)
      <4> DEFINE called == {st[i] : i \in {i \in 1 .. Len(st) : rs[st[i]].kind = "cleanup"}}
      <4>1. owed' = [d \in 1 .. MaxDepth |-> IF d \in called THEN owed[d] - 1 ELSE owed[d]]
        BY <3>2 DEF CallCleanups
      <4> HIDE DEF called
      <4> QED
        BY <4>1 DEF ExceptIInv
    <3> QED
      BY <2>1, <3>1, <3>2
  <2>3. stack' \in Seq(1 .. MaxDepth)
    <3>1. << >> \in Seq(1 .. MaxDepth) /\ stack \in Seq(1 .. MaxDepth)
      BY DEF ExceptIInv
    <3> QED
      BY <2>1, <3>1
  <2> QED
    BY <1>1, <2>1, <2>2, <2>3 DEF ExceptIInv, Depth
<1>2. CASE ~aborted'
  <2>1. PICK k \in 1 .. Len(rs), r \in Region :
          /\ rs[k] # Cleanup
          /\ \A j \in k + 1 .. Len(rs) : rs[j] = Cleanup
          /\ SoundTry(r) /\ r.thrown = code
          /\ regions' = Append(SubSeq(rs, 1, k - 1), r)
          /\ stack' = [d \in 1 .. k |-> d]
          /\ owed' \in [1 .. MaxDepth -> Int]
          /\ Owes(owed', regions')
    BY <1>2, ThrowLands DEF ExceptIInv
  <2>2. /\ r \in Region /\ k \in Nat /\ k <= MaxDepth
        /\ SubSeq(rs, 1, k - 1) \in Seq(Region) /\ Len(SubSeq(rs, 1, k - 1)) = k - 1
        /\ \A d \in 1 .. k - 1 : SubSeq(rs, 1, k - 1)[d] = rs[d]
    BY <2>1, ExceptAssumption DEF SoundTry, Region
  <2>3. /\ regions' \in Seq(Region) /\ Len(regions') = k
        /\ regions'[k] = r /\ \A d \in 1 .. k - 1 : regions'[d] = rs[d]
    BY <2>1, <2>2
  <2>4. SoundRegions(regions')
    <3> SUFFICES ASSUME NEW d \in 1 .. k PROVE regions'[d] = Cleanup \/ SoundTry(regions'[d])
      BY <2>3 DEF SoundRegions
    <3>1. CASE d = k
      BY <2>1, <2>3, <3>1
    <3>2. CASE d # k
      <4>1. d \in 1 .. k - 1 /\ d \in DOMAIN rs
        BY <2>1, <2>2, <3>2
      <4> QED
        BY <2>3, <4>1 DEF SoundRegions
    <3> QED
      BY <3>1, <3>2
  <2>5. stack' \in Seq(1 .. MaxDepth)
    <3>1. k \in 0 .. MaxDepth
      BY <2>2, ExceptAssumption
    <3> QED
      BY <2>1, <3>1, CountUp
  <2>6. stack' = [d \in 1 .. Len(regions') |-> d]
    BY <2>1, <2>3
  <2>7. UNCHANGED aborted
    BY <1>2 DEF DoThrow, Abort
  <2> QED
    BY <2>1, <2>2, <2>3, <2>4, <2>5, <2>6, <2>7 DEF ExceptIInv, Depth
<1> QED
  BY <1>1, <1>2

---------------------------------------------------------------------------
(***************************************************************************)
(* The inductive invariant.                                                *)
(***************************************************************************)

(* The innermost region and those around it. *)
LEMMA InnerAndOuter ==
  ASSUME ExceptIInv, regions # << >>
  PROVE  /\ Depth \in 1 .. MaxDepth /\ Inner = regions[Depth]
         /\ Inner = Cleanup \/ SoundTry(Inner)
         /\ Front(regions) \in Seq(Region) /\ Len(Front(regions)) = Depth - 1
         /\ \A d \in 1 .. Depth - 1 : Front(regions)[d] = regions[d]
         /\ SoundRegions(Front(regions))
<1>1. Depth \in 1 .. MaxDepth /\ Inner = regions[Depth]
  BY ExceptAssumption DEF ExceptIInv, Depth, Inner
<1>2. Inner = Cleanup \/ SoundTry(Inner)
  BY <1>1 DEF ExceptIInv, SoundRegions, Depth
<1>3. /\ Front(regions) \in Seq(Region) /\ Len(Front(regions)) = Depth - 1
      /\ \A d \in 1 .. Depth - 1 : Front(regions)[d] = regions[d]
  BY FrontOf DEF ExceptIInv, Depth
<1>4. SoundRegions(Front(regions))
  BY <1>1, <1>3, SMTT(30) DEF ExceptIInv, SoundRegions, Depth
<1> QED
  BY <1>1, <1>2, <1>3, <1>4

(* A region is entered: TRY and CLEANUP_PUSH. *)
LEMMA EnteringKeeps ==
  ASSUME ExceptIInv, ~aborted, UNCHANGED aborted, Depth < MaxDepth,
         NEW r, r = Cleanup \/ SoundTry(r),
         regions' = Append(regions, r), stack' = Append(stack, Depth + 1),
         owed' = IF r = Cleanup THEN [owed EXCEPT ![Depth + 1] = @ + 1] ELSE owed
  PROVE  ExceptIInv'
<1>1. /\ Depth \in Nat /\ r \in Region /\ Depth + 1 \in 1 .. MaxDepth
      /\ Len(regions) = Depth /\ regions \in Seq(Region)
  BY ExceptAssumption DEF ExceptIInv, Region, SoundTry, Depth
<1>2. /\ regions' \in Seq(Region) /\ Len(regions') = Depth + 1
      /\ regions'[Depth + 1] = r /\ \A d \in 1 .. Depth : regions'[d] = regions[d]
  BY <1>1
<1>3. SoundRegions(regions')
  BY <1>1, <1>2 DEF ExceptIInv, SoundRegions
<1>4. /\ stack' \in Seq(1 .. MaxDepth)
      /\ stack' = [d \in 1 .. Len(regions') |-> d]
  BY <1>1, <1>2 DEF ExceptIInv
<1>5. owed' \in [1 .. MaxDepth -> Int]
  BY <1>1 DEF ExceptIInv
<1>6. r.kind = "cleanup" <=> r = Cleanup
  BY CleanupIsNoTry DEF Cleanup
<1>7. Owes(owed', regions')
  <2> SUFFICES ASSUME NEW d \in 1 .. MaxDepth
               PROVE owed'[d] = IF d <= Len(regions') /\ regions'[d].kind = "cleanup" THEN 1 ELSE 0
    BY DEF Owes
  <2>1. owed[d] = IF d <= Depth /\ regions[d].kind = "cleanup" THEN 1 ELSE 0
    BY <1>1 DEF ExceptIInv, Owes
  <2>2. CASE d = Depth + 1
    BY <1>1, <1>2, <1>6, <2>1, <2>2 DEF ExceptIInv
  <2>3. CASE d # Depth + 1
    <3>1. owed'[d] = owed[d]
      BY <1>1, <2>3 DEF ExceptIInv
    <3> QED
      BY <1>1, <1>2, <2>1, <2>3, <3>1
  <2> QED
    BY <2>2, <2>3
<1> QED
  BY <1>1, <1>2, <1>3, <1>4, <1>5, <1>7 DEF ExceptIInv, Depth

(* The innermost region goes normally: CLEANUP_POP and ENDTRY. *)
LEMMA LeavingKeeps ==
  ASSUME ExceptIInv, ~aborted, UNCHANGED aborted, regions # << >>,
         regions' = Front(regions), stack' = Front(stack),
         owed' = IF Inner = Cleanup THEN [owed EXCEPT ![Depth] = @ - 1] ELSE owed
  PROVE  ExceptIInv'
<1>1. /\ Depth \in 1 .. MaxDepth /\ Inner = regions[Depth] /\ Len(regions) = Depth
      /\ Inner = Cleanup \/ SoundTry(Inner)
      /\ regions' \in Seq(Region) /\ Len(regions') = Depth - 1
      /\ \A d \in 1 .. Depth - 1 : regions'[d] = regions[d]
      /\ SoundRegions(regions')
  BY InnerAndOuter DEF Depth
<1>2. /\ stack' \in Seq(1 .. MaxDepth)
      /\ stack' = [d \in 1 .. Len(regions') |-> d]
  <2>1. stack \in Seq(1 .. MaxDepth) /\ Len(stack) = Depth /\ \A d \in 1 .. Depth : stack[d] = d
    BY <1>1, CountUp DEF ExceptIInv
  <2>2. /\ stack' \in Seq(1 .. MaxDepth) /\ Len(stack') = Depth - 1
        /\ \A d \in 1 .. Depth - 1 : stack'[d] = stack[d]
    BY <1>1, <2>1, FrontOf
  <2> QED
    BY <1>1, <2>1, <2>2
<1>3. owed' \in [1 .. MaxDepth -> Int]
  BY <1>1 DEF ExceptIInv
<1>4. Inner.kind = "cleanup" <=> Inner = Cleanup
  BY <1>1, CleanupIsNoTry DEF Cleanup
<1>5. Owes(owed', regions')
  <2> SUFFICES ASSUME NEW d \in 1 .. MaxDepth
               PROVE owed'[d] = IF d <= Len(regions') /\ regions'[d].kind = "cleanup" THEN 1 ELSE 0
    BY DEF Owes
  <2>1. owed[d] = IF d <= Depth /\ regions[d].kind = "cleanup" THEN 1 ELSE 0
    BY <1>1 DEF ExceptIInv, Owes
  <2>2. CASE d = Depth
    BY <1>1, <1>4, <2>1, <2>2 DEF ExceptIInv
  <2>3. CASE d # Depth
    <3>1. owed'[d] = owed[d]
      BY <1>1, <2>3 DEF ExceptIInv
    <3> QED
      BY <1>1, <2>1, <2>3, <3>1
  <2> QED
    BY <2>2, <2>3
<1>6. Depth - 1 <= MaxDepth
  BY <1>1, ExceptAssumption
<1> QED
  BY <1>1, <1>2, <1>3, <1>5, <1>6 DEF ExceptIInv, Depth

(* A TRY goes from block to block: the end of a block, and RETHROW. *)
LEMMA InnerChanges ==
  ASSUME ExceptIInv, ~aborted, regions # << >>, Inner.kind = "try",
         NEW r, SoundTry(r), regions' = Append(Front(regions), r),
         UNCHANGED <<stack, owed, aborted>>
  PROVE  ExceptIInv'
<1>1. /\ Depth \in 1 .. MaxDepth /\ Inner = regions[Depth] /\ Len(regions) = Depth
      /\ Front(regions) \in Seq(Region) /\ Len(Front(regions)) = Depth - 1
      /\ \A d \in 1 .. Depth - 1 : Front(regions)[d] = regions[d]
      /\ SoundRegions(Front(regions))
  BY InnerAndOuter DEF Depth
<1>2. r \in Region /\ r.kind = "try"
  BY CleanupIsNoTry DEF Region, SoundTry
<1>3. /\ regions' \in Seq(Region) /\ Len(regions') = Depth
      /\ regions'[Depth] = r /\ \A d \in 1 .. Depth - 1 : regions'[d] = regions[d]
  BY <1>1, <1>2
<1>4. SoundRegions(regions')
  BY <1>1, <1>3 DEF ExceptIInv, SoundRegions
<1>5. Owes(owed', regions')
  <2> SUFFICES ASSUME NEW d \in 1 .. MaxDepth
               PROVE owed[d] = IF d <= Len(regions') /\ regions'[d].kind = "cleanup" THEN 1 ELSE 0
    BY DEF Owes
  <2>1. owed[d] = IF d <= Depth /\ regions[d].kind = "cleanup" THEN 1 ELSE 0
    BY <1>1 DEF ExceptIInv, Owes
  <2>2. CASE d = Depth
    BY <1>1, <1>2, <1>3, <2>1, <2>2
  <2>3. CASE d # Depth
    BY <1>1, <1>3, <2>1, <2>3
  <2> QED
    BY <2>2, <2>3
<1>6. stack' = [d \in 1 .. Len(regions') |-> d]
  BY <1>1, <1>3 DEF ExceptIInv
<1> QED
  BY <1>1, <1>3, <1>4, <1>5, <1>6 DEF ExceptIInv, Depth

LEMMA InitHolds == ExceptInit => ExceptIInv
<1> SUFFICES ASSUME ExceptInit PROVE ExceptIInv
  OBVIOUS
<1>1. regions = << >> /\ stack = << >> /\ owed = [d \in 1 .. MaxDepth |-> 0] /\ aborted = FALSE
  BY DEF ExceptInit
<1>2. << >> \in Seq(Region) /\ << >> \in Seq(1 .. MaxDepth) /\ Len(<< >>) = 0
  OBVIOUS
<1>3. [d \in 1 .. 0 |-> d] = << >>
  OBVIOUS
<1>4. SoundRegions(<< >>) /\ Owes(owed, << >>)
  <2>1. \A d \in 1 .. MaxDepth : ~(d <= 0)
    BY ExceptAssumption
  <2> QED
    BY <1>1, <1>2, <2>1 DEF SoundRegions, Owes
<1>5. 0 <= MaxDepth
  BY ExceptAssumption
<1>6. Depth = 0 /\ [d \in 1 .. Depth |-> d] = << >> /\ owed \in [1 .. MaxDepth -> Int]
  BY <1>1, <1>2, <1>3 DEF Depth
<1> QED
  BY <1>1, <1>2, <1>4, <1>5, <1>6 DEF ExceptIInv

(* A TRY that passes its exception on at ENDTRY has one, and the stack     *)
(* below it is sound.                                                      *)
LEMMA PassingOn ==
  ASSUME ExceptIInv, EndTry, "CAUGHT" \notin Inner.state, Inner.exc
  PROVE  /\ SoundTry(Inner) /\ ~aborted /\ regions # << >>
         /\ Inner.obj \in ExceptId /\ Inner.thrown \in Code
         /\ Front(stack) = [d \in 1 .. Len(Front(regions)) |-> d]
         /\ Owes(owed, Front(regions))
         /\ Abort \/ DoThrow(Front(regions), Front(stack), Inner.obj, Inner.thrown)
<1>1. ~aborted /\ regions # << >> /\ Inner.at = "endtry"
  BY DEF EndTry
<1>2. Abort \/ DoThrow(Front(regions), Front(stack), Inner.obj, Inner.thrown)
  BY DEF EndTry
<1>3. SoundTry(Inner) /\ Inner.kind = "try"
  <2>1. Inner # Cleanup
    BY <1>1 DEF Cleanup
  <2> QED
    BY <1>1, <2>1, InnerAndOuter, CleanupIsNoTry
<1>4. Inner.obj \in ExceptId /\ Inner.thrown \in Code
  BY <1>3 DEF SoundTry, TryFields, Counted
<1>5. /\ Depth \in 1 .. MaxDepth /\ Len(regions) = Depth /\ Inner = regions[Depth]
      /\ Len(Front(regions)) = Depth - 1
      /\ \A d \in 1 .. Depth - 1 : Front(regions)[d] = regions[d]
  BY <1>1, InnerAndOuter DEF Depth
<1>6. Front(stack) = [d \in 1 .. Len(Front(regions)) |-> d]
  <2>1. stack \in Seq(1 .. MaxDepth) /\ Len(stack) = Depth /\ \A d \in 1 .. Depth : stack[d] = d
    BY <1>1, <1>5, CountUp DEF ExceptIInv
  <2>2. /\ Front(stack) \in Seq(1 .. MaxDepth) /\ Len(Front(stack)) = Depth - 1
        /\ \A d \in 1 .. Depth - 1 : Front(stack)[d] = stack[d]
    BY <1>5, <2>1, FrontOf
  <2> QED
    BY <1>5, <2>1, <2>2
<1>7. Owes(owed, Front(regions))
  <2> SUFFICES ASSUME NEW d \in 1 .. MaxDepth
               PROVE owed[d] = IF d <= Len(Front(regions)) /\ Front(regions)[d].kind = "cleanup"
                               THEN 1 ELSE 0
    BY DEF Owes
  <2>1. owed[d] = IF d <= Depth /\ regions[d].kind = "cleanup" THEN 1 ELSE 0
    BY <1>1, <1>5 DEF ExceptIInv, Owes
  <2>2. CASE d = Depth
    BY <1>3, <1>5, <2>1, <2>2
  <2>3. CASE d # Depth
    BY <1>5, <2>1, <2>3
  <2> QED
    BY <2>2, <2>3
<1> QED
  BY <1>1, <1>2, <1>3, <1>4, <1>6, <1>7

LEMMA ExceptStepKeeps == ExceptIInv /\ [ExceptNext]_exceptVars => ExceptIInv'
<1> SUFFICES ASSUME ExceptIInv, [ExceptNext]_exceptVars PROVE ExceptIInv'
  OBVIOUS
<1>1. ASSUME NEW catches \in CatchLists, NEW finally \in BOOLEAN, EnterTry(catches, finally)
      PROVE  ExceptIInv'
  <2>1. SoundTry(NewTry(catches, finally))
    BY NewTrySound
  <2>2. NewTry(catches, finally) # Cleanup
    BY <2>1, CleanupIsNoTry
  <2> QED
    BY <1>1, <2>1, <2>2, EnteringKeeps DEF EnterTry, InUserCode
<1>2. CASE CleanupPush
  BY <1>2, EnteringKeeps DEF CleanupPush, InUserCode
<1>3. CASE CleanupPop
  <2>1. Inner = Cleanup
    BY <1>3, InnerAndOuter, CleanupIsNoTry DEF CleanupPop
  <2> QED
    BY <1>3, <2>1, LeavingKeeps DEF CleanupPop, InUserCode
<1>4. ASSUME NEW code \in Code, THROW(code) PROVE ExceptIInv'
  <2> DEFINE id == [group |-> Wireshark, code |-> code]
  <2>1. id \in ExceptId
    BY DEF ExceptId, Wireshark
  <2>2. DoThrow(regions, stack, id, code) /\ ~aborted
    BY <1>4 DEF THROW, InUserCode
  <2>3. /\ regions \in Seq(Region) /\ SoundRegions(regions) /\ Len(regions) <= MaxDepth
        /\ stack = [d \in 1 .. Len(regions) |-> d] /\ Owes(owed, regions)
    BY <2>2 DEF ExceptIInv, Depth
  <2> HIDE DEF id
  <2> QED
    BY <2>1, <2>2, <2>3, ExceptThrowKeeps
<1>5. CASE Rethrow
  <2>1. regions # << >> /\ ~aborted /\ Inner.at = "catch"
    BY <1>5 DEF Rethrow, InUserCode
  <2>2. CASE Inner.state = {"CAUGHT"}
    <3>1. Inner # Cleanup
      BY <2>1 DEF Cleanup
    <3>2. SoundTry(Inner) /\ Inner.kind = "try"
      BY <2>1, <3>1, InnerAndOuter, CleanupIsNoTry
    <3>3. Inner.thrown \in Code
      BY <2>2, <3>2 DEF SoundTry, Counted, TryFields
    <3> QED
      BY <1>5, <2>1, <2>2, <3>2, <3>3, LandedSound, InnerChanges DEF Rethrow
  <2>3. CASE Abort
    BY <2>3 DEF Abort, ExceptIInv, Depth
  <2> QED
    BY <1>5, <2>2, <2>3 DEF Rethrow
<1>6. CASE BlockEnd
  <2>1. regions # << >> /\ ~aborted /\ Inner.kind = "try"
    BY <1>6 DEF BlockEnd, InUserCode
  <2>2. SoundTry(Inner)
    BY <2>1, InnerAndOuter DEF Cleanup
  <2>3. SoundTry(AfterCatch(Inner))
    BY <2>2, AfterCatchSound DEF SoundTry
  <2> QED
    BY <1>6, <2>1, <2>3, InnerChanges DEF BlockEnd
<1>7. CASE EndTry
  <2>1. CASE "CAUGHT" \notin Inner.state /\ Inner.exc
    <3>1. CASE Abort
      BY <3>1 DEF Abort, ExceptIInv, Depth
    <3>2. CASE DoThrow(Front(regions), Front(stack), Inner.obj, Inner.thrown)
      <4>1. /\ Front(regions) \in Seq(Region) /\ SoundRegions(Front(regions))
            /\ Len(Front(regions)) <= MaxDepth
        BY <1>7, <2>1, PassingOn, InnerAndOuter, ExceptAssumption
      <4> QED
        BY <1>7, <2>1, <3>2, <4>1, PassingOn, ExceptThrowKeeps
    <3> QED
      BY <1>7, <2>1, <3>1, <3>2, PassingOn
  <2>2. CASE ~("CAUGHT" \notin Inner.state /\ Inner.exc)
    <3>1. /\ regions # << >> /\ ~aborted /\ Inner # Cleanup
          /\ regions' = Front(regions) /\ stack' = Front(stack)
          /\ UNCHANGED <<owed, aborted>>
      BY <1>7, <2>2 DEF EndTry, Cleanup
    <3> QED
      BY <3>1, LeavingKeeps
  <2> QED
    BY <2>1, <2>2
<1>8. CASE UNCHANGED exceptVars
  BY <1>8 DEF exceptVars, ExceptIInv, Depth
<1> QED
  BY <1>1, <1>2, <1>3, <1>4, <1>5, <1>6, <1>7, <1>8 DEF ExceptNext

LEMMA ExceptInvariant == ExceptSpec => []ExceptIInv
BY InitHolds, ExceptStepKeeps, PTL DEF ExceptSpec

---------------------------------------------------------------------------
(***************************************************************************)
(* What follows.                                                           *)
(***************************************************************************)

LEMMA InvariantSuffices == ExceptIInv => StackAndCleanupsExact /\ BlocksOnce
<1> SUFFICES ASSUME ExceptIInv PROVE StackAndCleanupsExact /\ BlocksOnce
  OBVIOUS
<1>1. ASSUME NEW r, SoundTry(r) PROVE IsTry(r) /\ r.caughts <= 1 /\ r.finallys <= 1
  BY <1>1 DEF SoundTry, TryFields, Counted, IsTry
<1>2. \A d \in 1 .. Depth : regions[d] = Cleanup \/ SoundTry(regions[d])
  BY DEF ExceptIInv, SoundRegions, Depth
<1>3. TypeOK
  BY <1>1, <1>2 DEF TypeOK, ExceptIInv
<1>4. StackExact /\ CleanupsExact
  BY DEF StackExact, CleanupsExact, ExceptIInv, Owes, Depth
<1>5. BlocksOnce
  BY <1>1, <1>2 DEF BlocksOnce, Cleanup
<1> QED
  BY <1>3, <1>4, <1>5 DEF StackAndCleanupsExact

(* Whatever mixture of throws, nested handlers and normal ends: the stack  *)
(* of except.c leads to the regions the program is in, and no cleanup is   *)
(* lost or called twice.                                                   *)
THEOREM Safety == ExceptSpec => []StackAndCleanupsExact
BY ExceptInvariant, InvariantSuffices, PTL

(* No TRY enters its CATCH blocks or its FINALLY block twice, whatever     *)
(* they throw.                                                             *)
THEOREM BlocksEnteredOnce == ExceptSpec => []BlocksOnce
BY ExceptInvariant, InvariantSuffices, PTL

(* A throw leaves no TRY behind but the one that passes it on. *)
LEMMA ThrowLeaves ==
  ASSUME ExceptIInv, ~aborted, ~aborted',
         NEW rs \in Seq(Region), SoundRegions(rs), Len(rs) <= MaxDepth,
         NEW st, st = [d \in 1 .. Len(rs) |-> d], Owes(owed, rs),
         \A d \in 1 .. Len(rs) : rs[d] = regions[d],
         NEW id \in ExceptId, NEW code \in Code,
         DoThrow(rs, st, id, code)
  PROVE  /\ \A d \in Left : d > Len(rs)
         /\ regions' # << >> /\ Last(regions').kind = "try" /\ Last(regions').thrown = code
<1>1. PICK k \in 1 .. Len(rs), r \in Region :
        /\ rs[k] # Cleanup
        /\ \A j \in k + 1 .. Len(rs) : rs[j] = Cleanup
        /\ SoundTry(r) /\ r.thrown = code
        /\ regions' = Append(SubSeq(rs, 1, k - 1), r)
        /\ stack' = [d \in 1 .. k |-> d]
        /\ owed' \in [1 .. MaxDepth -> Int]
        /\ Owes(owed', regions')
  BY ThrowLands DEF ExceptIInv
<1>2. /\ r \in Region /\ k \in Nat
      /\ SubSeq(rs, 1, k - 1) \in Seq(Region) /\ Len(SubSeq(rs, 1, k - 1)) = k - 1
  BY <1>1 DEF SoundTry, Region
<1>3. Len(regions') = k /\ DOMAIN regions' = 1 .. k /\ regions'[k] = r /\ regions' # << >>
  <2>1. regions' \in Seq(Region) /\ Len(regions') = k /\ regions'[k] = r
    BY <1>1, <1>2
  <2>2. DOMAIN regions' = 1 .. k
    BY <2>1
  <2>3. Len(regions') >= 1
    BY <1>1, <1>2, <2>1
  <2>4. regions' # << >>
    BY <2>3
  <2> QED
    BY <2>1, <2>2, <2>4
<1>4. Last(regions') = r
  BY <1>3 DEF Last
<1>5. ASSUME NEW d \in Left, d <= Len(rs) PROVE FALSE
  <2>1. d \in 1 .. Depth /\ regions[d].kind = "try" /\ d \notin 1 .. k
    BY <1>3, <1>5 DEF Left
  <2>2. d \in Nat /\ d >= 1 /\ d > k /\ d \in k + 1 .. Len(rs)
    BY <1>1, <1>5, <2>1 DEF Depth
  <2> QED
    BY <1>1, <2>1, <2>2 DEF Cleanup
<1>6. \A d \in Left : d > Len(rs)
  <2>1. \A d \in Left : d \in Nat
    BY DEF Left, Depth
  <2> QED
    BY <1>1, <1>5, <2>1
<1> QED
  BY <1>1, <1>3, <1>4, <1>6, CleanupIsNoTry

(* Which TRY a step leaves: none, or the innermost one, at its ENDTRY; if  *)
(* it does not pass its exception on, it has none or has caught it.        *)
LEMMA LeavesInner ==
  ASSUME ExceptIInv, [ExceptNext]_exceptVars, ~aborted', NEW d \in Left
  PROVE  /\ SoundTry(regions[d]) /\ regions[d].at = "endtry"
         /\ \/ ~regions[d].exc \/ "CAUGHT" \in regions[d].state
            \/ /\ regions' # << >> /\ Last(regions').kind = "try"
               /\ Last(regions').thrown = regions[d].thrown
<1>1. /\ d \in 1 .. Depth /\ d \in Nat /\ regions[d].kind = "try" /\ d \notin DOMAIN regions'
      /\ Len(regions) \in Nat /\ DOMAIN regions = 1 .. Depth
  BY DEF Left, Depth, ExceptIInv
<1>2. regions # << >>
  BY <1>1 DEF Depth
<1>3. /\ Depth \in 1 .. MaxDepth /\ Len(regions) = Depth /\ Inner = regions[Depth]
      /\ Front(regions) \in Seq(Region) /\ Len(Front(regions)) = Depth - 1
      /\ \A i \in 1 .. Depth - 1 : Front(regions)[i] = regions[i]
      /\ SoundRegions(Front(regions))
      /\ Inner = Cleanup \/ SoundTry(Inner)
  BY <1>2, InnerAndOuter DEF Depth
<1>4. regions' # regions
  BY <1>1
<1>5. ASSUME NEW r, regions' = Append(regions, r) PROVE FALSE
  <2>1. regions \in Seq(Region)
    BY DEF ExceptIInv
  <2>2. DOMAIN regions' = 1 .. Depth + 1
    BY <1>3, <1>5, <2>1
  <2> QED
    BY <1>1, <1>3, <2>2
<1>6. ASSUME NEW r, regions' = Append(Front(regions), r) PROVE FALSE
  <2>1. DOMAIN regions' = 1 .. Depth
    BY <1>3, <1>6
  <2> QED
    BY <1>1, <2>1
<1>7. ASSUME regions' = Front(regions) PROVE d = Depth
  <2>1. DOMAIN regions' = 1 .. Depth - 1
    BY <1>3, <1>7
  <2> QED
    BY <1>1, <1>3, <2>1
<1>8. ~CleanupPop
  <2> SUFFICES ASSUME CleanupPop PROVE FALSE
    OBVIOUS
  <2>1. d = Depth /\ Inner.kind = "cleanup"
    BY <1>7 DEF CleanupPop
  <2> QED
    BY <1>1, <1>3, <2>1
<1>9. ASSUME NEW code \in Code, THROW(code) PROVE FALSE
  <2> DEFINE id == [group |-> Wireshark, code |-> code]
  <2>1. id \in ExceptId
    BY DEF ExceptId, Wireshark
  <2>2. DoThrow(regions, stack, id, code) /\ ~aborted
    BY <1>9 DEF THROW, InUserCode
  <2>3. /\ regions \in Seq(Region) /\ SoundRegions(regions) /\ Len(regions) <= MaxDepth
        /\ stack = [i \in 1 .. Len(regions) |-> i] /\ Owes(owed, regions)
    BY <2>2 DEF ExceptIInv, Depth
  <2> HIDE DEF id
  <2>4. \A i \in Left : i > Len(regions)
    BY <2>1, <2>2, <2>3, ThrowLeaves
  <2> QED
    BY <1>1, <1>3, <2>4
<1>10. EndTry
  BY <1>4, <1>5, <1>6, <1>8, <1>9
     DEF ExceptNext, EnterTry, CleanupPush, Rethrow, BlockEnd, Abort, exceptVars
<1>11. Inner.at = "endtry" /\ SoundTry(Inner)
  BY <1>3, <1>10 DEF EndTry, Cleanup
<1>12. CASE "CAUGHT" \notin Inner.state /\ Inner.exc
  <2>1. DoThrow(Front(regions), Front(stack), Inner.obj, Inner.thrown)
    BY <1>4, <1>10, <1>12, PassingOn DEF Abort
  <2>2. Len(Front(regions)) <= MaxDepth
    BY <1>3, ExceptAssumption
  <2>3. /\ \A i \in Left : i > Depth - 1
        /\ regions' # << >> /\ Last(regions').kind = "try"
        /\ Last(regions').thrown = Inner.thrown
    BY <1>3, <1>10, <1>12, <2>1, <2>2, PassingOn, ThrowLeaves
  <2>4. d = Depth
    BY <1>1, <1>3, <2>3
  <2> QED
    BY <1>3, <1>11, <2>3, <2>4
<1>13. CASE ~("CAUGHT" \notin Inner.state /\ Inner.exc)
  <2>1. d = Depth
    BY <1>7, <1>10, <1>13 DEF EndTry
  <2> QED
    BY <1>3, <1>11, <1>13, <2>1
<1> QED
  BY <1>12, <1>13

(* A TRY with a FINALLY is only left after its FINALLY block was entered.  *)
THEOREM FinallyAlwaysRuns == ExceptSpec => FinallyBeforeLeaving
<1>1. ExceptIInv /\ [ExceptNext]_exceptVars => LeavesNoFinally
  <2> SUFFICES ASSUME ExceptIInv, [ExceptNext]_exceptVars, ~aborted', NEW d \in Left, regions[d].finally
               PROVE  regions[d].finallys = 1
    BY DEF LeavesNoFinally
  <2>1. SoundTry(regions[d]) /\ regions[d].at = "endtry"
    BY LeavesInner
  <2> QED
    BY <2>1 DEF SoundTry, Counted
<1>2. ExceptIInv /\ [ExceptNext]_exceptVars => [LeavesNoFinally]_exceptVars
  BY <1>1
<1> QED
  BY <1>2, ExceptInvariant, PTL DEF ExceptSpec, FinallyBeforeLeaving

(* An exception that no CATCH block of a TRY was entered for goes on to an *)
(* enclosing TRY, whatever the TRY's blocks did before it was left.        *)
THEOREM NoneIsSwallowed == ExceptSpec => NothingSwallowed
<1>1. ExceptIInv /\ [ExceptNext]_exceptVars => PassesOn
  <2> SUFFICES ASSUME ExceptIInv, [ExceptNext]_exceptVars, ~aborted', NEW d \in Left,
                      regions[d].thrown # None, ~regions[d].handled
               PROVE  /\ regions' # << >> /\ Last(regions').kind = "try"
                      /\ Last(regions').thrown = regions[d].thrown
    BY DEF PassesOn
  <2>1. SoundTry(regions[d])
    BY LeavesInner
  <2>2. regions[d].exc /\ "CAUGHT" \notin regions[d].state
    BY <2>1 DEF SoundTry, Counted
  <2> QED
    BY <2>2, LeavesInner
<1>2. ExceptIInv /\ [ExceptNext]_exceptVars => [PassesOn]_exceptVars
  BY <1>1
<1> QED
  BY <1>2, ExceptInvariant, PTL DEF ExceptSpec, NothingSwallowed

=============================================================================
