-------------------------- MODULE DissectionProofs --------------------------
(***************************************************************************)
(* Proofs about what a dissection works on.                                *)
(*                                                                         *)
(* Tvbuff, for any number of tvbuffs, any width of integers and any data:  *)
(* lengths stay ordered, no access leaves the data, and chains are freed   *)
(* with the data their windows are on.                                     *)
(*                                                                         *)
(* ProtoTree, for any protocols and fields, limits and dissectors: what    *)
(* was primed is found, and the links of the tree stay right.              *)
(***************************************************************************)
EXTENDS Tvbuff, ProtoTree, FiniteSetTheorems, WellFoundedInduction, TLAPS

(* A tvbuff whose window is inside its data and whose lengths are ordered. *)
TvbFields ==
  [source : Tvbs, start : Nat, size : 0 .. MaxSize, length : Guint, reported : Guint,
   contained : Guint, fragment : BOOLEAN, foreign : BOOLEAN]

Sound(t) ==
  /\ t \in TvbFields
  /\ t.start + t.length <= t.size
  /\ t.length <= t.contained
  /\ t.contained <= t.reported

AllSound == \A id \in DOMAIN tvb : Sound(tvb[id])

(* What a check lets pass: the offset is in the window or at its end, the *)
(* length is meant, and it does not go beyond the end.                    *)
LEMMA CheckedInside ==
  ASSUME NEW t, Sound(t), NEW offset \in Gint, NEW length \in Gint,
         CheckOffsetLength(t, offset, length) = Ok
  PROVE  /\ Absolute(t, offset) \in 0 .. t.length
         /\ AbsoluteLength(t, offset, length) \in 0 .. t.length
         /\ Absolute(t, offset) + AbsoluteLength(t, offset, length) <= t.length
<1> DEFINE at == Absolute(t, offset)
           n == AbsoluteLength(t, offset, length)
<1>1. /\ t.length \in Nat /\ t.length <= MaxSize /\ Limit \in Nat /\ MaxSize <= Limit - 1
      /\ MaxSize \in Nat
  BY TvbuffAssumption DEF Sound, TvbFields, Guint
<1>2. OffsetError(t, offset) = Ok
  BY DEF CheckOffsetLength
<1>3. (IF offset < 0 THEN -offset ELSE offset) <= t.length
  BY <1>2 DEF OffsetError, ValidateOffset, Beyond, Ok
<1>4. at \in Nat /\ at <= t.length
  BY <1>1, <1>3 DEF Absolute, Gint
<1>5. length >= -1
  BY <1>2 DEF CheckOffsetLength, Ok, Gint
<1>6. n \in Nat /\ n <= Limit - 1
  BY <1>1, <1>4, <1>5 DEF AbsoluteLength, Gint
<1>7. Plus(at, n) <= t.length
  BY <1>2, <1>5 DEF CheckOffsetLength, ValidateOffset, Beyond, Ok
<1> HIDE DEF at, n
<1>8. at + n < 2 * Limit
  BY <1>1, <1>4, <1>6
<1>9. at + n <= t.length
  BY <1>7, <1>8 DEF Plus
<1>10. at \in 0 .. t.length /\ n \in 0 .. t.length
  BY <1>1, <1>4, <1>6, <1>9
<1> QED
  BY <1>9, <1>10 DEF at, n

(* The fast path takes no access the general one refuses, and the reverse. *)
LEMMA FastPathAgrees ==
  ASSUME NEW t, Sound(t), NEW offset \in Gint, NEW length \in 0 .. Simple
  PROVE  FastEnsureContiguous(t, offset, length) = Ok
           <=> CheckOffsetLength(t, offset, length) = Ok
<1>1. /\ t.length \in Guint /\ Limit \in Nat /\ Limit >= 1
      /\ Simple \in 0 .. Limit - 1 /\ length \in Gint
  BY TvbuffAssumption DEF Sound, TvbFields, Guint, Gint
<1>2. CASE offset < 0
  BY <1>2 DEF FastEnsureContiguous
<1>3. CASE offset >= 0
  <2>1. Absolute(t, offset) = offset /\ AbsoluteLength(t, offset, length) = length
    BY <1>1, <1>3 DEF Absolute, AbsoluteLength, Gint
  <2>2. Plus(offset, length) = offset + length
    BY <1>1, <1>3 DEF Plus, Gint
  <2>3. FastEnsureContiguous(t, offset, length) = Ok <=> offset + length <= t.length
    BY <1>1, <1>3, <2>2 DEF FastEnsureContiguous, ValidateOffset, Beyond, Ok, Gint
  <2>4. OffsetError(t, offset) = Ok <=> offset <= t.length
    BY <1>1, <1>3 DEF OffsetError, ValidateOffset, Beyond, Ok, Gint
  <2>5. CheckOffsetLength(t, offset, length) = Ok
          <=> offset <= t.length /\ offset + length <= t.length
    <3>1. ~(length < -1 \/ offset + length < offset)
      BY <1>1, <1>3 DEF Gint
    <3>2. ValidateOffset(t, offset + length) = Ok <=> offset + length <= t.length
      BY DEF ValidateOffset, Beyond, Ok
    <3> QED
      BY <2>1, <2>2, <2>4, <3>1, <3>2 DEF CheckOffsetLength
  <2> QED
    BY <1>1, <1>3, <2>3, <2>5 DEF Gint, Guint
<1> QED
  BY <1>1, <1>2, <1>3 DEF Gint

LEMMA HotPathAgrees ==
  ASSUME NEW t, Sound(t), NEW offset \in Gint, NEW length \in Gint, length >= 0
  PROVE  EnsureBytesExist(t, offset, length) = Ok
           <=> CheckOffsetLength(t, offset, length) = Ok
<1>1. AbsoluteLength(t, offset, length) = length
  BY TvbuffAssumption DEF AbsoluteLength, Gint
<1>2. ~(length < 0) /\ ~(length < -1)
  BY TvbuffAssumption DEF Gint
<1> QED
  BY <1>1, <1>2 DEF EnsureBytesExist, CheckOffsetLength

(* Windows that are inside give accesses that are inside. *)
LEMMA SoundSuffices ==
  ASSUME AllSound
  PROVE  LengthsOrdered /\ AccessesInside
<1>1. LengthsOrdered
  BY DEF AllSound, Sound, LengthsOrdered
<1>2. ASSUME NEW id \in DOMAIN tvb, NEW offset \in Gint, NEW length \in Gint
      PROVE  LET t == tvb[id]
                 passes == CheckOffsetLength(t, offset, length) = Ok
             IN /\ passes => InData(t, Absolute(t, offset), AbsoluteLength(t, offset, length))
                /\ length >= 0 => (EnsureBytesExist(t, offset, length) = Ok <=> passes)
                /\ length \in 0 .. Simple
                     => (FastEnsureContiguous(t, offset, length) = Ok <=> passes)
  <2>1. Sound(tvb[id])
    BY DEF AllSound
  <2>2. ASSUME CheckOffsetLength(tvb[id], offset, length) = Ok
        PROVE  InData(tvb[id], Absolute(tvb[id], offset),
                      AbsoluteLength(tvb[id], offset, length))
    <3>1. /\ Absolute(tvb[id], offset) \in 0 .. tvb[id].length
          /\ AbsoluteLength(tvb[id], offset, length) \in 0 .. tvb[id].length
          /\ Absolute(tvb[id], offset) + AbsoluteLength(tvb[id], offset, length)
               <= tvb[id].length
      BY <2>1, <2>2, CheckedInside
    <3>2. /\ tvb[id].start \in Nat /\ tvb[id].length \in Nat /\ tvb[id].size \in Nat
          /\ tvb[id].start + tvb[id].length <= tvb[id].size
      BY <2>1, TvbuffAssumption DEF Sound, TvbFields, Guint
    <3> QED
      BY <3>1, <3>2 DEF InData
  <2> QED
    BY <2>1, <2>2, HotPathAgrees, FastPathAgrees
<1> QED
  BY <1>1, <1>2 DEF AccessesInside

---------------------------------------------------------------------------

LEMMA RealSound ==
  ASSUME NEW id \in Tvbs, NEW size \in 0 .. MaxSize, NEW reported \in Gint,
         size <= AsGuint(reported)
  PROVE  Sound(RealData(id, size, reported))
<1>1. AsGuint(reported) \in Guint /\ size \in Guint /\ 0 \in Nat /\ 0 + size <= size
  BY TvbuffAssumption DEF AsGuint, Gint, Guint
<1> QED
  BY <1>1 DEF Sound, TvbFields, RealData, Guint

(* A window within a sound tvbuff is sound: its contained length is cut   *)
(* to what is left of the one behind it, which is not less than what is   *)
(* left of the captured bytes.                                            *)
LEMMA SubsetSound ==
  ASSUME NEW b, Sound(b), NEW offset \in Nat, NEW length \in Nat,
         offset + length <= b.length,
         NEW reported \in Guint, length <= reported
  PROVE  Sound(WithSubset(b, reported, offset, length))
<1> DEFINE t == WithSubset(b, reported, offset, length)
<1>1. /\ b \in TvbFields /\ b.start \in Nat /\ b.length \in Guint /\ b.contained \in Guint
      /\ b.start + b.length <= b.size /\ b.length <= b.contained
      /\ b.contained <= b.reported /\ b.size \in Nat /\ Limit \in Nat
  BY TvbuffAssumption DEF Sound, TvbFields, Guint
<1>2. Minus(b.contained, offset) = b.contained - offset
  BY <1>1 DEF Minus, AsGuint, Guint
<1>3. Least(reported, Minus(b.contained, offset)) \in Guint
  BY <1>1, <1>2 DEF Least, Guint
<1>4. length <= Least(reported, Minus(b.contained, offset))
  BY <1>1, <1>2 DEF Least, Guint
<1>5. Least(reported, Minus(b.contained, offset)) <= reported
  BY <1>1, <1>2 DEF Least, Guint
<1>6. b.start + offset \in Nat /\ length \in Guint /\ b.start + offset + length <= b.size
  BY <1>1 DEF Guint
<1>7. /\ t.start = b.start + offset /\ t.length = length /\ t.reported = reported
      /\ t.contained = Least(reported, Minus(b.contained, offset)) /\ t.size = b.size
  BY <1>1 DEF WithSubset, TvbFields
<1>8. t \in TvbFields
  BY <1>1, <1>3, <1>6 DEF WithSubset, TvbFields
<1> QED
  BY <1>4, <1>5, <1>6, <1>7, <1>8 DEF Sound

LEMMA WithSound ==
  ASSUME AllSound, NEW id, NEW t, Sound(t), With(id, t)
  PROVE  AllSound'
BY DEF AllSound, With, Sound, TvbFields, Guint

(* Whatever asks for a window that the checks let pass. *)
LEMMA SubsetKeeps ==
  ASSUME AllSound, NEW backing \in DOMAIN tvb, NEW id \in Tvbs, NEW offset \in Gint,
         NEW length \in Gint, NEW reported \in Guint,
         AbsoluteLength(tvb[backing], offset, length) <= reported,
         Subset(backing, id, offset, length, reported)
  PROVE  AllSound'
<1> DEFINE b == tvb[backing]
           at == Absolute(b, offset)
           n == AbsoluteLength(b, offset, length)
<1>1. Sound(b)
  BY DEF AllSound
<1>2. CheckOffsetLength(b, offset, length) = Ok /\ With(id, WithSubset(b, reported, at, n))
  BY DEF Subset
<1>3. at \in 0 .. b.length /\ n \in 0 .. b.length /\ at + n <= b.length
  BY <1>1, <1>2, CheckedInside
<1>4. b.length \in Nat
  BY <1>1, TvbuffAssumption DEF Sound, TvbFields, Guint
<1>5. at \in Nat /\ n \in Nat
  BY <1>3, <1>4
<1> HIDE DEF b, at, n
<1>6. n <= reported
  BY DEF b, n
<1>7. Sound(WithSubset(b, reported, at, n))
  BY <1>1, <1>3, <1>5, <1>6, SubsetSound
<1> QED
  BY <1>2, <1>7, WithSound

LEMMA NewSubsetLengthKeeps ==
  ASSUME AllSound, NEW backing \in DOMAIN tvb, NEW id \in Tvbs, NEW offset \in Gint,
         NEW reported \in Gint, NewSubsetLength(backing, id, offset, reported)
  PROVE  AllSound'
<1> DEFINE b == tvb[backing]
           actual == IF reported = -1 THEN AsGint(b.reported) ELSE reported
           remaining == CapturedLengthRemaining(b, offset)
           wanted == Least(remaining, actual)
<1>1. Sound(b)
  BY DEF AllSound
<1>2. /\ b.length \in Nat /\ b.length <= MaxSize /\ b.reported \in Guint
      /\ Limit \in Nat /\ Limit >= 1 /\ MaxSize \in 0 .. Limit - 1 /\ b.length <= b.reported
  BY <1>1, TvbuffAssumption DEF Sound, TvbFields, Guint
<1>3. /\ reported >= -1 /\ remaining >= 0
      /\ Subset(backing, id, offset, wanted, AsGuint(actual))
  BY DEF NewSubsetLength
<1>4. actual \in Gint
  BY <1>2 DEF AsGint, Gint, Guint
<1>5. CheckOffsetLength(b, offset, wanted) = Ok
  BY <1>3 DEF Subset
<1>6. OffsetError(b, offset) = Ok
  BY <1>5 DEF CheckOffsetLength
<1>7. (IF offset < 0 THEN -offset ELSE offset) <= b.length
  BY <1>6 DEF OffsetError, ValidateOffset, Beyond, Ok
<1>8. Absolute(b, offset) \in 0 .. b.length
  BY <1>2, <1>7 DEF Absolute, Gint
<1>9. remaining \in 0 .. b.length
  BY <1>2, <1>6, <1>8 DEF CapturedLengthRemaining, AsGint
<1> HIDE DEF b, actual, remaining
<1>10. wanted \in Gint
  BY <1>2, <1>4, <1>9 DEF Least, Gint
<1>11. wanted >= -1
  BY <1>5, <1>6, <1>10 DEF CheckOffsetLength, Ok, Gint
<1>12. AsGuint(actual) \in Guint
  BY <1>2, <1>4 DEF AsGuint, Gint, Guint
<1>13. AbsoluteLength(b, offset, wanted) <= AsGuint(actual)
  <2>1. CASE wanted = -1
    <3>1. actual = -1
      BY <1>2, <1>4, <1>9, <2>1 DEF Least, Gint
    <3> QED
      BY <1>2, <1>8, <2>1, <3>1 DEF AbsoluteLength, AsGuint
  <2>2. CASE wanted >= 0
    <3>1. actual >= wanted /\ actual >= 0
      BY <1>2, <1>4, <1>9, <2>2 DEF Least, Gint
    <3> QED
      BY <1>2, <1>4, <1>10, <2>2, <3>1 DEF AbsoluteLength, AsGuint, Gint
  <2> QED
    BY <1>10, <1>11, <2>1, <2>2, TvbuffAssumption DEF Gint
<1> QED
  BY <1>3, <1>10, <1>12, <1>13, SubsetKeeps DEF b

LEMMA NewSubsetLengthCaplenKeeps ==
  ASSUME AllSound, NEW backing \in DOMAIN tvb, NEW id \in Tvbs, NEW offset \in Gint,
         NEW length \in Gint, NEW reported \in Gint,
         NewSubsetLengthCaplen(backing, id, offset, length, reported)
  PROVE  AllSound'
<1> DEFINE b == tvb[backing]
           actual == IF reported = -1 THEN Minus(b.reported, Absolute(b, offset)) ELSE reported
<1>1. Sound(b)
  BY DEF AllSound
<1>2. /\ reported >= -1 /\ AbsoluteLength(b, offset, length) <= actual
      /\ Subset(backing, id, offset, length, actual)
  BY DEF NewSubsetLengthCaplen
<1>3. Absolute(b, offset) \in 0 .. b.length
  BY <1>1, <1>2, CheckedInside DEF Subset
<1>4. /\ b.length \in Nat /\ b.reported \in Guint /\ b.length <= b.reported /\ Limit \in Nat
      /\ b.length <= b.contained /\ b.contained <= b.reported
  BY <1>1, TvbuffAssumption DEF Sound, TvbFields, Guint
<1>5. actual \in Guint
  BY <1>2, <1>3, <1>4 DEF Minus, AsGuint, Gint, Guint
<1> QED
  BY <1>2, <1>5, SubsetKeeps

LEMMA NewSubsetRemainingKeeps ==
  ASSUME AllSound, NEW backing \in DOMAIN tvb, NEW id \in Tvbs, NEW offset \in Gint,
         NewSubsetRemaining(backing, id, offset)
  PROVE  AllSound'
<1> DEFINE b == tvb[backing]
           reported == b.reported - Absolute(b, offset)
<1>1. Sound(b)
  BY DEF AllSound
<1>2. b.reported >= Absolute(b, offset) /\ Subset(backing, id, offset, -1, reported)
  BY DEF NewSubsetRemaining
<1>3. -1 \in Gint
  BY TvbuffAssumption DEF Gint
<1>4. Absolute(b, offset) \in 0 .. b.length
  BY <1>1, <1>2, <1>3, CheckedInside DEF Subset
<1>5. /\ b.length \in Nat /\ b.reported \in Guint /\ b.length <= b.reported /\ Limit \in Nat
      /\ b.length <= b.contained /\ b.contained <= b.reported
  BY <1>1, TvbuffAssumption DEF Sound, TvbFields, Guint
<1>6. reported \in Guint
  BY <1>2, <1>4, <1>5 DEF Guint
<1>7. AbsoluteLength(b, offset, -1) <= reported
  BY <1>4, <1>5 DEF AbsoluteLength, Guint
<1> QED
  BY <1>2, <1>3, <1>6, <1>7, SubsetKeeps

LEMMA NewChainKeeps ==
  ASSUME AllSound, NEW parent \in DOMAIN tvb, NEW backing \in DOMAIN tvb, NEW id \in Tvbs,
         NewChain(parent, backing, id)
  PROVE  AllSound'
<1> DEFINE b == tvb[backing]
           w == WithSubset(b, b.reported, 0, b.length)
           foreign == w.foreign \/ ChainOf(parent) # ChainOf(backing)
           t == [w EXCEPT !.foreign = foreign]
<1>1. Sound(b)
  BY DEF AllSound
<1>2. /\ b.length \in Nat /\ b.reported \in Guint /\ b.length <= b.reported
      /\ 0 \in Nat /\ 0 + b.length <= b.length
  BY <1>1, TvbuffAssumption DEF Sound, TvbFields, Guint
<1>3. Sound(w)
  BY <1>1, <1>2, SubsetSound
<1>4. foreign \in BOOLEAN
  BY <1>3 DEF Sound, TvbFields
<1>5. With(id, t)
  BY DEF NewChain
<1> HIDE DEF w, foreign
<1>6. Sound(t)
  BY <1>3, <1>4 DEF Sound, TvbFields
<1> QED
  BY <1>5, <1>6, WithSound

LEMMA SetReportedLengthKeeps ==
  ASSUME AllSound, NEW id \in DOMAIN tvb, NEW reported \in Guint,
         SetReportedLength(id, reported)
  PROVE  AllSound'
<1> SUFFICES ASSUME NEW i \in DOMAIN tvb' PROVE Sound(tvb'[i])
  BY DEF AllSound, Sound, TvbFields, Guint
<1>1. i \in DOMAIN tvb /\ Sound(tvb[i])
  BY DEF SetReportedLength, AllSound
<1>2. CASE i # id
  BY <1>1, <1>2 DEF SetReportedLength
<1>3. CASE i = id
  <2> DEFINE t == tvb[id]
  <2>1. Sound(t) /\ t \in TvbFields
    BY <1>1, <1>3 DEF Sound
  <2>2. /\ t.length \in Guint /\ t.contained \in Guint /\ t.reported \in Guint
        /\ t.start \in Nat /\ t.size \in Nat /\ t.start + t.length <= t.size
        /\ t.length <= t.contained /\ Limit \in Nat
    BY <2>1, TvbuffAssumption DEF Sound, TvbFields
  <2>3. tvb'[id] = [t EXCEPT !.reported = reported, !.length = Least(@, reported),
                             !.contained = Least(@, reported)]
    BY <1>1, <1>3, <2>1 DEF SetReportedLength, TvbFields
  <2> DEFINE l == Least(t.length, reported)
             c == Least(t.contained, reported)
  <2>4. /\ l \in Guint /\ c \in Guint /\ t.start + l <= t.size
        /\ l <= c /\ c <= reported
    BY <2>2 DEF Least, Guint
  <2> HIDE DEF t, l, c
  <2>5. tvb'[id] = [t EXCEPT !.reported = reported, !.length = l, !.contained = c]
    BY <2>1, <2>3 DEF l, c, TvbFields
  <2> QED
    BY <1>3, <2>1, <2>4, <2>5 DEF Sound, TvbFields
<1> QED
  BY <1>2, <1>3

LEMMA SetFragmentKeeps ==
  ASSUME AllSound, NEW id \in DOMAIN tvb, SetFragment(id)
  PROVE  AllSound'
<1> SUFFICES ASSUME NEW i \in DOMAIN tvb' PROVE Sound(tvb'[i])
  BY DEF AllSound
<1>1. i \in DOMAIN tvb /\ Sound(tvb[i])
  BY DEF SetFragment, AllSound
<1>2. CASE i # id
  BY <1>1, <1>2 DEF SetFragment
<1>3. CASE i = id
  <2> DEFINE t == tvb[id]
  <2>1. Sound(t) /\ t \in TvbFields
    BY <1>1, <1>3 DEF Sound
  <2>2. tvb'[id] = [t EXCEPT !.fragment = TRUE]
    BY <1>1, <1>3 DEF SetFragment
  <2> HIDE DEF t
  <2> QED
    BY <1>3, <2>1, <2>2 DEF Sound, TvbFields
<1> QED
  BY <1>2, <1>3

LEMMA FreeChainKeeps ==
  ASSUME AllSound, NEW head \in DOMAIN tvb, FreeChain(head)
  PROVE  AllSound'
BY DEF AllSound, FreeChain, Sound, TvbFields, Guint

(* AllSound is inductive by itself. *)
LEMMA NextKeeps ==
  ASSUME AllSound, [Next]_vars
  PROVE  AllSound'
<1>1. CASE UNCHANGED vars
  BY <1>1 DEF vars, AllSound, Sound, TvbFields, Guint
<1>2. CASE \E id \in Tvbs, size \in 0 .. MaxSize, reported \in Gint :
             \/ NewRealData(id, size, reported)
             \/ \E parent \in DOMAIN tvb : NewChildRealData(parent, id, size, reported)
  <2>1. PICK id \in Tvbs, size \in 0 .. MaxSize, reported \in Gint :
          /\ size <= AsGuint(reported)
          /\ With(id, RealData(id, size, reported))
    BY <1>2 DEF NewRealData, NewChildRealData
  <2> QED
    BY <2>1, RealSound, WithSound
<1>3. CASE \E parent, child \in DOMAIN tvb : SetChildRealData(parent, child)
  BY <1>3 DEF SetChildRealData, AllSound, Sound, TvbFields, Guint
<1>4. ASSUME NEW backing \in DOMAIN tvb, NEW id \in Tvbs, NEW offset \in Gint,
             \/ \E reported \in Gint :
                  \/ \E length \in Gint :
                       NewSubsetLengthCaplen(backing, id, offset, length, reported)
                  \/ NewSubsetLength(backing, id, offset, reported)
             \/ NewSubsetRemaining(backing, id, offset)
      PROVE  AllSound'
  BY <1>4, NewSubsetLengthCaplenKeeps, NewSubsetLengthKeeps, NewSubsetRemainingKeeps
<1>5. CASE \E parent, backing \in DOMAIN tvb, id \in Tvbs : NewChain(parent, backing, id)
  BY <1>5, NewChainKeeps
<1>6. CASE \E id \in DOMAIN tvb, reported \in Guint : SetReportedLength(id, reported)
  BY <1>6, SetReportedLengthKeeps
<1>7. CASE \E id \in DOMAIN tvb : SetFragment(id) \/ FreeChain(id)
  BY <1>7, SetFragmentKeeps, FreeChainKeeps
<1> QED
  BY <1>1, <1>2, <1>3, <1>4, <1>5, <1>6, <1>7 DEF Next

LEMMA AlwaysSound == Spec => []AllSound
<1>1. Init => AllSound
  BY DEF Init, AllSound
<1> QED
  BY <1>1, NextKeeps, PTL DEF Spec

(* Through any sequence of windows, cuts and chains, and for offsets and  *)
(* lengths of any width: captured <= contained <= reported, which         *)
(* tvb_new_with_subset relies on when it subtracts; no access that any of *)
(* the checks of tvbuff.c lets pass leaves the real data; and the fast    *)
(* paths let pass what the general check does.                            *)
THEOREM WindowsStaySound == Spec => []WindowsSound
<1>1. AllSound => WindowsSound
  BY SoundSuffices DEF WindowsSound
<1> QED
  BY <1>1, AlwaysSound, PTL

---------------------------------------------------------------------------
(***************************************************************************)
(* Chains.  They enumerate the tvbuffs, each once, and a tvbuff is in the  *)
(* chain of its data; calls join chains and put new tvbuffs into them.     *)
(***************************************************************************)

(* The sequence has each member of S once, and nothing else.              *)
Enumerates(c, S) ==
  /\ c \in Seq(S)
  /\ \A i, j \in 1 .. Len(c) : c[i] = c[j] => i = j
  /\ \A e \in S : \E i \in 1 .. Len(c) : c[i] = e

InChains(cs) == UNION {ToSet(c) : c \in cs}

Chains ==
  /\ \A c \in chains : Enumerates(c, ToSet(c))
  /\ \A c, d \in chains : c = d \/ ToSet(c) \cap ToSet(d) = {}
  /\ InChains(chains) = DOMAIN tvb

WithItsData(t, id, cs) == t.foreign \/ \E c \in cs : {id, t.source} \subseteq ToSet(c)

Sources == \A id \in DOMAIN tvb : WithItsData(tvb[id], id, chains)

LEMMA Enumerated ==
  ASSUME NEW S, NEW c, Enumerates(c, S)
  PROVE  /\ ToSet(c) = S /\ IsInjective(c) /\ Len(c) \in Nat /\ DOMAIN c = 1 .. Len(c)
         /\ \A e : Contains(c, e) <=> e \in S
<1>1. Len(c) \in Nat /\ DOMAIN c = 1 .. Len(c) /\ \A i \in 1 .. Len(c) : c[i] \in S
  BY DEF Enumerates
<1>2. ToSet(c) = S
  BY <1>1 DEF Enumerates, ToSet
<1>3. IsInjective(c)
  BY <1>1 DEF Enumerates, IsInjective
<1>4. ASSUME NEW e PROVE Contains(c, e) <=> e \in S
  BY <1>1 DEF Contains, Enumerates
<1> QED
  BY <1>1, <1>2, <1>3, <1>4

LEMMA Once ==
  ASSUME NEW S, NEW c, Enumerates(c, S), NEW i \in 1 .. Len(c), NEW j \in 1 .. Len(c), c[i] = c[j]
  PROVE  i = j
BY DEF Enumerates

LEMMA ChainsJoined ==
  ASSUME NEW S, NEW T, S \cap T = {}, NEW c, NEW d, Enumerates(c, S), Enumerates(d, T)
  PROVE  Enumerates(c \o d, S \cup T)
<1> DEFINE e == c \o d
<1>1. Len(c) \in Nat /\ Len(d) \in Nat /\ c \in Seq(S) /\ d \in Seq(T)
  BY DEF Enumerates
<1>2. c \in Seq(S \cup T) /\ d \in Seq(S \cup T)
  BY <1>1
<1>3. e \in Seq(S \cup T) /\ Len(e) = Len(c) + Len(d)
  BY <1>2
<1>4. ASSUME NEW i \in 1 .. Len(c) PROVE e[i] = c[i] /\ c[i] \in S
  BY <1>1, <1>2
<1>5. ASSUME NEW i \in 1 .. Len(d) PROVE e[Len(c) + i] = d[i] /\ d[i] \in T
  BY <1>1, <1>2
<1>6. \A i \in 1 .. Len(e) : i \in 1 .. Len(c) \/ (i - Len(c) \in 1 .. Len(d) /\ i = Len(c) + (i - Len(c)))
  BY <1>1, <1>3
<1> HIDE DEF e
<1>7. ASSUME NEW i \in 1 .. Len(e), NEW j \in 1 .. Len(e), e[i] = e[j] PROVE i = j
  <2>1. CASE i \in 1 .. Len(c) /\ j \in 1 .. Len(c)
    BY <1>4, <1>7, <2>1 DEF Enumerates
  <2>2. CASE i \in 1 .. Len(c) /\ j \notin 1 .. Len(c)
    <3>1. j - Len(c) \in 1 .. Len(d) /\ j = Len(c) + (j - Len(c))
      BY <1>6, <2>2
    <3>2. e[i] \in S /\ e[j] \in T
      BY <1>4, <1>5, <2>2, <3>1
    <3> QED
      BY <1>7, <3>2
  <2>3. CASE i \notin 1 .. Len(c) /\ j \in 1 .. Len(c)
    <3>1. i - Len(c) \in 1 .. Len(d) /\ i = Len(c) + (i - Len(c))
      BY <1>6, <2>3
    <3>2. e[j] \in S /\ e[i] \in T
      BY <1>4, <1>5, <2>3, <3>1
    <3> QED
      BY <1>7, <3>2
  <2>4. CASE i \notin 1 .. Len(c) /\ j \notin 1 .. Len(c)
    <3>1. /\ i - Len(c) \in 1 .. Len(d) /\ i = Len(c) + (i - Len(c))
          /\ j - Len(c) \in 1 .. Len(d) /\ j = Len(c) + (j - Len(c))
      BY <1>6, <2>4
    <3>2. d[i - Len(c)] = d[j - Len(c)]
      BY <1>5, <1>7, <3>1
    <3>3. i - Len(c) = j - Len(c)
      BY <3>1, <3>2 DEF Enumerates
    <3> QED
      BY <1>1, <3>1, <3>3
  <2> QED
    BY <2>1, <2>2, <2>3, <2>4
<1>8. ASSUME NEW x \in S \cup T PROVE \E i \in 1 .. Len(e) : e[i] = x
  <2>1. CASE x \in S
    <3>1. PICK i \in 1 .. Len(c) : c[i] = x
      BY <2>1 DEF Enumerates
    <3>2. i \in 1 .. Len(e) /\ e[i] = x
      BY <1>1, <1>3, <1>4, <3>1
    <3> QED
      BY <3>2
  <2>2. CASE x \in T
    <3>1. PICK i \in 1 .. Len(d) : d[i] = x
      BY <2>2 DEF Enumerates
    <3>2. Len(c) + i \in 1 .. Len(e) /\ e[Len(c) + i] = x
      BY <1>1, <1>3, <1>5, <3>1
    <3> QED
      BY <3>2
  <2> QED
    BY <2>1, <2>2
<1> QED
  BY <1>3, <1>7, <1>8 DEF Enumerates, e

LEMMA Reversed ==
  ASSUME NEW S, NEW c, Enumerates(c, S)
  PROVE  Enumerates(Reverse(c), S)
<1> DEFINE r == Reverse(c)
           back(i) == (Len(c) - i) + 1
<1>1. Len(c) \in Nat /\ c \in Seq(S)
  BY DEF Enumerates
<1>2. \A i \in 1 .. Len(c) : back(i) \in 1 .. Len(c) /\ back(back(i)) = i
  BY <1>1
<1>3. r = [i \in 1 .. Len(c) |-> c[back(i)]]
  BY DEF Reverse
<1>4. r \in Seq(S) /\ Len(r) = Len(c) /\ \A i \in 1 .. Len(c) : r[i] = c[back(i)]
  <2>1. \A i \in 1 .. Len(c) : c[back(i)] \in S
    BY <1>1, <1>2
  <2> HIDE DEF r, back
  <2> QED
    BY <1>1, <1>3, <2>1
<1> HIDE DEF r
<1>5. ASSUME NEW i \in 1 .. Len(c), NEW j \in 1 .. Len(c), r[i] = r[j] PROVE i = j
  <2>1. back(i) = back(j)
    <3> HIDE DEF back
    <3>1. back(i) \in 1 .. Len(c) /\ back(j) \in 1 .. Len(c) /\ c[back(i)] = c[back(j)]
      BY <1>2, <1>4, <1>5
    <3> QED
      BY <3>1, Once
  <2> QED
    BY <1>1, <2>1
<1>6. ASSUME NEW x \in S PROVE \E i \in 1 .. Len(c) : r[i] = x
  <2>1. PICK i \in 1 .. Len(c) : c[i] = x
    BY DEF Enumerates
  <2> HIDE DEF back
  <2>2. r[back(i)] = x
    BY <1>2, <1>4, <2>1
  <2> QED
    BY <1>2, <2>2
<1> QED
  BY <1>4, <1>5, <1>6 DEF Enumerates, r

LEMMA CutInTwo ==
  ASSUME NEW S, NEW c, Enumerates(c, S), NEW k \in 1 .. Len(c)
  PROVE  LET A == {c[i] : i \in 1 .. k}
         IN  /\ Enumerates(SubSeq(c, 1, k), A) /\ Enumerates(SubSeq(c, k + 1, Len(c)), S \ A)
             /\ A \subseteq S
<1> DEFINE A == {c[i] : i \in 1 .. k}
           a == SubSeq(c, 1, k)
           b == SubSeq(c, k + 1, Len(c))
<1>1. Len(c) \in Nat /\ k \in Nat /\ 1 <= k /\ k <= Len(c) /\ c \in Seq(S)
  BY DEF Enumerates
<1>2. /\ Len(a) = k /\ a \in Seq(S) /\ \A i \in 1 .. k : a[i] = c[i]
      /\ Len(b) = Len(c) - k /\ b \in Seq(S) /\ \A i \in 1 .. Len(c) - k : b[i] = c[k + i]
  BY <1>1
<1> HIDE DEF a, b
<1>3. A \subseteq S
  BY <1>1
<1>4. Enumerates(a, A)
  <2>1. a \in Seq(A)
    <3>1. a = [i \in 1 .. k |-> a[i]] /\ \A i \in 1 .. k : a[i] \in A
      BY <1>1, <1>2
    <3> HIDE DEF A
    <3> QED
      BY <1>1, <3>1
  <2>2. ASSUME NEW i \in 1 .. k, NEW j \in 1 .. k, a[i] = a[j] PROVE i = j
    <3>1. i \in 1 .. Len(c) /\ j \in 1 .. Len(c) /\ c[i] = c[j]
      BY <1>1, <1>2, <2>2
    <3> QED
      BY <3>1, Once
  <2>3. \A e \in A : \E i \in 1 .. k : a[i] = e
    BY <1>2
  <2> HIDE DEF A
  <2> QED
    BY <1>2, <2>1, <2>2, <2>3 DEF Enumerates
<1>5. Enumerates(b, S \ A)
  <2>1. \A i \in 1 .. Len(c) - k : k + i \in 1 .. Len(c) /\ b[i] \in S \ A
    <3> SUFFICES ASSUME NEW i \in 1 .. Len(c) - k PROVE k + i \in 1 .. Len(c) /\ b[i] \in S \ A
      OBVIOUS
    <3>1. k + i \in 1 .. Len(c) /\ ~(k + i \in 1 .. k)
      BY <1>1
    <3>2. ASSUME NEW j \in 1 .. k PROVE c[j] # c[k + i]
      <4>1. j \in 1 .. Len(c) /\ j # k + i
        BY <1>1, <3>1
      <4> QED
        BY <3>1, <4>1, Once
    <3>3. c[k + i] \in S
      <4>1. c \in Seq(S)
        BY DEF Enumerates
      <4> QED
        BY <3>1, <4>1
    <3>4. c[k + i] \notin A
      BY <3>2
    <3>5. b[i] = c[k + i]
      BY <1>2
    <3> QED
      BY <3>1, <3>3, <3>4, <3>5
  <2>2. b \in Seq(S \ A)
    <3>1. b = [i \in 1 .. Len(c) - k |-> b[i]] /\ Len(c) - k \in Nat
      BY <1>1, <1>2
    <3> HIDE DEF A
    <3> QED
      BY <2>1, <3>1
  <2>3. ASSUME NEW i \in 1 .. Len(c) - k, NEW j \in 1 .. Len(c) - k, b[i] = b[j] PROVE i = j
    <3>1. k + i \in 1 .. Len(c) /\ k + j \in 1 .. Len(c) /\ c[k + i] = c[k + j]
      BY <1>2, <2>1, <2>3
    <3>2. k + i = k + j
      BY <3>1, Once
    <3> QED
      BY <1>1, <3>2
  <2>4. ASSUME NEW e \in S \ A PROVE \E i \in 1 .. Len(c) - k : b[i] = e
    <3>1. PICK j \in 1 .. Len(c) : c[j] = e
      BY DEF Enumerates
    <3>2. ~(j \in 1 .. k)
      BY <3>1
    <3>3. j - k \in 1 .. Len(c) - k /\ k + (j - k) = j
      BY <1>1, <3>2
    <3> QED
      BY <1>2, <3>1, <3>3
  <2> HIDE DEF A
  <2> QED
    BY <1>2, <2>2, <2>3, <2>4 DEF Enumerates
<1> QED
  BY <1>3, <1>4, <1>5 DEF a, b

LEMMA ChainIs ==
  ASSUME Chains, NEW id \in DOMAIN tvb
  PROVE  /\ ChainOf(id) \in chains /\ id \in ToSet(ChainOf(id))
         /\ Enumerates(ChainOf(id), ToSet(ChainOf(id)))
<1>1. PICK c \in chains : id \in ToSet(c)
  BY DEF Chains, InChains
<1>2. Contains(c, id)
  BY <1>1, Enumerated DEF Chains
<1>3. ChainOf(id) \in chains /\ Contains(ChainOf(id), id)
  BY <1>1, <1>2 DEF ChainOf
<1> HIDE DEF ChainOf
<1>4. Enumerates(ChainOf(id), ToSet(ChainOf(id)))
  BY <1>3 DEF Chains
<1> QED
  BY <1>3, <1>4, Enumerated

(* tvb_add_to_chain loses nothing and repeats nothing.                    *)
LEMMA ChainedEnumerates ==
  ASSUME Chains, NEW parent \in DOMAIN tvb, NEW T, NEW children, Enumerates(children, T),
         T \cap ToSet(ChainOf(parent)) = {}
  PROVE  Enumerates(Chained(parent, children), T \cup ToSet(ChainOf(parent)))
<1> DEFINE c == ChainOf(parent)
           S == ToSet(c)
           k == CHOOSE i \in DOMAIN c : c[i] = parent
           A == {c[i] : i \in 1 .. k}
<1>1. Enumerates(c, S) /\ parent \in S
  BY ChainIs
<1>2. DOMAIN c = 1 .. Len(c) /\ \E i \in DOMAIN c : c[i] = parent
  BY <1>1, Enumerated DEF Enumerates
<1>3. k \in 1 .. Len(c)
  <2> HIDE DEF c
  <2> QED
    BY <1>2
<1>4. Chained(parent, children) = SubSeq(c, 1, k) \o Reverse(children) \o SubSeq(c, k + 1, Len(c))
  BY DEF Chained
<1> HIDE DEF c, k, S
<1>5. Enumerates(SubSeq(c, 1, k), A) /\ Enumerates(SubSeq(c, k + 1, Len(c)), S \ A) /\ A \subseteq S
  BY <1>1, <1>3, CutInTwo
<1> HIDE DEF A
<1>6. S \cap T = {}
  BY DEF S, c
<1>7. Enumerates(Reverse(children), T)
  BY Reversed
<1>8. Enumerates(SubSeq(c, 1, k) \o Reverse(children), A \cup T)
  BY <1>5, <1>6, <1>7, ChainsJoined
<1>9. (A \cup T) \cap (S \ A) = {} /\ (A \cup T) \cup (S \ A) = T \cup S
  BY <1>5, <1>6
<1>10. Enumerates(SubSeq(c, 1, k) \o Reverse(children) \o SubSeq(c, k + 1, Len(c)),
                  (A \cup T) \cup (S \ A))
  BY <1>5, <1>8, <1>9, ChainsJoined
<1> QED
  BY <1>4, <1>9, <1>10 DEF S, c

---------------------------------------------------------------------------

LEMMA Single ==
  ASSUME NEW id
  PROVE  Enumerates(<<id>>, {id}) /\ ToSet(<<id>>) = {id}
<1>1. <<id>> \in Seq({id}) /\ Len(<<id>>) = 1 /\ <<id>>[1] = id
  OBVIOUS
<1>2. Enumerates(<<id>>, {id})
  BY <1>1 DEF Enumerates
<1> QED
  BY <1>2, Enumerated

LEMMA OneChain ==
  ASSUME Chains, NEW c \in chains, NEW id \in ToSet(c)
  PROVE  id \in DOMAIN tvb /\ c = ChainOf(id)
<1>1. id \in DOMAIN tvb
  BY DEF Chains, InChains
<1>2. ChainOf(id) \in chains /\ id \in ToSet(ChainOf(id))
  BY <1>1, ChainIs
<1> HIDE DEF ChainOf
<1> QED
  BY <1>1, <1>2 DEF Chains

(* Some chains are made into one, with new tvbuffs.                       *)
LEMMA Merged ==
  ASSUME Chains, NEW Old \in SUBSET chains, NEW ids, NEW n, ids \cap DOMAIN tvb = {},
         Enumerates(n, ids \cup InChains(Old)),
         chains' = (chains \ Old) \cup {n}, DOMAIN tvb' = DOMAIN tvb \cup ids
  PROVE  Chains' /\ \A c \in chains : \E d \in chains' : ToSet(c) \subseteq ToSet(d)
<1>1. ToSet(n) = ids \cup InChains(Old)
  BY Enumerated
<1>2. \A c \in chains' : Enumerates(c, ToSet(c))
  BY <1>1 DEF Chains
<1>3. ASSUME NEW c \in chains \ Old PROVE ToSet(c) \cap ToSet(n) = {}
  BY <1>1, <1>3 DEF Chains, InChains
<1>4. \A c, d \in chains' : c = d \/ ToSet(c) \cap ToSet(d) = {}
  BY <1>3 DEF Chains
<1>5. InChains(chains') = DOMAIN tvb'
  <2>1. InChains(chains') = InChains(chains \ Old) \cup ToSet(n)
    BY DEF InChains
  <2>2. InChains(chains \ Old) \cup InChains(Old) = InChains(chains)
    BY DEF InChains
  <2> QED
    BY <1>1, <2>1, <2>2 DEF Chains
<1>6. ASSUME NEW c \in chains PROVE \E d \in chains' : ToSet(c) \subseteq ToSet(d)
  <2>1. CASE c \in Old
    BY <1>1, <2>1 DEF InChains
  <2>2. CASE c \notin Old
    BY <2>2
  <2> QED
    BY <2>1, <2>2
<1> QED
  BY <1>2, <1>4, <1>5, <1>6 DEF Chains

LEMMA SourcesKept ==
  ASSUME Sources, \A c \in chains : \E d \in chains' : ToSet(c) \subseteq ToSet(d),
         \A i \in DOMAIN tvb' :
           \/ /\ i \in DOMAIN tvb
              /\ tvb'[i].source = tvb[i].source /\ tvb'[i].foreign = tvb[i].foreign
           \/ WithItsData(tvb'[i], i, chains')
  PROVE  Sources'
<1> SUFFICES ASSUME NEW i \in DOMAIN tvb' PROVE WithItsData(tvb'[i], i, chains')
  BY DEF Sources, WithItsData
<1>1. CASE /\ i \in DOMAIN tvb
           /\ tvb'[i].source = tvb[i].source /\ tvb'[i].foreign = tvb[i].foreign
  <2>1. tvb[i].foreign \/ \E c \in chains : {i, tvb[i].source} \subseteq ToSet(c)
    BY <1>1 DEF Sources, WithItsData
  <2>2. CASE tvb[i].foreign
    BY <1>1, <2>2 DEF WithItsData
  <2>3. ASSUME NEW c \in chains, {i, tvb[i].source} \subseteq ToSet(c)
        PROVE  WithItsData(tvb'[i], i, chains')
    <3>1. PICK d \in chains' : ToSet(c) \subseteq ToSet(d)
      OBVIOUS
    <3>2. {i, tvb'[i].source} \subseteq ToSet(d)
      BY <1>1, <2>3, <3>1
    <3> QED
      BY <3>2 DEF WithItsData
  <2> QED
    BY <2>1, <2>2, <2>3
<1> QED
  BY <1>1

(* A tvbuff that is added to the chain of its data, or brings its data,   *)
(* or is known not to be with it.                                         *)
LEMMA Added ==
  ASSUME Chains, Sources, NEW parent \in DOMAIN tvb, NEW id \in Unused, NEW t, With(id, t),
         AddToChain(parent, id),
         t.foreign \/ t.source = id \/ t.source \in ToSet(ChainOf(parent))
  PROVE  Chains' /\ Sources'
<1> DEFINE c == ChainOf(parent)
           n == Chained(parent, <<id>>)
<1>1. c \in chains /\ ToSet(c) \subseteq DOMAIN tvb /\ id \notin DOMAIN tvb
  BY ChainIs DEF Unused, Chains, InChains
<1>2. Enumerates(n, {id} \cup ToSet(c))
  BY <1>1, Single, ChainedEnumerates, ZenonT(60)
<1>3. chains' = (chains \ {c}) \cup {n}
  BY DEF AddToChain
<1>4. /\ DOMAIN tvb' = DOMAIN tvb \cup {id} /\ tvb'[id] = t
      /\ \A i \in DOMAIN tvb : i # id => tvb'[i] = tvb[i]
  BY DEF With
<1>5. t.foreign \/ t.source = id \/ t.source \in ToSet(c)
  OBVIOUS
<1> HIDE DEF c, n
<1>6. InChains({c}) = ToSet(c) /\ {id} \cap DOMAIN tvb = {}
  BY <1>1 DEF InChains
<1>7. Chains' /\ \A d \in chains : \E e \in chains' : ToSet(d) \subseteq ToSet(e)
  BY <1>1, <1>2, <1>3, <1>4, <1>6, Merged
<1>8. ToSet(n) = {id} \cup ToSet(c) /\ n \in chains'
  BY <1>2, <1>3, Enumerated
<1>9. WithItsData(tvb'[id], id, chains')
  BY <1>4, <1>5, <1>8 DEF WithItsData
<1> QED
  BY <1>1, <1>4, <1>7, <1>9, SourcesKept

LEMMA NewRealDataChained ==
  ASSUME Chains, Sources, NEW id \in Tvbs, NEW size, NEW reported,
         NewRealData(id, size, reported)
  PROVE  Chains' /\ Sources'
<1>1. /\ id \notin DOMAIN tvb /\ With(id, RealData(id, size, reported))
      /\ chains' = (chains \ {}) \cup {<<id>>}
  BY DEF NewRealData, Unused
<1>2. /\ DOMAIN tvb' = DOMAIN tvb \cup {id} /\ tvb'[id].source = id
      /\ \A i \in DOMAIN tvb : tvb'[i] = tvb[i]
  BY <1>1 DEF With, RealData
<1>3. Enumerates(<<id>>, {id} \cup InChains({})) /\ ToSet(<<id>>) = {id}
  <2>1. {id} \cup InChains({}) = {id}
    BY DEF InChains
  <2> QED
    BY <2>1, Single
<1>4. Chains' /\ \A c \in chains : \E d \in chains' : ToSet(c) \subseteq ToSet(d)
  <2>1. {} \in SUBSET chains /\ {id} \cap DOMAIN tvb = {}
    BY <1>1
  <2> QED
    BY <1>1, <1>2, <1>3, <2>1, Merged
<1>5. WithItsData(tvb'[id], id, chains')
  BY <1>1, <1>2, <1>3 DEF WithItsData
<1> QED
  BY <1>2, <1>4, <1>5, SourcesKept

LEMMA NewChildRealDataChained ==
  ASSUME Chains, Sources, NEW parent \in DOMAIN tvb, NEW id \in Tvbs, NEW size, NEW reported,
         NewChildRealData(parent, id, size, reported)
  PROVE  Chains' /\ Sources'
<1>1. /\ id \in Unused /\ With(id, RealData(id, size, reported)) /\ AddToChain(parent, id)
      /\ RealData(id, size, reported).source = id
  BY DEF NewChildRealData, RealData
<1> QED
  BY <1>1, Added

(* Two whole chains become one, so the child's data comes along.          *)
LEMMA SetChildRealDataChained ==
  ASSUME Chains, Sources, NEW parent \in DOMAIN tvb, NEW child \in DOMAIN tvb,
         SetChildRealData(parent, child)
  PROVE  Chains' /\ Sources'
<1> DEFINE c == ChainOf(parent)
           d == ChainOf(child)
           n == Chained(parent, d)
<1>1. /\ c \in chains /\ d \in chains /\ Enumerates(d, ToSet(d))
  BY ChainIs
<1>2. c # d /\ chains' = (chains \ {c, d}) \cup {n} /\ tvb' = tvb
  BY DEF SetChildRealData
<1>3. ToSet(d) \cap ToSet(c) = {}
  <2> HIDE DEF c, d
  <2> QED
    BY <1>1, <1>2 DEF Chains
<1>4. Enumerates(n, ToSet(d) \cup ToSet(c))
  BY <1>1, <1>3, ChainedEnumerates
<1> HIDE DEF c, d, n
<1>5. {} \cup InChains({c, d}) = ToSet(d) \cup ToSet(c)
  BY DEF InChains
<1>6. {c, d} \in SUBSET chains /\ {} \cap DOMAIN tvb = {} /\ DOMAIN tvb' = DOMAIN tvb \cup {}
  BY <1>1, <1>2
<1>7. Chains' /\ \A e \in chains : \E f \in chains' : ToSet(e) \subseteq ToSet(f)
  BY <1>2, <1>4, <1>5, <1>6, Merged
<1> QED
  BY <1>2, <1>7, SourcesKept

LEMMA SubsetChained ==
  ASSUME AllSound, Chains, Sources, NEW backing \in DOMAIN tvb, NEW id, NEW offset, NEW length,
         NEW reported, Subset(backing, id, offset, length, reported)
  PROVE  Chains' /\ Sources'
<1> DEFINE b == tvb[backing]
           t == WithSubset(b, reported, Absolute(b, offset), AbsoluteLength(b, offset, length))
<1>1. id \in Unused /\ With(id, t) /\ AddToChain(backing, id)
  BY DEF Subset
<1>2. t.source = b.source /\ t.foreign = b.foreign
  BY DEF AllSound, Sound, TvbFields, WithSubset
<1>3. b.foreign \/ b.source \in ToSet(ChainOf(backing))
  BY OneChain DEF Sources, WithItsData
<1> HIDE DEF b, t
<1> QED
  BY <1>1, <1>2, <1>3, Added

LEMMA NewChainChained ==
  ASSUME AllSound, Chains, Sources, NEW parent \in DOMAIN tvb, NEW backing \in DOMAIN tvb,
         NEW id, NewChain(parent, backing, id)
  PROVE  Chains' /\ Sources'
<1> DEFINE b == tvb[backing]
           w == WithSubset(b, b.reported, 0, b.length)
           t == [w EXCEPT !.foreign = @ \/ ChainOf(parent) # ChainOf(backing)]
<1>1. id \in Unused /\ With(id, t) /\ AddToChain(parent, id)
  BY DEF NewChain
<1>2. w.source = b.source /\ w.foreign = b.foreign /\ t.source = w.source
      /\ t.foreign = (w.foreign \/ ChainOf(parent) # ChainOf(backing))
  BY DEF AllSound, Sound, TvbFields, WithSubset
<1>3. b.foreign \/ b.source \in ToSet(ChainOf(backing))
  BY OneChain DEF Sources, WithItsData
<1> HIDE DEF b, w, t
<1>4. t.foreign \/ t.source \in ToSet(ChainOf(parent))
  BY <1>2, <1>3
<1> QED
  BY <1>1, <1>4, Added

LEMMA FreeChainChained ==
  ASSUME Chains, Sources, NEW head \in DOMAIN tvb, FreeChain(head)
  PROVE  Chains' /\ Sources'
<1> DEFINE c == ChainOf(head)
<1>1. c \in chains /\ chains' = chains \ {c} /\ tvb' = [i \in DOMAIN tvb \ ToSet(c) |-> tvb[i]]
  BY ChainIs DEF FreeChain
<1> HIDE DEF c
<1>2. \A d \in chains' : Enumerates(d, ToSet(d))
  BY <1>1 DEF Chains
<1>3. \A d, e \in chains' : d = e \/ ToSet(d) \cap ToSet(e) = {}
  BY <1>1 DEF Chains
<1>4. InChains(chains') = DOMAIN tvb'
  BY <1>1 DEF Chains, InChains
<1>5. ASSUME NEW i \in DOMAIN tvb' PROVE WithItsData(tvb'[i], i, chains')
  <2>1. i \in DOMAIN tvb /\ i \notin ToSet(c) /\ tvb'[i] = tvb[i]
    BY <1>1
  <2> QED
    BY <1>1, <2>1 DEF Sources, WithItsData
<1> QED
  BY <1>2, <1>3, <1>4, <1>5 DEF Chains, Sources, WithItsData

LEMMA FieldsChained ==
  ASSUME Chains, Sources, UNCHANGED chains, DOMAIN tvb' = DOMAIN tvb,
         \A i \in DOMAIN tvb : tvb'[i].source = tvb[i].source /\ tvb'[i].foreign = tvb[i].foreign
  PROVE  Chains' /\ Sources'
BY SourcesKept DEF Chains

LEMMA NextChained ==
  ASSUME AllSound, Chains, Sources, [Next]_vars
  PROVE  Chains' /\ Sources'
<1>1. CASE UNCHANGED vars
  BY <1>1, FieldsChained DEF vars
<1>2. CASE \E id \in Tvbs, size \in 0 .. MaxSize, reported \in Gint :
             \/ NewRealData(id, size, reported)
             \/ \E parent \in DOMAIN tvb : NewChildRealData(parent, id, size, reported)
  BY <1>2, NewRealDataChained, NewChildRealDataChained
<1>3. CASE \E parent, child \in DOMAIN tvb : SetChildRealData(parent, child)
  BY <1>3, SetChildRealDataChained
<1>4. ASSUME NEW backing \in DOMAIN tvb, NEW id \in Tvbs, NEW offset \in Gint,
             \/ \E reported \in Gint :
                  \/ \E length \in Gint :
                       NewSubsetLengthCaplen(backing, id, offset, length, reported)
                  \/ NewSubsetLength(backing, id, offset, reported)
             \/ NewSubsetRemaining(backing, id, offset)
      PROVE  Chains' /\ Sources'
  <2>1. \E length, reported : Subset(backing, id, offset, length, reported)
    BY <1>4 DEF NewSubsetLengthCaplen, NewSubsetLength, NewSubsetRemaining
  <2> QED
    BY <2>1, SubsetChained
<1>5. CASE \E parent, backing \in DOMAIN tvb, id \in Tvbs : NewChain(parent, backing, id)
  BY <1>5, NewChainChained
<1>6. CASE \E id \in DOMAIN tvb, reported \in Guint : SetReportedLength(id, reported)
  BY <1>6, FieldsChained DEF SetReportedLength, AllSound, Sound, TvbFields
<1>7. CASE \E id \in DOMAIN tvb : SetFragment(id)
  BY <1>7, FieldsChained DEF SetFragment, AllSound, Sound, TvbFields
<1>8. CASE \E id \in DOMAIN tvb : FreeChain(id)
  BY <1>8, FreeChainChained
<1> QED
  BY <1>1, <1>2, <1>3, <1>4, <1>5, <1>6, <1>7, <1>8 DEF Next

LEMMA ChainsSuffice ==
  ASSUME Chains, Sources
  PROVE  FreedTogether
<1>1. ASSUME NEW id \in DOMAIN tvb
      PROVE  /\ ChainOf(id) \in chains /\ Contains(ChainOf(id), id)
             /\ \A d \in chains \ {ChainOf(id)} : ~Contains(d, id)
             /\ Contains(ChainOf(id), tvb[id].source) \/ tvb[id].foreign
  <2>1. \A d \in chains : \A e : Contains(d, e) <=> e \in ToSet(d)
    BY Enumerated DEF Chains
  <2>2. ChainOf(id) \in chains /\ id \in ToSet(ChainOf(id))
    BY ChainIs
  <2>3. \A d \in chains : id \in ToSet(d) => d = ChainOf(id)
    BY OneChain
  <2>4. tvb[id].foreign \/ tvb[id].source \in ToSet(ChainOf(id))
    BY <2>3 DEF Sources, WithItsData
  <2> HIDE DEF ChainOf
  <2> QED
    BY <2>1, <2>2, <2>3, <2>4
<1>2. ASSUME NEW c \in chains PROVE ToSet(c) \subseteq DOMAIN tvb /\ IsInjective(c)
  BY Enumerated DEF Chains, InChains
<1> QED
  BY <1>1, <1>2 DEF FreedTogether

(* Through any sequence of windows, proxies, joined and freed chains, a   *)
(* tvbuff is in exactly one chain, once, that is made of live tvbuffs and *)
(* has the data behind it, unless tvb_new_chain put it elsewhere: what    *)
(* tvb_add_to_chain links is lost from no chain, and tvb_free_chain frees *)
(* nothing twice and leaves no window on freed data.                      *)
THEOREM ChainsFreeTogether == Spec => []FreedTogether
<1> DEFINE Inv == AllSound /\ Chains /\ Sources
<1>1. Init => Inv
  BY DEF Init, AllSound, Chains, Sources, InChains
<1>2. Inv /\ [Next]_vars => Inv'
  BY NextKeeps, NextChained
<1>3. Inv => FreedTogether
  BY ChainsSuffice
<1> HIDE DEF Inv
<1> QED
  BY <1>1, <1>2, <1>3, PTL DEF Spec

-----------------------------------------------------------------------------
(***************************************************************************)
(* The tree of protocol items.                                             *)
(***************************************************************************)

Node == [hf : Hf \cup {<< >>}, parent : Nat, first : Nat, last : Nat, next : Nat]
Dissector == [protocol : Protocols, given : Nat, held : SUBSET Nat]
DataRecord == [visible : BOOLEAN, fake_protocols : BOOLEAN, count : Int,
               interesting : [Hf -> Seq(Nat)]]

(* The nodes of a field, and whether all its items are to be found. *)
Items(hf) == {n \in DOMAIN nodes : nodes[n].hf = hf}
Wanted(hf) == hf \in primed \/ data.visible \/ (IsProtocol(hf) /\ ~data.fake_protocols)

Typed ==
  /\ refType \in [Hf -> {"none", "indirect", "direct"}]
  /\ phase \in {"none", "ready", "running", "done"}
  /\ nodes \in Seq(Node) /\ data \in DataRecord /\ dissectors \in Seq(Dissector)
  /\ primed \in SUBSET Hf /\ asked \in [Hf -> Nat]

(* A primed field and its protocol are marked. *)
Marked == \A hf \in primed : refType[hf] = "direct" /\ refType[Parent(hf)] # "none"

(* Dissectors are there while the tree is built and no longer, and nothing *)
(* is in it before.                                                        *)
Quiet ==
  /\ phase = "running" <=> dissectors # << >>
  /\ phase = "ready" => \A hf \in Hf : /\ Items(hf) = {} /\ asked[hf] = 0
                                       /\ data.interesting[hf] = << >>

(* A dissector without a tree belongs to a protocol nobody looks for. *)
LeftOut ==
  \A i \in DOMAIN dissectors :
    Null \in dissectors[i].held =>
      \A hf \in Hf : hf[1] = dissectors[i].protocol => ~Wanted(hf)

Counted ==
  phase # "none" => \A hf \in Hf : Wanted(hf) => Cardinality(Items(hf)) = asked[hf]

Recorded ==
  \A hf \in primed : /\ ToSet(data.interesting[hf]) = Items(hf)
                     /\ Ascends(data.interesting[hf])

IInv == Typed /\ Marked /\ Quiet /\ LeftOut /\ Counted /\ Recorded

-----------------------------------------------------------------------------
(***************************************************************************)
(* Fields and nodes.                                                       *)
(***************************************************************************)

(* A field's protocol is a field too, and a protocol's own. *)
LEMMA FieldParts ==
  ASSUME NEW hf \in Hf
  PROVE  /\ Parent(hf) \in Hf /\ hf[1] \in Protocols /\ << hf[1] >> = Parent(hf)
         /\ IsProtocol(hf) => Parent(hf) = hf
         /\ hf # << >>
<1>1. CASE hf \in {<<p>> : p \in Protocols}
  BY <1>1 DEF Hf, Parent, IsProtocol
<1>2. CASE hf \in Protocols \X Fields
  BY <1>2 DEF Hf, Parent, IsProtocol
<1> QED
  BY <1>1, <1>2 DEF Hf

(* A link set in a node leaves the items as they are. *)
SameItems(before, after) ==
  /\ after \in Seq(Node) /\ Len(after) = Len(before)
  /\ \A n \in 1 .. Len(before) : after[n].hf = before[n].hf

LEMMA FirstSet ==
  ASSUME NEW ns \in Seq(Node), NEW i, NEW v \in Nat
  PROVE  SameItems(ns, [ns EXCEPT ![i].first = v])
<1> DEFINE ms == [ns EXCEPT ![i].first = v]
<1>1. ASSUME NEW n \in 1 .. Len(ns)
      PROVE  ms[n] \in Node /\ ms[n].hf = ns[n].hf
  <2>1. ns[n] \in Node
    OBVIOUS
  <2>2. ms[n] = ns[n] \/ ms[n] = [ns[n] EXCEPT !.first = v]
    OBVIOUS
  <2>3. [ns[n] EXCEPT !.first = v] \in Node /\ [ns[n] EXCEPT !.first = v].hf = ns[n].hf
    BY <2>1 DEF Node
  <2> QED
    BY <2>1, <2>2, <2>3
<1>2. ms \in [1 .. Len(ns) -> Node]
  <2>1. DOMAIN ms = 1 .. Len(ns)
    OBVIOUS
  <2>2. ms = [n \in 1 .. Len(ns) |-> ms[n]]
    BY <2>1
  <2> HIDE DEF ms
  <2> QED
    BY <1>1, <2>2
<1> HIDE DEF ms
<1>3. ms \in Seq(Node) /\ Len(ms) = Len(ns)
  BY <1>2
<1> QED
  BY <1>1, <1>3 DEF SameItems, ms

LEMMA LastSet ==
  ASSUME NEW ns \in Seq(Node), NEW i, NEW v \in Nat
  PROVE  SameItems(ns, [ns EXCEPT ![i].last = v])
<1> DEFINE ms == [ns EXCEPT ![i].last = v]
<1>1. ASSUME NEW n \in 1 .. Len(ns)
      PROVE  ms[n] \in Node /\ ms[n].hf = ns[n].hf
  <2>1. ns[n] \in Node
    OBVIOUS
  <2>2. ms[n] = ns[n] \/ ms[n] = [ns[n] EXCEPT !.last = v]
    OBVIOUS
  <2>3. [ns[n] EXCEPT !.last = v] \in Node /\ [ns[n] EXCEPT !.last = v].hf = ns[n].hf
    BY <2>1 DEF Node
  <2> QED
    BY <2>1, <2>2, <2>3
<1>2. ms \in [1 .. Len(ns) -> Node]
  <2>1. DOMAIN ms = 1 .. Len(ns)
    OBVIOUS
  <2>2. ms = [n \in 1 .. Len(ns) |-> ms[n]]
    BY <2>1
  <2> HIDE DEF ms
  <2> QED
    BY <1>1, <2>2
<1> HIDE DEF ms
<1>3. ms \in Seq(Node) /\ Len(ms) = Len(ns)
  BY <1>2
<1> QED
  BY <1>1, <1>3 DEF SameItems, ms

LEMMA NextSet ==
  ASSUME NEW ns \in Seq(Node), NEW i, NEW v \in Nat
  PROVE  SameItems(ns, [ns EXCEPT ![i].next = v])
<1> DEFINE ms == [ns EXCEPT ![i].next = v]
<1>1. ASSUME NEW n \in 1 .. Len(ns)
      PROVE  ms[n] \in Node /\ ms[n].hf = ns[n].hf
  <2>1. ns[n] \in Node
    OBVIOUS
  <2>2. ms[n] = ns[n] \/ ms[n] = [ns[n] EXCEPT !.next = v]
    OBVIOUS
  <2>3. [ns[n] EXCEPT !.next = v] \in Node /\ [ns[n] EXCEPT !.next = v].hf = ns[n].hf
    BY <2>1 DEF Node
  <2> QED
    BY <2>1, <2>2, <2>3
<1>2. ms \in [1 .. Len(ns) -> Node]
  <2>1. DOMAIN ms = 1 .. Len(ns)
    OBVIOUS
  <2>2. ms = [n \in 1 .. Len(ns) |-> ms[n]]
    BY <2>1
  <2> HIDE DEF ms
  <2> QED
    BY <1>1, <2>2
<1> HIDE DEF ms
<1>3. ms \in Seq(Node) /\ Len(ms) = Len(ns)
  BY <1>2
<1> QED
  BY <1>1, <1>3 DEF SameItems, ms

LEMMA NodeParts ==
  ASSUME NEW ns \in Seq(Node), NEW n \in DOMAIN ns
  PROVE  ns[n].hf \in Hf \cup {<< >>} /\ ns[n].last \in Nat /\ ns[n].next \in Nat /\ n \in Nat
<1>1. ns[n] \in Node /\ n \in Nat
  OBVIOUS
<1> QED
  BY <1>1 DEF Node

(* proto_tree_add_node adds one node, the last, and no other. *)
LEMMA NodeAdded ==
  ASSUME nodes \in Seq(Node), NEW tree \in DOMAIN nodes, NEW hf \in Hf
  PROVE  LET after == AddNode(tree, hf)
             new == Len(nodes) + 1
         IN  /\ after \in Seq(Node) /\ Len(after) = new
             /\ after[new].hf = hf
             /\ \A n \in 1 .. Len(nodes) : after[n].hf = nodes[n].hf
<1> DEFINE new == Len(nodes) + 1
           chained == [nodes EXCEPT ![nodes[tree].last].next = new]
           begun == [nodes EXCEPT ![tree].first = new]
           linked == IF nodes[tree].last # Null
                     THEN [chained EXCEPT ![tree].last = new]
                     ELSE [begun EXCEPT ![tree].last = new]
<1>1. new \in Nat /\ NewNode(hf, tree) \in Node /\ NewNode(hf, tree).hf = hf
  BY DEF NewNode, Node, Null
<1>2. AddNode(tree, hf) = Append(linked, NewNode(hf, tree))
  BY DEF AddNode
<1>3. SameItems(nodes, chained) /\ SameItems(nodes, begun)
  BY <1>1, NextSet, FirstSet
<1>4. SameItems(nodes, linked)
  <2>1. chained \in Seq(Node) /\ begun \in Seq(Node)
    BY <1>3 DEF SameItems
  <2> HIDE DEF new, chained, begun
  <2>2. SameItems(chained, [chained EXCEPT ![tree].last = new])
    BY <1>1, <2>1, LastSet DEF new
  <2>3. SameItems(begun, [begun EXCEPT ![tree].last = new])
    BY <1>1, <2>1, LastSet DEF new
  <2> QED
    BY <1>3, <2>2, <2>3 DEF SameItems
<1> HIDE DEF linked
<1> QED
  BY <1>1, <1>2, <1>4 DEF SameItems

(* proto_tree_move_item adds no node and takes none away. *)
LEMMA ItemsMoved ==
  ASSUME nodes \in Seq(Node), NEW tree \in DOMAIN nodes, NEW fixed \in DOMAIN nodes,
         NEW item \in DOMAIN nodes, Linked(tree, item)
  PROVE  SameItems(nodes, PutBehind(CutOut(tree, item), tree, fixed, item))
<1> DEFINE cut == CutOut(tree, item)
<1>1. SameItems(nodes, cut)
  <2>1. nodes[item].next \in Nat /\ nodes[tree].last \in Nat
    BY NodeParts
  <2>2. CASE nodes[tree].first = item
    <3> DEFINE opened == [nodes EXCEPT ![tree].first = nodes[item].next]
    <3>1. cut = opened
      BY <2>2 DEF CutOut
    <3>2. SameItems(nodes, opened)
      BY <2>1, FirstSet
    <3> HIDE DEF cut, opened
    <3> QED
      BY <3>1, <3>2
  <2>3. CASE nodes[tree].first # item
    <3> DEFINE before == Before(item)
               closed == [nodes EXCEPT ![before].next = nodes[item].next]
               last == IF closed[tree].last = item THEN before ELSE closed[tree].last
    <3>1. before \in Nat
      BY <2>3 DEF Linked, Before
    <3>2. cut = [closed EXCEPT ![tree].last = last]
      BY <2>3 DEF CutOut
    <3>3. SameItems(nodes, closed)
      BY <2>1, NextSet
    <3> HIDE DEF before, closed
    <3>4. closed \in Seq(Node) /\ tree \in DOMAIN closed
      BY <3>3 DEF SameItems
    <3>5. closed[tree].last \in Nat
      BY <3>4, NodeParts
    <3>6. last \in Nat
      BY <3>1, <3>5
    <3> HIDE DEF last
    <3>7. SameItems(closed, [closed EXCEPT ![tree].last = last])
      BY <3>4, <3>6, LastSet
    <3> QED
      BY <3>2, <3>3, <3>7 DEF SameItems
  <2> QED
    BY <2>2, <2>3
<1> HIDE DEF cut
<1>2. SameItems(cut, PutBehind(cut, tree, fixed, item))
  <2> DEFINE one == [cut EXCEPT ![item].next = cut[fixed].next]
             two == [one EXCEPT ![fixed].next = item]
             last == IF two[tree].last = fixed THEN item ELSE two[tree].last
  <2>1. cut \in Seq(Node) /\ DOMAIN cut = DOMAIN nodes /\ item \in Nat
    BY <1>1 DEF SameItems
  <2>2. cut[fixed].next \in Nat
    BY <2>1, NodeParts
  <2>3. PutBehind(cut, tree, fixed, item) = [two EXCEPT ![tree].last = last]
    BY DEF PutBehind
  <2>4. SameItems(cut, one)
    BY <2>1, <2>2, NextSet
  <2> HIDE DEF one
  <2>5. SameItems(one, two)
    BY <2>1, <2>4, NextSet DEF SameItems
  <2> HIDE DEF two
  <2>6. two \in Seq(Node) /\ DOMAIN two = DOMAIN nodes
    BY <2>1, <2>4, <2>5 DEF SameItems
  <2>7. two[tree].last \in Nat
    BY <2>6, NodeParts
  <2>8. last \in Nat
    BY <2>1, <2>7
  <2> HIDE DEF last
  <2>9. SameItems(two, [two EXCEPT ![tree].last = last])
    BY <2>6, <2>8, LastSet
  <2> QED
    BY <2>1, <2>3, <2>4, <2>5, <2>6, <2>9 DEF SameItems
<1> QED
  BY <1>1, <1>2 DEF SameItems, cut

-----------------------------------------------------------------------------
(***************************************************************************)
(* Each action keeps the invariant.                                        *)
(***************************************************************************)

(* Nodes that differ in their links only have the same items. *)
LEMMA SameFound ==
  ASSUME nodes \in Seq(Node), SameItems(nodes, nodes'), NEW hf \in Hf
  PROVE  Items(hf)' = Items(hf)
  BY DEF SameItems, Items

(* A tree that is created or reset, or that is freed, has nothing in it. *)
LEMMA FreshKeeps ==
  ASSUME Typed, FreshTree,
         refType' \in [Hf -> {"none", "indirect", "direct"}],
         data' \in DataRecord, data'.interesting = NoneTracked
  PROVE  IInv'
<1>1. /\ phase' = "ready" /\ dissectors' = << >> /\ nodes' = << NewNode(<< >>, Null) >>
      /\ primed' = {} /\ asked' = [hf \in Hf |-> 0]
  BY DEF FreshTree
<1>2. NewNode(<< >>, Null) \in Node /\ NewNode(<< >>, Null).hf = << >>
  BY DEF NewNode, Node, Null
<1>3. \A hf \in Hf : Items(hf)' = {}
  <2> SUFFICES ASSUME NEW hf \in Hf PROVE Items(hf)' = {}
    OBVIOUS
  <2> QED
    BY <1>1, <1>2, FieldParts DEF Items
<1>4. Typed'
  BY <1>1, <1>2 DEF Typed
<1>5. Quiet'
  BY <1>1, <1>3 DEF Quiet, NoneTracked
<1>6. Counted'
  BY <1>1, <1>3, FS_EmptySet DEF Counted
<1> QED
  BY <1>1, <1>4, <1>5, <1>6 DEF IInv, Marked, LeftOut, Recorded

(* free_GPtrArray_value leaves marks. *)
LEMMA MarksLeft ==
  ASSUME Typed
  PROVE  Unreferenced \in [Hf -> {"none", "indirect", "direct"}]
  BY DEF Typed, Unreferenced

LEMMA CreateKeeps ==
  ASSUME IInv, NEW visible \in BOOLEAN, NEW fake \in BOOLEAN, CreateRoot(visible, fake)
  PROVE  IInv'
<1>1. data' \in DataRecord /\ data'.interesting = NoneTracked
  BY DEF CreateRoot, TreeData, DataRecord, NoneTracked
<1> QED
  BY <1>1, FreshKeeps DEF CreateRoot, IInv, Typed

LEMMA ResetKeeps ==
  ASSUME IInv, ResetTree
  PROVE  IInv'
<1>1. NoneTracked \in [Hf -> Seq(Nat)]
  BY DEF NoneTracked
<1>2. data \in DataRecord /\ data' = [data EXCEPT !.count = 0, !.interesting = NoneTracked]
  BY DEF ResetTree, IInv, Typed
<1>3. data' \in DataRecord /\ data'.interesting = NoneTracked
  <2>1. DOMAIN data = {"visible", "fake_protocols", "count", "interesting"}
    BY <1>2 DEF DataRecord
  <2>2. data'.interesting = NoneTracked
    BY <1>2, <2>1
  <2>3. data'.count = 0 /\ data'.visible = data.visible /\ data'.fake_protocols = data.fake_protocols
    BY <1>2, <2>1
  <2>4. data' = [visible |-> data.visible, fake_protocols |-> data.fake_protocols,
                 count |-> 0, interesting |-> NoneTracked]
    BY <1>2 DEF DataRecord
  <2> QED
    BY <1>1, <1>2, <2>2, <2>4 DEF DataRecord
<1> QED
  BY <1>3, FreshKeeps, MarksLeft DEF ResetTree, IInv

LEMMA FreeKeeps ==
  ASSUME IInv, FreeTree
  PROVE  IInv'
<1>1. /\ phase' = "none" /\ nodes' = << >> /\ data' = NoData
      /\ primed' = {} /\ asked' = [hf \in Hf |-> 0] /\ dissectors' = << >>
      /\ refType' = Unreferenced
  BY DEF FreeTree, IInv, Quiet
<1>2. data' \in DataRecord
  BY <1>1 DEF NoData, TreeData, DataRecord, NoneTracked
<1>3. Typed'
  BY <1>1, <1>2, MarksLeft DEF Typed, IInv
<1> QED
  BY <1>1, <1>3 DEF IInv, Marked, Quiet, LeftOut, Counted, Recorded

LEMMA PrimeKeeps ==
  ASSUME IInv, NEW hf \in Hf, PrimeWithHfid(hf)
  PROVE  IInv'
<1> DEFINE direct == [refType EXCEPT ![hf] = "direct"]
<1>1. /\ phase = "ready" /\ primed' = primed \cup {hf}
      /\ refType' = IF IsProtocol(hf) \/ direct[Parent(hf)] = "direct"
                    THEN direct ELSE [direct EXCEPT ![Parent(hf)] = "indirect"]
      /\ UNCHANGED <<phase, nodes, data, dissectors, asked>>
  BY DEF PrimeWithHfid
<1>2. direct \in [Hf -> {"none", "indirect", "direct"}] /\ direct[hf] = "direct"
      /\ Parent(hf) \in Hf
  BY FieldParts DEF IInv, Typed
<1>3. refType' \in [Hf -> {"none", "indirect", "direct"}]
  BY <1>1, <1>2
<1>4. Typed'
  BY <1>1, <1>3 DEF IInv, Typed
<1>5. refType'[hf] = "direct" /\ refType'[Parent(hf)] # "none"
  <2>1. CASE IsProtocol(hf)
    BY <1>1, <1>2, <2>1, FieldParts
  <2>2. CASE ~IsProtocol(hf)
    <3>1. Parent(hf) # hf
      BY FieldParts, <2>2 DEF IsProtocol, Parent
    <3> QED
      BY <1>1, <1>2, <2>2, <3>1
  <2> QED
    BY <2>1, <2>2
<1>6. \A f \in Hf : /\ refType[f] # "none" => refType'[f] # "none"
                    /\ refType[f] = "direct" => refType'[f] = "direct"
  <2> SUFFICES ASSUME NEW f \in Hf
               PROVE  /\ refType[f] # "none" => refType'[f] # "none"
                      /\ refType[f] = "direct" => refType'[f] = "direct"
    OBVIOUS
  <2>1. direct[f] = refType[f] \/ direct[f] = "direct"
    BY DEF IInv, Typed
  <2>2. refType[f] = "direct" => direct[f] = "direct"
    BY DEF IInv, Typed
  <2>3. \/ refType' = direct
        \/ /\ refType' = [direct EXCEPT ![Parent(hf)] = "indirect"]
           /\ direct[Parent(hf)] # "direct"
    BY <1>1
  <2> QED
    BY <1>2, <2>1, <2>2, <2>3
<1>7. Marked'
  <2> SUFFICES ASSUME NEW f \in primed'
               PROVE  refType'[f] = "direct" /\ refType'[Parent(f)] # "none"
    BY DEF Marked
  <2>1. CASE f = hf
    BY <1>5, <2>1
  <2>2. CASE f # hf
    <3>1. f \in primed /\ f \in Hf /\ Parent(f) \in Hf
      BY <1>1, <2>2, FieldParts DEF IInv, Typed
    <3> QED
      BY <1>6, <3>1 DEF IInv, Marked
  <2> QED
    BY <2>1, <2>2
<1>8. dissectors = << >>
  BY <1>1 DEF IInv, Quiet
<1>9. \A f \in Hf : Items(f)' = {} /\ asked'[f] = 0 /\ data'.interesting[f] = << >>
  BY <1>1 DEF IInv, Quiet, Items
<1>10. Quiet' /\ LeftOut'
  BY <1>1, <1>8, <1>9 DEF Quiet, LeftOut
<1>11. Counted'
  BY <1>9, FS_EmptySet DEF Counted
<1>12. Recorded'
  <2> SUFFICES ASSUME NEW f \in primed'
               PROVE  ToSet(data'.interesting[f]) = Items(f)' /\ Ascends(data'.interesting[f])
    BY DEF Recorded
  <2>1. f \in Hf
    BY <1>1 DEF IInv, Typed
  <2>2. data'.interesting[f] = << >> /\ Items(f)' = {}
    BY <1>9, <2>1
  <2> QED
    BY <2>2 DEF ToSet, Ascends
<1> QED
  BY <1>4, <1>7, <1>10, <1>11, <1>12 DEF IInv

(* What a dissector that is called holds. *)
LEMMA DissectKeeps ==
  ASSUME IInv, NEW protocol \in Protocols, NEW tree \in Nat \ {Null}, NEW asks \in BOOLEAN,
         Dissect(protocol, tree, asks), phase \in {"ready", "running"}, phase' = "running",
         UNCHANGED <<refType, nodes, data, primed, asked>>
  PROVE  IInv'
<1> DEFINE new == [protocol |-> protocol, given |-> tree,
                   held |-> {IF asks /\ ~FieldIsReferenced(tree, <<protocol>>) THEN Null ELSE tree}]
<1>1. new \in Dissector /\ dissectors' = Append(dissectors, new) /\ dissectors \in Seq(Dissector)
  BY DEF Dissect, Dissector, Null, IInv, Typed
<1>2. Typed'
  BY <1>1 DEF IInv, Typed
<1>3. \A hf : UNCHANGED Items(hf) /\ (Wanted(hf)' <=> Wanted(hf))
  BY DEF Items, Wanted
<1>4. LeftOut'
  <2> SUFFICES ASSUME NEW i \in DOMAIN dissectors', Null \in dissectors'[i].held,
                      NEW hf \in Hf, hf[1] = dissectors'[i].protocol
               PROVE  ~Wanted(hf)
    BY <1>3 DEF LeftOut
  <2>1. CASE i \in DOMAIN dissectors
    <3>1. dissectors'[i] = dissectors[i]
      BY <1>1, <2>1
    <3> QED
      BY <2>1, <3>1 DEF IInv, LeftOut
  <2>2. CASE i \notin DOMAIN dissectors
    <3>1. dissectors'[i] = new
      BY <1>1, <2>2
    <3>2. ~FieldIsReferenced(tree, <<protocol>>) /\ hf[1] = protocol
      BY <3>1 DEF Null
    <3>3. Parent(hf) = <<protocol>> /\ (IsProtocol(hf) => hf = <<protocol>>)
      BY <3>2, FieldParts
    <3>4. /\ ~data.visible /\ refType[Parent(hf)] = "none"
          /\ (IsProtocol(<<protocol>>) => data.fake_protocols)
      BY <3>2, <3>3 DEF FieldIsReferenced
    <3>5. hf \notin primed
      BY <3>4 DEF IInv, Marked
    <3> QED
      BY <3>3, <3>4, <3>5 DEF Wanted
  <2> QED
    BY <2>1, <2>2
<1>5. Quiet'
  <2>1. dissectors' # << >>
    BY <1>1
  <2> QED
    BY <2>1 DEF Quiet
<1>6. phase # "none" /\ Marked' /\ Recorded'
  BY <1>3 DEF IInv, Marked, Recorded
<1>7. Counted'
  BY <1>3, <1>6 DEF IInv, Counted
<1> QED
  BY <1>2, <1>4, <1>5, <1>6, <1>7 DEF IInv

(* Dissectors that have returned or were left hold nothing. *)
LEMMA BackKeeps ==
  ASSUME IInv, NEW n \in 0 .. Len(dissectors), phase = "running", BackTo(n),
         data' \in DataRecord,
         data'.visible = data.visible, data'.fake_protocols = data.fake_protocols,
         data'.interesting = data.interesting,
         UNCHANGED <<refType, nodes, primed, asked>>
  PROVE  IInv'
<1>1. /\ dissectors' \in Seq(Dissector) /\ Len(dissectors') = n
      /\ \A i \in 1 .. n : dissectors'[i] = dissectors[i]
  BY DEF BackTo, IInv, Typed
<1>2. phase' = IF n = 0 THEN "done" ELSE "running"
  BY DEF BackTo
<1>3. Typed'
  BY <1>1, <1>2 DEF IInv, Typed
<1>4. \A hf : UNCHANGED Items(hf) /\ (Wanted(hf)' <=> Wanted(hf))
  BY DEF Items, Wanted
<1>5. Quiet'
  <2>1. phase' = "running" <=> dissectors' # << >>
    <3>1. dissectors' = << >> <=> n = 0
      BY <1>1
    <3> QED
      BY <1>2, <3>1
  <2> QED
    BY <1>2, <2>1 DEF Quiet
<1>6. LeftOut'
  <2> SUFFICES ASSUME NEW i \in DOMAIN dissectors', Null \in dissectors'[i].held,
                      NEW hf \in Hf, hf[1] = dissectors'[i].protocol
               PROVE  ~Wanted(hf)
    BY <1>4 DEF LeftOut
  <2>1. i \in DOMAIN dissectors /\ dissectors'[i] = dissectors[i]
    BY <1>1 DEF IInv, Typed
  <2> QED
    BY <2>1 DEF IInv, LeftOut
<1>7. Marked' /\ Counted' /\ Recorded'
  BY <1>4 DEF IInv, Marked, Counted, Recorded
<1> QED
  BY <1>3, <1>5, <1>6, <1>7 DEF IInv

(* The data of a tree after an item was counted, and after it was tracked. *)
CountIs(kept, n) == [kept EXCEPT !.count = n]
TrackedIs(kept, tracked) == [kept EXCEPT !.interesting = tracked]

LEMMA CountSet ==
  ASSUME NEW kept \in DataRecord, NEW n \in Int
  PROVE  /\ CountIs(kept, n) \in DataRecord
         /\ CountIs(kept, n).visible = kept.visible
         /\ CountIs(kept, n).fake_protocols = kept.fake_protocols
         /\ CountIs(kept, n).interesting = kept.interesting
  BY DEF DataRecord, CountIs

LEMMA TrackedSet ==
  ASSUME NEW kept \in DataRecord, NEW tracked \in [Hf -> Seq(Nat)]
  PROVE  /\ TrackedIs(kept, tracked) \in DataRecord
         /\ TrackedIs(kept, tracked).visible = kept.visible
         /\ TrackedIs(kept, tracked).fake_protocols = kept.fake_protocols
         /\ TrackedIs(kept, tracked).interesting = tracked
  BY DEF DataRecord, TrackedIs

(* What a dissector holds more after it got an item. *)
LEMMA GotKeeps ==
  ASSUME Typed, LeftOut, dissectors # << >>, NEW item \in Nat, NEW hf \in Hf,
         Got(item, hf), UNCHANGED primed,
         data'.visible = data.visible, data'.fake_protocols = data.fake_protocols,
         item = Null => Null \in Last(dissectors).held
  PROVE  /\ asked' = [asked EXCEPT ![hf] = @ + 1] /\ asked' \in [Hf -> Nat]
         /\ dissectors' \in Seq(Dissector) /\ dissectors' # << >> /\ LeftOut'
         /\ phase' = phase
<1> DEFINE n == Len(dissectors)
<1>1. n \in DOMAIN dissectors /\ dissectors[n] = Last(dissectors) /\ dissectors \in Seq(Dissector)
  BY DEF Typed, Last
<1>2. dissectors[n] \in Dissector
  BY <1>1
<1>3. /\ [dissectors[n] EXCEPT !.held = @ \cup {item}] \in Dissector
      /\ [dissectors[n] EXCEPT !.held = @ \cup {item}].protocol = dissectors[n].protocol
      /\ [dissectors[n] EXCEPT !.held = @ \cup {item}].held = dissectors[n].held \cup {item}
  BY <1>2 DEF Dissector
<1>4. dissectors' = [dissectors EXCEPT ![n] = [dissectors[n] EXCEPT !.held = @ \cup {item}]]
  BY DEF Got
<1>5. /\ dissectors' \in Seq(Dissector) /\ DOMAIN dissectors' = DOMAIN dissectors
      /\ dissectors'[n].protocol = dissectors[n].protocol
      /\ dissectors'[n].held = dissectors[n].held \cup {item}
      /\ \A i \in DOMAIN dissectors : i # n => dissectors'[i] = dissectors[i]
  <2> DEFINE d == [dissectors[n] EXCEPT !.held = @ \cup {item}]
             ds == [dissectors EXCEPT ![n] = d]
  <2>1. /\ d \in Dissector /\ d.protocol = dissectors[n].protocol
        /\ d.held = dissectors[n].held \cup {item}
    BY <1>3
  <2>2. dissectors' = ds
    BY <1>4
  <2> HIDE DEF n, d
  <2>3. /\ DOMAIN ds = 1 .. Len(dissectors) /\ ds[n] = d
        /\ \A i \in 1 .. Len(dissectors) : i # n => ds[i] = dissectors[i]
    BY <1>1
  <2>4. ds = [i \in 1 .. Len(dissectors) |-> ds[i]]
    BY <2>3
  <2>5. \A i \in 1 .. Len(dissectors) : ds[i] \in Dissector
    BY <1>1, <2>1, <2>3
  <2> HIDE DEF ds
  <2>6. ds \in [1 .. Len(dissectors) -> Dissector]
    BY <2>4, <2>5
  <2>7. ds \in Seq(Dissector)
    BY <1>1, <2>6
  <2> QED
    BY <1>1, <2>1, <2>2, <2>3, <2>7
<1> HIDE DEF n
<1>6. LeftOut'
  <2> SUFFICES ASSUME NEW i \in DOMAIN dissectors', Null \in dissectors'[i].held,
                      NEW f \in Hf, f[1] = dissectors'[i].protocol
               PROVE  ~Wanted(f)'
    BY DEF LeftOut
  <2>1. Null \in dissectors[i].held /\ f[1] = dissectors[i].protocol /\ i \in DOMAIN dissectors
    BY <1>1, <1>5
  <2> QED
    BY <2>1 DEF LeftOut, Wanted
<1>7. dissectors' # << >>
  BY <1>1, <1>5
<1> QED
  BY <1>5, <1>6, <1>7 DEF Got, Typed

(* An item that is left out with the tree, or faked: nobody looks for it. *)
LEMMA UnwantedKeeps ==
  ASSUME IInv, phase = "running", dissectors # << >>, NEW item \in Nat, NEW hf \in Hf,
         Got(item, hf), item = Null => Null \in Last(dissectors).held,
         UNCHANGED <<refType, primed, nodes>>, data' \in DataRecord,
         data'.visible = data.visible, data'.fake_protocols = data.fake_protocols,
         data'.interesting = data.interesting, ~Wanted(hf)
  PROVE  IInv'
<1>1. /\ asked' = [asked EXCEPT ![hf] = @ + 1] /\ asked' \in [Hf -> Nat]
      /\ dissectors' \in Seq(Dissector) /\ dissectors' # << >> /\ LeftOut'
      /\ phase' = phase
  BY GotKeeps DEF IInv
<1>2. \A f : UNCHANGED Items(f) /\ (Wanted(f)' <=> Wanted(f))
  BY DEF Items, Wanted
<1>3. Typed'
  BY <1>1 DEF IInv, Typed
<1>4. Counted'
  <2> SUFFICES ASSUME NEW f \in Hf, Wanted(f) PROVE Cardinality(Items(f)) = asked'[f]
    BY <1>2 DEF Counted
  <2>1. f # hf
    OBVIOUS
  <2> QED
    BY <1>1, <2>1 DEF IInv, Counted, Typed
<1>5. Marked' /\ Quiet' /\ Recorded'
  BY <1>1, <1>2 DEF IInv, Marked, Quiet, Recorded
<1> QED
  BY <1>1, <1>3, <1>4, <1>5 DEF IInv

(* An item for which there is a node. *)
LEMMA NodeKeeps ==
  ASSUME IInv, phase = "running", dissectors # << >>,
         NEW tree \in DOMAIN nodes, NEW hf \in Hf,
         nodes' = AddNode(tree, hf), Got(Len(nodes'), hf),
         UNCHANGED <<refType, primed>>,
         data' = [data EXCEPT !.count = @ + 1, !.interesting = Tracked(hf, Len(nodes'))]
  PROVE  IInv'
<1> DEFINE new == Len(nodes) + 1
<1>1. /\ nodes' \in Seq(Node) /\ Len(nodes') = new /\ nodes'[new].hf = hf
      /\ \A n \in 1 .. Len(nodes) : nodes'[n].hf = nodes[n].hf
  BY NodeAdded DEF IInv, Typed
<1>2. new \in Nat /\ new # Null /\ Len(nodes) \in Nat
  BY DEF Null, IInv, Typed
<1>3. data \in DataRecord /\ data.count + 1 \in Int /\ data.interesting \in [Hf -> Seq(Nat)]
  BY DEF IInv, Typed, DataRecord
<1>4. Tracked(hf, new) \in [Hf -> Seq(Nat)]
  BY <1>2, <1>3 DEF Tracked
<1>5. /\ data' \in DataRecord /\ data'.interesting = Tracked(hf, new)
      /\ data'.visible = data.visible /\ data'.fake_protocols = data.fake_protocols
  <2> DEFINE tracked == Tracked(hf, new)
             n == data.count + 1
  <2>1. data' = [data EXCEPT !.count = n, !.interesting = tracked]
    <3>1. Tracked(hf, Len(nodes')) = tracked
      BY <1>1
    <3> HIDE DEF tracked
    <3> QED
      BY <3>1
  <2>2. tracked \in [Hf -> Seq(Nat)] /\ n \in Int
    BY <1>3, <1>4
  <2> HIDE DEF tracked, n
  <2>3. data' = TrackedIs(CountIs(data, n), tracked)
    BY <2>1 DEF TrackedIs, CountIs
  <2>4. /\ CountIs(data, n) \in DataRecord
        /\ CountIs(data, n).visible = data.visible
        /\ CountIs(data, n).fake_protocols = data.fake_protocols
    BY <1>3, <2>2, CountSet
  <2> DEFINE counted == CountIs(data, n)
  <2> HIDE DEF counted
  <2>5. /\ TrackedIs(counted, tracked) \in DataRecord
        /\ TrackedIs(counted, tracked).visible = counted.visible
        /\ TrackedIs(counted, tracked).fake_protocols = counted.fake_protocols
        /\ TrackedIs(counted, tracked).interesting = tracked
    <3>1. counted \in DataRecord
      BY <2>4 DEF counted
    <3> QED
      BY <2>2, <3>1, TrackedSet
  <2> QED
    BY <2>3, <2>4, <2>5 DEF counted, tracked
<1>6. /\ asked' = [asked EXCEPT ![hf] = @ + 1] /\ asked' \in [Hf -> Nat]
      /\ dissectors' \in Seq(Dissector) /\ dissectors' # << >> /\ LeftOut'
      /\ phase' = phase
  BY <1>1, <1>2, <1>5, GotKeeps DEF IInv
<1>7. Typed'
  BY <1>1, <1>5, <1>6 DEF IInv, Typed
<1>8. \A f : Wanted(f)' <=> Wanted(f)
  BY <1>5 DEF Wanted
<1>9. Items(hf)' = Items(hf) \cup {new} /\ new \notin Items(hf)
      /\ \A f \in Hf : f # hf => Items(f)' = Items(f)
  <2>1. DOMAIN nodes' = DOMAIN nodes \cup {new} /\ new \notin DOMAIN nodes
    BY <1>1, <1>2 DEF IInv, Typed
  <2>2. DOMAIN nodes = 1 .. Len(nodes)
    BY DEF IInv, Typed
  <2> HIDE DEF new
  <2>3. Items(hf)' = Items(hf) \cup {new}
    BY <1>1, <2>1, <2>2 DEF Items
  <2>4. new \notin Items(hf)
    BY <2>1 DEF Items
  <2>5. ASSUME NEW f \in Hf, f # hf PROVE Items(f)' = Items(f)
    BY <1>1, <2>1, <2>2, <2>5 DEF Items
  <2> QED
    BY <2>3, <2>4, <2>5
<1>10. \A f \in Hf : IsFiniteSet(Items(f))
  <2> SUFFICES ASSUME NEW f \in Hf PROVE IsFiniteSet(Items(f))
    OBVIOUS
  <2>1. Items(f) \subseteq 1 .. Len(nodes)
    BY DEF Items, IInv, Typed
  <2>2. IsFiniteSet(1 .. Len(nodes))
    <3>1. Len(nodes) \in Int /\ 1 \in Int
      BY <1>2
    <3> QED
      BY <3>1, FS_Interval
  <2> QED
    BY <2>1, <2>2, FS_Subset
<1>11. Cardinality(Items(hf)') = Cardinality(Items(hf)) + 1
  BY <1>9, <1>10, FS_AddElement
<1>12. Counted'
  <2> SUFFICES ASSUME NEW f \in Hf, Wanted(f) PROVE Cardinality(Items(f)') = asked'[f]
    BY <1>8 DEF Counted
  <2>1. Cardinality(Items(f)) = asked[f]
    BY DEF IInv, Counted
  <2>2. CASE f = hf
    BY <1>6, <1>11, <2>1, <2>2 DEF IInv, Typed
  <2>3. CASE f # hf
    BY <1>6, <1>9, <2>1, <2>3 DEF IInv, Typed
  <2> QED
    BY <2>2, <2>3
<1>13. Recorded'
  <2> SUFFICES ASSUME NEW f \in primed
               PROVE  /\ ToSet(Tracked(hf, new)[f]) = Items(f)'
                      /\ Ascends(Tracked(hf, new)[f])
    BY <1>5 DEF Recorded
  <2> DEFINE s == data.interesting[f]
  <2>1. /\ f \in Hf /\ refType[f] = "direct" /\ s \in Seq(Nat)
        /\ ToSet(s) = Items(f) /\ Ascends(s)
    BY <1>3 DEF IInv, Marked, Recorded, Typed
  <2>2. CASE f # hf
    <3>1. Tracked(hf, new)[f] = s
      BY <1>3, <2>1, <2>2 DEF Tracked
    <3> QED
      BY <1>9, <2>1, <2>2, <3>1
  <2>3. CASE f = hf
    <3> HIDE DEF s
    <3>1. Tracked(hf, new)[f] = Append(s, new)
      BY <1>3, <2>1, <2>3 DEF Tracked, s
    <3>2. \A i \in 1 .. Len(s) : s[i] < new
      <4> SUFFICES ASSUME NEW i \in 1 .. Len(s) PROVE s[i] < new
        OBVIOUS
      <4>1. s[i] \in Items(f)
        BY <2>1 DEF ToSet
      <4>2. s[i] \in 1 .. Len(nodes)
        BY <4>1 DEF Items, IInv, Typed
      <4> QED
        BY <1>2, <4>2
    <3>3. ToSet(Append(s, new)) = ToSet(s) \cup {new}
      <4>1. /\ DOMAIN Append(s, new) = (1 .. Len(s)) \cup {Len(s) + 1}
            /\ DOMAIN s = 1 .. Len(s)
            /\ Append(s, new)[Len(s) + 1] = new
            /\ \A i \in 1 .. Len(s) : Append(s, new)[i] = s[i]
        BY <2>1
      <4> QED
        BY <4>1, Zenon DEF ToSet
    <3>4. Ascends(Append(s, new))
      BY <1>2, <2>1, <3>2 DEF Ascends
    <3> QED
      BY <1>9, <2>1, <2>3, <3>1, <3>3, <3>4
  <2> QED
    BY <2>2, <2>3
<1>14. Marked' /\ Quiet'
  BY <1>6 DEF IInv, Marked, Quiet
<1> QED
  BY <1>6, <1>7, <1>12, <1>13, <1>14 DEF IInv

(* An item is left out, refused, faked, or added. *)
LEMMA AddItemKeeps ==
  ASSUME IInv, NEW hf \in Hf, NEW tree \in {Null} \cup DOMAIN nodes, AddItem(hf, tree)
  PROVE  IInv'
<1>1. /\ phase = "running" /\ dissectors # << >>
      /\ hf[1] = Last(dissectors).protocol /\ tree \in Last(dissectors).held
      /\ UNCHANGED <<refType, primed>> /\ tree \in Nat
  BY DEF AddItem, IInv, Quiet, Typed, Null
<1>2. data \in DataRecord /\ data.count + 1 \in Int /\ 0 \in Int
  BY DEF IInv, Typed, DataRecord
<1>3. /\ CountIs(data, data.count + 1) \in DataRecord
      /\ CountIs(data, data.count + 1).visible = data.visible
      /\ CountIs(data, data.count + 1).fake_protocols = data.fake_protocols
      /\ CountIs(data, data.count + 1).interesting = data.interesting
      /\ CountIs(data, 0) \in DataRecord
      /\ CountIs(data, 0).visible = data.visible
      /\ CountIs(data, 0).fake_protocols = data.fake_protocols
      /\ CountIs(data, 0).interesting = data.interesting
  BY <1>2, CountSet
<1>4. CASE tree = Null /\ Got(Null, hf) /\ UNCHANGED <<nodes, data, rows>>
  <2>1. ~Wanted(hf)
    <3>1. Len(dissectors) \in DOMAIN dissectors /\ Last(dissectors) = dissectors[Len(dissectors)]
      BY <1>1 DEF Last, IInv, Typed
    <3> QED
      BY <1>1, <1>4, <3>1 DEF IInv, LeftOut
  <2>2. Null \in Nat /\ Null \in Last(dissectors).held
    BY <1>1, <1>4 DEF Null
  <2> QED
    BY <1>1, <1>2, <1>4, <2>1, <2>2, UnwantedKeeps
<1>5. CASE data' = [data EXCEPT !.count = 0] /\ Catch /\ UNCHANGED <<nodes, asked, rows>>
  <2>1. PICK n \in 0 .. Len(dissectors) : BackTo(n)
    BY <1>5 DEF Catch
  <2>2. data' = CountIs(data, 0)
    BY <1>5 DEF CountIs
  <2> QED
    BY <1>1, <1>3, <1>5, <2>1, <2>2, BackKeeps
<1>6. CASE /\ tree # Null /\ Faked(tree, hf)
           /\ data' = [data EXCEPT !.count = @ + 1]
           /\ Got(tree, hf) /\ UNCHANGED <<nodes, rows>>
  <2>1. ~Wanted(hf)
    BY <1>6 DEF Faked, Wanted, IInv, Marked
  <2>2. data' = CountIs(data, data.count + 1)
    BY <1>6 DEF CountIs
  <2> QED
    BY <1>1, <1>3, <1>6, <2>1, <2>2, UnwantedKeeps
<1>7. CASE /\ data' = [data EXCEPT !.count = @ + 1] /\ Catch
           /\ UNCHANGED <<nodes, asked, rows>>
  <2>1. PICK n \in 0 .. Len(dissectors) : BackTo(n)
    BY <1>7 DEF Catch
  <2>2. data' = CountIs(data, data.count + 1)
    BY <1>7 DEF CountIs
  <2> QED
    BY <1>1, <1>3, <1>7, <2>1, <2>2, BackKeeps
<1>8. CASE /\ tree # Null /\ nodes' = AddNode(tree, hf)
           /\ data' = [data EXCEPT !.count = @ + 1, !.interesting = Tracked(hf, Len(nodes'))]
           /\ Got(Len(nodes'), hf)
  <2>1. tree \in DOMAIN nodes
    BY <1>8
  <2> QED
    BY <1>1, <1>8, <2>1, NodeKeeps
<1> QED
  BY <1>4, <1>5, <1>6, <1>7, <1>8 DEF AddItem

LEMMA MoveItemKeeps ==
  ASSUME IInv, NEW tree \in DOMAIN nodes, NEW fixed \in DOMAIN nodes,
         NEW item \in DOMAIN nodes, MoveItem(tree, fixed, item)
  PROVE  IInv'
<1>1. /\ nodes \in Seq(Node) /\ Linked(tree, item)
      /\ nodes' = PutBehind(CutOut(tree, item), tree, fixed, item)
      /\ UNCHANGED <<refType, phase, data, dissectors, primed, asked>> /\ phase = "running"
  BY DEF MoveItem, IInv, Typed
<1>2. SameItems(nodes, nodes')
  BY <1>1, ItemsMoved
<1>3. \A hf \in Hf : Items(hf)' = Items(hf)
  BY <1>1, <1>2, SameFound
<1>4. \A hf : Wanted(hf)' <=> Wanted(hf)
  BY <1>1 DEF Wanted
<1>5. Typed'
  BY <1>1, <1>2 DEF IInv, Typed, SameItems
<1>6. Marked' /\ Quiet'
  BY <1>1 DEF IInv, Marked, Quiet
<1>7. LeftOut' /\ Counted'
  BY <1>1, <1>3, <1>4 DEF IInv, LeftOut, Counted
<1>8. Recorded'
  <2>1. \A hf \in primed : hf \in Hf
    BY DEF IInv, Typed
  <2> QED
    BY <1>1, <1>3, <2>1 DEF IInv, Recorded
<1> QED
  BY <1>5, <1>6, <1>7, <1>8 DEF IInv

(* A dissector returns or throws. *)
LEMMA LeaveKeeps ==
  ASSUME IInv, Return \/ DissectorThrows
  PROVE  IInv'
<1>1. /\ phase = "running" /\ UNCHANGED <<refType, nodes, data, primed, asked>>
      /\ data' \in DataRecord /\ dissectors # << >>
  BY DEF Return, DissectorThrows, IInv, Typed, Quiet
<1>2. PICK n \in 0 .. Len(dissectors) : BackTo(n)
  <2>1. CASE Return
    <3>1. Len(dissectors) - 1 \in 0 .. Len(dissectors)
      BY <1>1 DEF IInv, Typed
    <3> QED
      BY <2>1, <3>1 DEF Return
  <2>2. CASE DissectorThrows
    BY <2>2 DEF DissectorThrows, Catch
  <2> QED
    BY <2>1, <2>2
<1> QED
  BY <1>1, <1>2, BackKeeps

-----------------------------------------------------------------------------

LEMMA InitInv == ProtoInit => IInv
<1> SUFFICES ASSUME ProtoInit PROVE IInv
  OBVIOUS
<1>1. Typed
  BY DEF ProtoInit, Typed, NoData, TreeData, DataRecord, NoneTracked
<1> QED
  BY <1>1 DEF ProtoInit, IInv, Marked, Quiet, LeftOut, Counted, Recorded

LEMMA NextInv == IInv /\ [ProtoNext]_protoVars => IInv'
<1> SUFFICES ASSUME IInv, [ProtoNext]_protoVars PROVE IInv'
  OBVIOUS
<1>1. CASE \E visible, fake \in BOOLEAN : CreateRoot(visible, fake)
  BY <1>1, CreateKeeps
<1>2. CASE \E hf \in Hf : PrimeWithHfid(hf)
  BY <1>2, PrimeKeeps
<1>3. ASSUME NEW p \in Protocols, NEW asks \in BOOLEAN, Run(p, asks)
      PROVE  IInv'
  <2>1. Root \in Nat \ {Null}
    BY DEF Root, Null
  <2> QED
    BY <1>3, <2>1, DissectKeeps DEF Run
<1>4. ASSUME NEW p \in Protocols, NEW asks \in BOOLEAN,
             NEW tree \in DOMAIN nodes, Call(p, tree, asks)
      PROVE  IInv'
  <2>1. tree \in Nat \ {Null}
    BY DEF Null, IInv, Typed
  <2>2. phase' = "running"
    BY <1>4 DEF Call
  <2> QED
    BY <1>4, <2>1, <2>2, DissectKeeps DEF Call
<1>5. CASE Return \/ DissectorThrows
  BY <1>5, LeaveKeeps
<1>6. CASE \E hf \in Hf, tree \in {Null} \cup DOMAIN nodes : AddItem(hf, tree)
  BY <1>6, AddItemKeeps
<1>7. CASE \E tree, fixed, item \in DOMAIN nodes : MoveItem(tree, fixed, item)
  BY <1>7, MoveItemKeeps
<1>8. CASE ResetTree \/ FreeTree
  BY <1>8, ResetKeeps, FreeKeeps
<1>9. CASE UNCHANGED protoVars
  <2>1. UNCHANGED <<refType, phase, nodes, data, dissectors, primed, asked>>
    BY <1>9 DEF protoVars
  <2> QED
    BY <2>1, ZenonT(60) DEF IInv, Typed, Marked, Quiet, LeftOut, Counted, Recorded, Items, Wanted
<1> QED
  BY <1>1, <1>2, <1>3, <1>4, <1>5, <1>6, <1>7, <1>8, <1>9 DEF ProtoNext

LEMMA InvFinds == IInv => PrimedFound
<1> SUFFICES ASSUME IInv, phase # "none", NEW hf \in Hf
             PROVE  LET found == {n \in DOMAIN nodes : nodes[n].hf = hf}
                    IN  /\ (\/ hf \in primed \/ data.visible
                            \/ (IsProtocol(hf) /\ ~data.fake_protocols))
                             => Cardinality(found) = asked[hf]
                        /\ hf \in primed => /\ ToSet(data.interesting[hf]) = found
                                           /\ Ascends(data.interesting[hf])
  BY DEF PrimedFound
<1> QED
  BY DEF IInv, Counted, Recorded, Wanted, Items

(* Whatever dissectors add, call, leave out, throw and catch, and whatever *)
(* marks the packets before left in the registered fields, each item of a  *)
(* primed field is in the tree and tracked, in its order: what a filter or *)
(* a tap asks for with proto_get_finfo_ptr_array is all there is.          *)
THEOREM PrimedIsFound == ProtoSpec => []PrimedFound
<1>1. ProtoInit => IInv
  BY InitInv
<1>2. IInv /\ [ProtoNext]_protoVars => IInv'
  BY NextInv
<1>3. IInv => PrimedFound
  BY InvFinds
<1> QED
  BY <1>1, <1>2, <1>3, PTL DEF ProtoSpec

(*-------------------------------------------------------------------------*)
(* The links of the tree. LeastOf, LevelIs and WalkIs are about recursive  *)
(* functions of the model, the rest about rows of children.                *)
(*-------------------------------------------------------------------------*)

(* The sequence s is the children of tree, by the links among them.        *)
RowChained(ns, tree, s) ==
  /\ s \in Seq(1 .. Len(ns))
  /\ \A i, j \in 1 .. Len(s) : s[i] = s[j] => i = j
  /\ ns[tree].first = IF s = << >> THEN Null ELSE s[1]
  /\ ns[tree].last = IF s = << >> THEN Null ELSE s[Len(s)]
  /\ \A i \in 1 .. Len(s) : ns[s[i]].next = IF i = Len(s) THEN Null ELSE s[i + 1]

(* Each node but the root is in the row of its parent, which was there     *)
(* before it, and a row is of the children of its node.                    *)
Parented(ns, rs) ==
  /\ Len(ns) > 0 => ns[1].next = Null /\ ns[1].parent = Null
  /\ \A n \in 2 .. Len(ns) : ns[n].parent \in 1 .. n - 1
                             /\ \E i \in 1 .. Len(rs[ns[n].parent]) : rs[ns[n].parent][i] = n
  /\ \A tree \in 1 .. Len(ns) : \A i \in 1 .. Len(rs[tree]) :
        rs[tree][i] # 1 /\ ns[rs[tree][i]].parent = tree

(* The level of each node, which is checked before the first child.        *)
Levels(ns, rs, level) ==
  /\ level \in [1 .. Len(ns) -> Nat]
  /\ Len(ns) > 0 => level[1] = 1
  /\ \A n \in 2 .. Len(ns) : level[n] = 1 + level[ns[n].parent]
  /\ \A n \in 1 .. Len(ns) : /\ level[n] <= MaxTreeLevels
                             /\ rs[n] # << >> => level[n] + 1 <= MaxTreeLevels

(* The rows of the history are those of the links. *)
Rows ==
  /\ rows \in Seq(Seq(Nat)) /\ Len(rows) = Len(nodes)
  /\ \A tree \in 1 .. Len(nodes) : RowChained(nodes, tree, rows[tree])
  /\ Parented(nodes, rows)
  /\ \E level : Levels(nodes, rows, level)

(* A set of natural numbers has a least member. *)
LEMMA LeastOf ==
    ASSUME NEW S \in SUBSET Nat, S # {}
    PROVE  \E n \in S : \A m \in S : n <= m
  <1>1. IsWellFoundedOn(OpToRel(<, Nat), Nat)
    BY NatLessThanWellFounded
  <1>2. PICK n \in S : \A m \in S : <<m, n>> \notin OpToRel(<, Nat)
    BY <1>1, WFMin
  <1>3. ASSUME NEW m \in S PROVE n <= m
    <2>1. n \in Nat /\ m \in Nat /\ ~(m < n)
      BY <1>2 DEF OpToRel
    <2> QED
      BY <2>1
  <1> QED
    BY <1>2, <1>3

(* What the recursion goes through from a node is what any function with   *)
(* its equation has.                                                       *)
LEMMA LevelIs ==
  ASSUME NEW ns \in Seq(Node), nodes = ns, NEW rs, NEW level, Parented(ns, rs), Levels(ns, rs, level),
         NEW node \in 1 .. Len(ns)
  PROVE  Level(node) = level[node]
<1> DEFINE P(g) == g = [n \in 1 .. node |-> IF n = Root THEN 1 ELSE 1 + g[nodes[n].parent]]
           up == CHOOSE g : P(g)
           f == [n \in 1 .. node |-> level[n]]
<1>0. Len(ns) \in Nat /\ node \in Nat /\ Root = 1
  BY DEF Root
<1>1. P(f)
  <2>1. ASSUME NEW n \in 1 .. node
        PROVE  f[n] = IF n = Root THEN 1 ELSE 1 + f[nodes[n].parent]
    <3>1. CASE n = 1
      BY <1>0, <3>1 DEF Levels
    <3>2. CASE n # 1
      <4>1. n \in 2 .. Len(ns)
        BY <1>0, <3>2
      <4>2. ns[n].parent \in 1 .. n - 1
        BY <4>1 DEF Parented
      <4>3. ns[n].parent \in 1 .. node
        BY <1>0, <4>1, <4>2
      <4> QED
        BY <1>0, <3>2, <4>1, <4>3 DEF Levels
    <3> QED
      BY <3>1, <3>2
  <2>2. f = [n \in 1 .. node |-> f[n]]
    OBVIOUS
  <2> HIDE DEF f
  <2> QED
    BY <2>1, <2>2
<1>2. P(up)
  <2> HIDE DEF P, f
  <2> QED
    BY <1>1, Zenon
<1>3. Level(node) = up[node]
  BY Zenon DEF Level
<1> HIDE DEF up
<1>4. \A n \in 1 .. node : up[n] = IF n = 1 THEN 1 ELSE 1 + up[ns[n].parent]
  BY <1>0, <1>2
<1> DEFINE Wrong == {n \in 1 .. node : up[n] # level[n]}
<1>5. Wrong = {}
  <2> SUFFICES ASSUME Wrong # {} PROVE FALSE
    OBVIOUS
  <2>1. Wrong \in SUBSET Nat
    OBVIOUS
  <2>2. PICK n \in Wrong : \A m \in Wrong : n <= m
    <3> HIDE DEF Wrong
    <3> QED
      BY <2>1, LeastOf
  <2>3. n # 1 /\ n \in 2 .. Len(ns) /\ n \in 2 .. node
    BY <1>0, <1>4, <2>2 DEF Levels
  <2>4. ns[n].parent \in 1 .. n - 1
    BY <2>3 DEF Parented
  <2>5. ns[n].parent \in 1 .. node /\ ns[n].parent < n
    BY <1>0, <2>3, <2>4
  <2>6. ns[n].parent \notin Wrong
    <3> HIDE DEF Wrong
    <3> QED
      BY <1>0, <2>1, <2>2, <2>3, <2>5
  <2>7. up[ns[n].parent] = level[ns[n].parent]
    BY <2>5, <2>6
  <2> QED
    BY <1>4, <2>2, <2>3, <2>7 DEF Levels
<1> QED
  BY <1>3, <1>5

LEMMA WalkIs ==
  ASSUME NEW ns \in Seq(Node), nodes = ns, NEW tree \in 1 .. Len(ns), NEW s, RowChained(ns, tree, s)
  PROVE  LET walk == Walk(tree, Len(s) + 1)
         IN  (\A n \in DOMAIN s : walk[n] = s[n]) /\ walk[Len(s) + 1] = Null
<1> DEFINE most == Len(s) + 1
           Step(g, n) == IF n = 1 THEN nodes[tree].first
                         ELSE IF g[n - 1] = Null THEN Null ELSE nodes[g[n - 1]].next
           P(g) == g = [n \in 1 .. most |-> IF n = 1 THEN nodes[tree].first
                                   ELSE IF g[n - 1] = Null THEN Null ELSE nodes[g[n - 1]].next]
           nth == CHOOSE g : P(g)
           f == [n \in 1 .. most |-> IF n = most THEN Null ELSE s[n]]
<1>0. Len(s) \in Nat /\ DOMAIN s = 1 .. Len(s) /\ s \in Seq(1 .. Len(ns)) /\ Len(ns) \in Nat /\ Null = 0
  BY DEF RowChained, Null
<1>9. most \in Nat /\ \A i \in 1 .. Len(s) : s[i] \in 1 .. Len(ns) /\ s[i] # Null
  BY <1>0
<1>1. P(f)
  <2>1. ASSUME NEW n \in 1 .. most
        PROVE  f[n] = Step(f, n)
    <3>1. CASE n = 1
      <4>1. (s = << >> <=> Len(s) = 0) /\ (1 = most <=> Len(s) = 0)
        BY <1>0
      <4>2. nodes[tree].first = IF s = << >> THEN Null ELSE s[1]
        BY DEF RowChained
      <4>3. f[1] = IF 1 = most THEN Null ELSE s[1]
        BY <3>1
      <4> HIDE DEF f, most
      <4> QED
        BY <3>1, <4>1, <4>2, <4>3
    <3>2. CASE n # 1
      <4>1. n - 1 \in 1 .. Len(s) /\ n \in 1 .. most /\ n - 1 \in 1 .. most /\ n - 1 # most
        BY <1>0, <3>2
      <4>2. f[n - 1] = s[n - 1] /\ s[n - 1] # Null
        BY <1>0, <1>9, <4>1
      <4>3. ns[s[n - 1]].next = IF n - 1 = Len(s) THEN Null ELSE s[n - 1 + 1]
        BY <4>1 DEF RowChained
      <4>4. n - 1 + 1 = n /\ (n - 1 = Len(s) <=> n = most)
        BY <1>0, <4>1
      <4> QED
        BY <3>2, <4>2, <4>3, <4>4
    <3> QED
      BY <3>1, <3>2
  <2>2. f = [n \in 1 .. most |-> f[n]]
    OBVIOUS
  <2> HIDE DEF f, most
  <2> QED
    BY <2>1, <2>2
<1>2. P(nth)
  <2> HIDE DEF P, f
  <2> QED
    BY <1>1, Zenon
<1>3. Walk(tree, Len(s) + 1) = nth
  BY Zenon DEF Walk
<1> HIDE DEF nth
<1>4. \A n \in 1 .. most : nth[n] = Step(nth, n)
  BY <1>2
<1> DEFINE Wrong == {n \in 1 .. most : nth[n] # f[n]}
<1>5. Wrong = {}
  <2> SUFFICES ASSUME Wrong # {} PROVE FALSE
    OBVIOUS
  <2>1. Wrong \in SUBSET Nat
    OBVIOUS
  <2>2. PICK n \in Wrong : \A m \in Wrong : n <= m
    <3> HIDE DEF Wrong
    <3> QED
      BY <2>1, LeastOf
  <2>a. f = [n_1 \in 1 .. most |-> Step(f, n_1)] /\ n \in 1 .. most /\ nth[n] # f[n]
    BY <1>1, <2>2
  <2>b. f[n] = Step(f, n)
    <3> HIDE DEF f, Step, Wrong
    <3> QED
      BY <2>a
  <2>3. n # 1
    BY <1>4, <2>a, <2>b
  <2>4. n - 1 \in 1 .. most /\ n - 1 < n
    BY <1>9, <2>a, <2>3
  <2>5. nth[n - 1] = f[n - 1]
    <3>1. n - 1 \notin Wrong
      <4> HIDE DEF Wrong
      <4> QED
        BY <2>1, <2>2, <2>4
    <3> QED
      BY <2>4, <3>1
  <2> HIDE DEF f, most
  <2> QED
    BY <1>4, <2>a, <2>b, <2>3, <2>5
<1>6. \A n \in 1 .. most : nth[n] = f[n]
  BY <1>5
<1>7. \A n \in 1 .. Len(s) : n \in 1 .. most /\ n # most
  BY <1>0
<1> QED
  BY <1>0, <1>3, <1>6, <1>7, <1>9

(* The links are right when each row is chained: the reader's walk is it.  *)
LEMMA RowsLink == Typed /\ Rows => TreeLinked
<1> SUFFICES ASSUME Typed, Rows, NEW tree \in DOMAIN nodes
             PROVE  LET row == rows[tree]
                        walk == Walk(tree, Len(row) + 1)
                    IN  /\ \A n \in DOMAIN row : walk[n] = row[n] /\ nodes[row[n]].parent = tree
                        /\ walk[Len(row) + 1] = Null
                        /\ nodes[tree].last = IF row = << >> THEN Null ELSE Last(row)
                        /\ Level(tree) <= MaxTreeLevels
  BY DEF TreeLinked
<1>1. nodes \in Seq(Node) /\ tree \in 1 .. Len(nodes)
  BY DEF Typed
<1>2. RowChained(nodes, tree, rows[tree]) /\ Parented(nodes, rows)
  BY <1>1 DEF Rows
<1>3. PICK level : Levels(nodes, rows, level)
  BY DEF Rows
<1>4. Level(tree) = level[tree] /\ level[tree] <= MaxTreeLevels
  BY <1>1, <1>2, <1>3, LevelIs, ZenonT(60) DEF Levels
<1>5. LET walk == Walk(tree, Len(rows[tree]) + 1)
      IN  (\A n \in DOMAIN rows[tree] : walk[n] = rows[tree][n]) /\ walk[Len(rows[tree]) + 1] = Null
  BY <1>1, <1>2, WalkIs
<1>6. \A n \in DOMAIN rows[tree] : nodes[rows[tree][n]].parent = tree
  <2>1. DOMAIN rows[tree] = 1 .. Len(rows[tree])
    BY <1>2 DEF RowChained
  <2> QED
    BY <1>1, <1>2, <2>1 DEF Parented
<1>7. nodes[tree].last = IF rows[tree] = << >> THEN Null ELSE Last(rows[tree])
  BY <1>2 DEF RowChained, Last
<1> QED
  BY <1>4, <1>5, <1>6, <1>7

(* What a link set in a node changes. *)
SameBut(before, after, field, i, v) ==
  /\ SameItems(before, after)
  /\ \A n \in 1 .. Len(before) :
        /\ after[n].parent = before[n].parent
        /\ after[n].first = IF field = "first" /\ n = i THEN v ELSE before[n].first
        /\ after[n].last = IF field = "last" /\ n = i THEN v ELSE before[n].last
        /\ after[n].next = IF field = "next" /\ n = i THEN v ELSE before[n].next

LEMMA FirstLink ==
  ASSUME NEW ns \in Seq(Node), NEW i, NEW v \in Nat
  PROVE  SameBut(ns, [ns EXCEPT ![i].first = v], "first", i, v)
<1> DEFINE ms == [ns EXCEPT ![i].first = v]
<1>1. ASSUME NEW n \in 1 .. Len(ns)
      PROVE  /\ ms[n].parent = ns[n].parent /\ ms[n].last = ns[n].last
             /\ ms[n].next = ns[n].next
             /\ ms[n].first = IF n = i THEN v ELSE ns[n].first
  <2>1. ns[n] \in Node
    OBVIOUS
  <2>2. ms[n] = IF n = i THEN [ns[n] EXCEPT !.first = v] ELSE ns[n]
    OBVIOUS
  <2> HIDE DEF ms
  <2> QED
    BY <2>1, <2>2 DEF Node
<1> QED
  BY <1>1, FirstSet DEF SameBut

LEMMA LastLink ==
  ASSUME NEW ns \in Seq(Node), NEW i, NEW v \in Nat
  PROVE  SameBut(ns, [ns EXCEPT ![i].last = v], "last", i, v)
<1> DEFINE ms == [ns EXCEPT ![i].last = v]
<1>1. ASSUME NEW n \in 1 .. Len(ns)
      PROVE  /\ ms[n].parent = ns[n].parent /\ ms[n].first = ns[n].first
             /\ ms[n].next = ns[n].next
             /\ ms[n].last = IF n = i THEN v ELSE ns[n].last
  <2>1. ns[n] \in Node
    OBVIOUS
  <2>2. ms[n] = IF n = i THEN [ns[n] EXCEPT !.last = v] ELSE ns[n]
    OBVIOUS
  <2> HIDE DEF ms
  <2> QED
    BY <2>1, <2>2 DEF Node
<1> QED
  BY <1>1, LastSet DEF SameBut

LEMMA NextLink ==
  ASSUME NEW ns \in Seq(Node), NEW i, NEW v \in Nat
  PROVE  SameBut(ns, [ns EXCEPT ![i].next = v], "next", i, v)
<1> DEFINE ms == [ns EXCEPT ![i].next = v]
<1>1. ASSUME NEW n \in 1 .. Len(ns)
      PROVE  /\ ms[n].parent = ns[n].parent /\ ms[n].first = ns[n].first
             /\ ms[n].last = ns[n].last
             /\ ms[n].next = IF n = i THEN v ELSE ns[n].next
  <2>1. ns[n] \in Node
    OBVIOUS
  <2>2. ms[n] = IF n = i THEN [ns[n] EXCEPT !.next = v] ELSE ns[n]
    OBVIOUS
  <2> HIDE DEF ms
  <2> QED
    BY <2>1, <2>2 DEF Node
<1> QED
  BY <1>1, NextSet DEF SameBut

(* proto_tree_add_node links the new node behind the last child. *)
LEMMA NodeLinked ==
  ASSUME nodes \in Seq(Node), NEW tree \in DOMAIN nodes, NEW hf \in Hf
  PROVE  LET after == AddNode(tree, hf)
             new == Len(nodes) + 1
             last == nodes[tree].last
         IN  /\ after[new].parent = tree /\ after[new].first = Null
             /\ after[new].last = Null /\ after[new].next = Null
             /\ \A n \in 1 .. Len(nodes) :
                  /\ after[n].parent = nodes[n].parent
                  /\ after[n].first = IF n = tree /\ last = Null THEN new ELSE nodes[n].first
                  /\ after[n].last = IF n = tree THEN new ELSE nodes[n].last
                  /\ after[n].next = IF n = last /\ last # Null THEN new ELSE nodes[n].next
<1> DEFINE new == Len(nodes) + 1
           chained == [nodes EXCEPT ![nodes[tree].last].next = new]
           begun == [nodes EXCEPT ![tree].first = new]
           linked == IF nodes[tree].last # Null
                     THEN [chained EXCEPT ![tree].last = new]
                     ELSE [begun EXCEPT ![tree].last = new]
<1>1. new \in Nat /\ Len(nodes) \in Nat
  OBVIOUS
<1>2. AddNode(tree, hf) = Append(linked, NewNode(hf, tree))
  BY DEF AddNode
<1>3. /\ SameBut(nodes, chained, "next", nodes[tree].last, new)
      /\ SameBut(nodes, begun, "first", tree, new)
  BY <1>1, NextLink, FirstLink
<1>4. /\ Len(linked) = Len(nodes) /\ linked \in Seq(Node)
      /\ \A n \in 1 .. Len(nodes) :
            /\ linked[n].parent = nodes[n].parent
            /\ linked[n].first = IF n = tree /\ nodes[tree].last = Null THEN new ELSE nodes[n].first
            /\ linked[n].last = IF n = tree THEN new ELSE nodes[n].last
            /\ linked[n].next = IF n = nodes[tree].last /\ nodes[tree].last # Null
                                THEN new ELSE nodes[n].next
  <2>1. chained \in Seq(Node) /\ begun \in Seq(Node)
    BY <1>3 DEF SameBut, SameItems
  <2> HIDE DEF chained, begun
  <2>2. SameBut(chained, [chained EXCEPT ![tree].last = new], "last", tree, new)
    BY <1>1, <2>1, LastLink
  <2>3. SameBut(begun, [begun EXCEPT ![tree].last = new], "last", tree, new)
    BY <1>1, <2>1, LastLink
  <2> HIDE DEF new
  <2>4. CASE nodes[tree].last # Null
    <3>1. linked = [chained EXCEPT ![tree].last = new]
      BY <2>4
    <3> HIDE DEF linked
    <3> QED
      BY <1>3, <2>2, <2>4, <3>1 DEF SameBut, SameItems
  <2>5. CASE nodes[tree].last = Null
    <3>1. linked = [begun EXCEPT ![tree].last = new]
      BY <2>5
    <3> HIDE DEF linked
    <3> QED
      BY <1>3, <2>3, <2>5, <3>1 DEF SameBut, SameItems
  <2> QED
    BY <2>4, <2>5
<1> HIDE DEF linked
<1>5. \A n \in 1 .. Len(nodes) : AddNode(tree, hf)[n] = linked[n]
  BY <1>1, <1>2, <1>4
<1>6. AddNode(tree, hf)[new] = NewNode(hf, tree)
  BY <1>1, <1>2, <1>4
<1> HIDE DEF new
<1>7. /\ NewNode(hf, tree).parent = tree /\ NewNode(hf, tree).first = Null
      /\ NewNode(hf, tree).last = Null /\ NewNode(hf, tree).next = Null
  BY DEF NewNode
<1> QED
  BY <1>4, <1>5, <1>6, <1>7 DEF new

(* The first half of proto_tree_move_item. *)
LEMMA CutLinks ==
  ASSUME nodes \in Seq(Node), NEW tree \in DOMAIN nodes, NEW item \in DOMAIN nodes,
         nodes[tree].first # item => Before(item) \in DOMAIN nodes
  PROVE  LET cut == CutOut(tree, item)
             heads == nodes[tree].first = item
         IN  /\ SameItems(nodes, cut)
             /\ \A n \in 1 .. Len(nodes) :
                  /\ cut[n].parent = nodes[n].parent
                  /\ cut[n].first = IF heads /\ n = tree THEN nodes[item].next ELSE nodes[n].first
                  /\ cut[n].last = IF ~heads /\ n = tree /\ nodes[n].last = item
                                   THEN Before(item) ELSE nodes[n].last
                  /\ cut[n].next = IF ~heads /\ n = Before(item)
                                   THEN nodes[item].next ELSE nodes[n].next
<1> DEFINE cut == CutOut(tree, item)
<1>1. nodes[item].next \in Nat /\ nodes[tree].last \in Nat
  BY NodeParts
<1>2. CASE nodes[tree].first = item
  <2> DEFINE opened == [nodes EXCEPT ![tree].first = nodes[item].next]
  <2>1. cut = opened
    BY <1>2 DEF CutOut
  <2>o. SameBut(nodes, opened, "first", tree, nodes[item].next)
    BY <1>1, FirstLink
  <2> HIDE DEF cut, opened
  <2>2. SameBut(nodes, cut, "first", tree, nodes[item].next)
    BY <2>1, <2>o
  <2>3. \A n \in 1 .. Len(nodes) :
            /\ cut[n].parent = nodes[n].parent
            /\ cut[n].first = IF n = tree THEN nodes[item].next ELSE nodes[n].first
            /\ cut[n].last = nodes[n].last
            /\ cut[n].next = nodes[n].next
    BY <2>2 DEF SameBut
  <2> QED
    BY <1>2, <2>2, <2>3 DEF SameBut, cut
<1>3. CASE nodes[tree].first # item
  <2> DEFINE before == Before(item)
             closed == [nodes EXCEPT ![before].next = nodes[item].next]
             last == IF closed[tree].last = item THEN before ELSE closed[tree].last
  <2>1. before \in Nat
    BY <1>3
  <2>2. cut = [closed EXCEPT ![tree].last = last]
    BY <1>3 DEF CutOut
  <2>3. SameBut(nodes, closed, "next", before, nodes[item].next)
    BY <1>1, NextLink
  <2> HIDE DEF before, closed
  <2>4. closed \in Seq(Node) /\ tree \in DOMAIN closed
    BY <2>3 DEF SameBut, SameItems
  <2>5. last \in Nat
    BY <2>1, <2>4, NodeParts
  <2> HIDE DEF last
  <2>6. SameBut(closed, [closed EXCEPT ![tree].last = last], "last", tree, last)
    BY <2>4, <2>5, LastLink
  <2> HIDE DEF cut
  <2>7. closed[tree].last = nodes[tree].last
    BY <2>3 DEF SameBut
  <2>8. SameItems(nodes, cut)
    BY <2>2, <2>3, <2>6 DEF SameBut, SameItems
  <2>9. \A n \in 1 .. Len(nodes) :
            /\ cut[n].parent = nodes[n].parent
            /\ cut[n].first = nodes[n].first
            /\ cut[n].last = IF n = tree THEN last ELSE nodes[n].last
            /\ cut[n].next = IF n = before THEN nodes[item].next ELSE nodes[n].next
    BY <2>2, <2>3, <2>6 DEF SameBut, SameItems
  <2> QED
    BY <1>3, <2>7, <2>8, <2>9 DEF last, before, cut
<1> QED
  BY <1>2, <1>3

(* And the second half. *)
LEMMA PutLinks ==
  ASSUME NEW cut \in Seq(Node), NEW tree \in DOMAIN cut, NEW fixed \in DOMAIN cut,
         NEW item \in DOMAIN cut, fixed # item
  PROVE  LET after == PutBehind(cut, tree, fixed, item)
         IN  /\ SameItems(cut, after)
             /\ \A n \in 1 .. Len(cut) :
                  /\ after[n].parent = cut[n].parent
                  /\ after[n].first = cut[n].first
                  /\ after[n].last = IF n = tree /\ cut[n].last = fixed THEN item ELSE cut[n].last
                  /\ after[n].next = IF n = fixed THEN item
                                     ELSE IF n = item THEN cut[fixed].next ELSE cut[n].next
<1> DEFINE one == [cut EXCEPT ![item].next = cut[fixed].next]
           two == [one EXCEPT ![fixed].next = item]
           last == IF two[tree].last = fixed THEN item ELSE two[tree].last
<1>1. item \in Nat /\ cut[fixed].next \in Nat
  BY NodeParts
<1>2. PutBehind(cut, tree, fixed, item) = [two EXCEPT ![tree].last = last]
  BY DEF PutBehind
<1>3. SameBut(cut, one, "next", item, cut[fixed].next)
  BY <1>1, NextLink
<1> HIDE DEF one
<1>4. one \in Seq(Node) /\ DOMAIN one = DOMAIN cut
  BY <1>3 DEF SameBut, SameItems
<1>5. SameBut(one, two, "next", fixed, item)
  BY <1>1, <1>4, NextLink
<1> HIDE DEF two
<1>6. two \in Seq(Node) /\ DOMAIN two = DOMAIN cut
  BY <1>4, <1>5 DEF SameBut, SameItems
<1>7. last \in Nat
  BY <1>1, <1>6, NodeParts
<1> HIDE DEF last
<1>8. SameBut(two, [two EXCEPT ![tree].last = last], "last", tree, last)
  BY <1>6, <1>7, LastLink
<1>9. two[tree].last = cut[tree].last
  BY <1>3, <1>5 DEF SameBut, SameItems
<1> DEFINE after == PutBehind(cut, tree, fixed, item)
<1> HIDE DEF after
<1>10. after = [two EXCEPT ![tree].last = last]
  BY <1>2 DEF after
<1>11. SameItems(cut, after)
  BY <1>3, <1>5, <1>8, <1>10 DEF SameBut, SameItems
<1>12. \A n \in 1 .. Len(cut) :
          /\ after[n].parent = cut[n].parent
          /\ after[n].first = cut[n].first
          /\ after[n].last = IF n = tree THEN last ELSE cut[n].last
          /\ after[n].next = IF n = fixed THEN item
                             ELSE IF n = item THEN cut[fixed].next ELSE cut[n].next
  BY <1>3, <1>5, <1>8, <1>10 DEF SameBut, SameItems
<1> QED
  BY <1>9, <1>11, <1>12 DEF last, after

-----------------------------------------------------------------------------
(* One sequence after the other. *)
LEMMA RowsJoined ==
  ASSUME NEW T, NEW a \in Seq(T), NEW b \in Seq(T)
  PROVE  /\ a \o b \in Seq(T) /\ Len(a \o b) = Len(a) + Len(b)
         /\ \A i \in 1 .. Len(a) : (a \o b)[i] = a[i]
         /\ \A i \in 1 .. Len(b) : (a \o b)[Len(a) + i] = b[i]
OBVIOUS

(* Sequences without their p-th member, and with one more at p. *)
LEMMA RemovedAt ==
  ASSUME NEW T, NEW s \in Seq(T), NEW p \in 1 .. Len(s)
  PROVE  /\ RemoveAt(s, p) \in Seq(T) /\ Len(RemoveAt(s, p)) = Len(s) - 1
         /\ \A i \in 1 .. Len(s) - 1 : RemoveAt(s, p)[i] = s[IF i < p THEN i ELSE i + 1]
<1> DEFINE a == SubSeq(s, 1, p - 1)
           b == SubSeq(s, p + 1, Len(s))
<1>1. a \in Seq(T) /\ Len(a) = p - 1 /\ \A i \in 1 .. p - 1 : a[i] = s[i]
  OBVIOUS
<1>2. b \in Seq(T) /\ Len(b) = Len(s) - p /\ \A i \in 1 .. Len(s) - p : b[i] = s[p + i]
  OBVIOUS
<1> HIDE DEF a, b
<1>3. RemoveAt(s, p) = a \o b
  BY DEF RemoveAt, a, b
<1>4. a \o b \in Seq(T) /\ Len(a \o b) = Len(s) - 1
  <2>1. Len(s) \in Nat /\ p - 1 + (Len(s) - p) = Len(s) - 1
    OBVIOUS
  <2>2. a \in Seq(T) /\ b \in Seq(T)
    BY <1>1, <1>2
  <2>3. Len(a) + Len(b) = Len(s) - 1
    BY <1>1, <1>2, <2>1
  <2> QED
    BY <2>2, <2>3, RowsJoined
<1>5. \A i \in 1 .. Len(s) - 1 : (a \o b)[i] = s[IF i < p THEN i ELSE i + 1]
  <2> TAKE i \in 1 .. Len(s) - 1
  <2>1. CASE i < p
    BY <1>1, <1>2, <2>1
  <2>2. CASE ~(i < p)
    <3>1. i - (p - 1) \in 1 .. Len(s) - p /\ i > Len(a) /\ i <= Len(a) + Len(b)
      BY <1>1, <1>2, <2>2
    <3>2. (a \o b)[i] = b[i - (p - 1)]
      BY <1>1, <1>2, <3>1
    <3>3. p + (i - (p - 1)) = i + 1
      OBVIOUS
    <3> QED
      BY <1>2, <2>2, <3>1, <3>2, <3>3
  <2> QED
    BY <2>1, <2>2
<1> QED
  BY <1>3, <1>4, <1>5

LEMMA InsertedAt ==
  ASSUME NEW T, NEW s \in Seq(T), NEW e \in T, NEW p \in 1 .. Len(s) + 1
  PROVE  /\ InsertAt(s, p, e) \in Seq(T) /\ Len(InsertAt(s, p, e)) = Len(s) + 1
         /\ \A i \in 1 .. Len(s) + 1 :
               InsertAt(s, p, e)[i] = IF i = p THEN e ELSE s[IF i < p THEN i ELSE i - 1]
<1> DEFINE a == SubSeq(s, 1, p - 1)
           b == SubSeq(s, p, Len(s))
           c == Append(a, e)
<1>1. a \in Seq(T) /\ Len(a) = p - 1 /\ \A i \in 1 .. p - 1 : a[i] = s[i]
  OBVIOUS
<1>2. b \in Seq(T) /\ Len(b) = Len(s) - p + 1 /\ \A i \in 1 .. Len(s) - p + 1 : b[i] = s[p - 1 + i]
  OBVIOUS
<1> HIDE DEF a, b
<1>3. c = a \o <<e>>
  BY <1>1
<1>4. c \in Seq(T) /\ Len(c) = p /\ \A i \in 1 .. p : c[i] = IF i = p THEN e ELSE s[i]
  BY <1>1
<1> HIDE DEF c
<1>5. InsertAt(s, p, e) = c \o b
  BY <1>3 DEF InsertAt, a, b
<1>6. c \o b \in Seq(T) /\ Len(c \o b) = Len(s) + 1
  <2>1. Len(s) \in Nat /\ p + (Len(s) - p + 1) = Len(s) + 1
    OBVIOUS
  <2> QED
    BY <1>2, <1>4, <2>1, RowsJoined
<1>7. \A i \in 1 .. Len(s) + 1 : (c \o b)[i] = IF i = p THEN e ELSE s[IF i < p THEN i ELSE i - 1]
  <2> TAKE i \in 1 .. Len(s) + 1
  <2>1. CASE i <= p
    <3>1. i \in 1 .. p /\ i \in 1 .. Len(c) /\ (i # p => i < p)
      BY <1>4, <2>1
    <3>2. (c \o b)[i] = c[i]
      BY <1>2, <1>4, <3>1, RowsJoined
    <3>3. CASE i = p
      BY <1>4, <3>1, <3>2, <3>3
    <3>4. CASE i # p
      <4>1. c[i] = s[i] /\ i < p
        BY <1>4, <3>1, <3>4
      <4> QED
        BY <3>2, <3>4, <4>1
    <3> QED
      BY <3>3, <3>4
  <2>2. CASE i > p
    <3>0. i # p /\ ~(i < p)
      BY <2>2
    <3>1. i - p \in 1 .. Len(s) - p + 1 /\ i > Len(c) /\ i <= Len(c) + Len(b)
      BY <1>2, <1>4, <2>2
    <3>2. (c \o b)[i] = b[i - p]
      BY <1>2, <1>4, <3>1
    <3>3. p - 1 + (i - p) = i - 1
      OBVIOUS
    <3>4. b[i - p] = s[i - 1]
      BY <1>2, <3>1, <3>3
    <3> QED
      BY <3>0, <3>2, <3>4
  <2>3. i <= p \/ i > p
    OBVIOUS
  <2> QED
    BY <2>1, <2>2, <2>3
<1> QED
  BY <1>5, <1>6, <1>7

-----------------------------------------------------------------------------
(***************************************************************************)
(* The rows.                                                               *)
(***************************************************************************)

(* A row whose links are left alone. *)
LEMMA RowStays ==
  ASSUME NEW a, NEW b, NEW tree, NEW s, RowChained(a, tree, s), Len(a) \in Nat, Len(b) \in Nat,
         Len(a) <= Len(b), b[tree].first = a[tree].first, b[tree].last = a[tree].last,
         \A i \in 1 .. Len(s) : b[s[i]].next = a[s[i]].next
  PROVE  RowChained(b, tree, s)
<1>1. s \in Seq(1 .. Len(a)) /\ 1 .. Len(a) \subseteq 1 .. Len(b)
  BY DEF RowChained
<1>2. s \in Seq(1 .. Len(b))
  BY <1>1
<1> QED
  BY <1>2 DEF RowChained

(* Stated by itself for the provers' sake. *)
LEMMA NotOne ==
  ASSUME NEW n \in Int, n >= 2
  PROVE  n # 1
OBVIOUS

(* What links to a node in a row is the node before it. *)
LEMMA BeforeIs ==
  ASSUME Typed, Rows, NEW tree \in DOMAIN nodes, NEW p \in 2 .. Len(rows[tree])
  PROVE  Before(rows[tree][p]) = rows[tree][p - 1] /\ rows[tree][p - 1] \in DOMAIN nodes
<1> DEFINE r == rows[tree]
           item == r[p]
           IsBefore(n) == nodes[n].next = item
<1>1. Len(nodes) \in Nat /\ DOMAIN nodes = 1 .. Len(nodes)
  BY DEF Typed
<1>2. RowChained(nodes, tree, r) /\ Parented(nodes, rows)
  BY <1>1 DEF Rows
<1>3. Len(r) \in Nat /\ p - 1 \in 1 .. Len(r) /\ p \in 1 .. Len(r) /\ p - 1 # Len(r)
      /\ p - 1 + 1 = p /\ r \in Seq(1 .. Len(nodes))
  BY <1>2, SMTT(30) DEF RowChained
<1>4. r[p - 1] \in DOMAIN nodes /\ item \in 1 .. Len(nodes) /\ item # Null
  BY <1>1, <1>3, SMTT(30) DEF Null
<1>5. IsBefore(r[p - 1])
  BY <1>2, <1>3 DEF RowChained
<1>6. ASSUME NEW n \in DOMAIN nodes, IsBefore(n)
      PROVE  n = r[p - 1]
  <2>1. n # 1
    BY <1>1, <1>2, <1>4, <1>6 DEF Parented
  <2>2. n \in 2 .. Len(nodes)
    BY <1>1, <2>1
  <2>3. PICK k \in 1 .. Len(rows[nodes[n].parent]) : rows[nodes[n].parent][k] = n
    BY <1>2, <2>2 DEF Parented
  <2>4. nodes[n].parent \in 1 .. Len(nodes)
    BY <1>1, <1>2, <2>2 DEF Parented
  <2> DEFINE q == rows[nodes[n].parent]
  <2>5. RowChained(nodes, nodes[n].parent, q)
    BY <2>4 DEF Rows
  <2>6. nodes[n].next = IF k = Len(q) THEN Null ELSE q[k + 1]
    BY <2>3, <2>5 DEF RowChained
  <2>7. k # Len(q) /\ q[k + 1] = item
    BY <1>4, <1>6, <2>6
  <2>8. Len(q) \in Nat /\ k + 1 \in 1 .. Len(q)
    <3>1. q \in Seq(1 .. Len(nodes))
      BY <2>5 DEF RowChained
    <3>2. k \in 1 .. Len(q) /\ k # Len(q)
      BY <2>3, <2>7
    <3> HIDE DEF q
    <3> QED
      BY <3>1, <3>2
  <2>9. nodes[item].parent = nodes[n].parent
    <3>1. nodes[q[k + 1]].parent = nodes[n].parent
      BY <1>2, <2>4, <2>8 DEF Parented
    <3> QED
      BY <2>7, <3>1
  <2>10. nodes[item].parent = tree
    BY <1>1, <1>2, <1>3 DEF Parented
  <2>11. r[k + 1] = r[p] /\ k + 1 \in 1 .. Len(r)
    BY <2>7, <2>8, <2>9, <2>10
  <2>12. k + 1 = p
    BY <1>2, <1>3, <2>11 DEF RowChained
  <2>13. k = p - 1
    BY <2>3, <2>12
  <2> QED
    BY <2>3, <2>9, <2>10, <2>13
<1>7. Before(item) = CHOOSE n \in DOMAIN nodes : IsBefore(n)
  BY Zenon DEF Before
<1> HIDE DEF IsBefore
<1>8. (CHOOSE n \in DOMAIN nodes : IsBefore(n)) = r[p - 1]
  BY <1>4, <1>5, <1>6
<1> QED
  BY <1>4, <1>7, <1>8

(* The row without the item that is cut out. *)
LEMMA CutChained ==
  ASSUME Typed, Rows, NEW tree \in DOMAIN nodes, NEW p \in 1 .. Len(rows[tree]),
         Len(rows[tree]) >= 2
  PROVE  LET cut == CutOut(tree, rows[tree][p])
         IN  /\ SameItems(nodes, cut)
             /\ \A n \in 1 .. Len(nodes) : cut[n].parent = nodes[n].parent
             /\ RowChained(cut, tree, RemoveAt(rows[tree], p))
             /\ \A n \in 1 .. Len(nodes) : n # tree =>
                   cut[n].first = nodes[n].first /\ cut[n].last = nodes[n].last
             /\ \A n \in 1 .. Len(nodes) : nodes[n].parent # tree => cut[n].next = nodes[n].next
<1> DEFINE r == rows[tree]
           item == r[p]
           cut == CutOut(tree, item)
           s == RemoveAt(r, p)
           heads == nodes[tree].first = item
<1>1. nodes \in Seq(Node) /\ Len(nodes) \in Nat /\ DOMAIN nodes = 1 .. Len(nodes)
  BY DEF Typed
<1>2. RowChained(nodes, tree, r) /\ Parented(nodes, rows)
  BY <1>1 DEF Rows
<1>3. r \in Seq(1 .. Len(nodes)) /\ Len(r) \in Nat /\ Len(r) >= 2 /\ r # << >>
  BY <1>2 DEF RowChained
<1>4. heads <=> p = 1
  <2>1. nodes[tree].first = r[1] /\ 1 \in 1 .. Len(r)
    BY <1>2, <1>3 DEF RowChained
  <2> QED
    BY <1>2, <2>1 DEF RowChained
<1>5. p # 1 => Before(item) = r[p - 1] /\ r[p - 1] \in DOMAIN nodes /\ p - 1 \in 1 .. Len(r)
  <2> SUFFICES ASSUME p # 1
               PROVE  Before(item) = r[p - 1] /\ r[p - 1] \in DOMAIN nodes /\ p - 1 \in 1 .. Len(r)
    OBVIOUS
  <2>1. p \in 2 .. Len(r)
    BY <1>3
  <2> QED
    BY <1>3, <2>1, BeforeIs
<1>6. item \in DOMAIN nodes
  BY <1>1, <1>3
<1>7. /\ SameItems(nodes, cut)
      /\ \A n \in 1 .. Len(nodes) :
           /\ cut[n].parent = nodes[n].parent
           /\ cut[n].first = IF heads /\ n = tree THEN nodes[item].next ELSE nodes[n].first
           /\ cut[n].last = IF ~heads /\ n = tree /\ nodes[n].last = item
                            THEN Before(item) ELSE nodes[n].last
           /\ cut[n].next = IF ~heads /\ n = Before(item)
                            THEN nodes[item].next ELSE nodes[n].next
  BY <1>1, <1>4, <1>5, <1>6, CutLinks
<1>8. /\ s \in Seq(1 .. Len(nodes)) /\ Len(s) = Len(r) - 1
      /\ \A i \in 1 .. Len(r) - 1 : s[i] = r[IF i < p THEN i ELSE i + 1]
  BY <1>3, RemovedAt
<1> HIDE DEF cut, s, heads
<1>9. Len(cut) = Len(nodes)
  BY <1>7 DEF SameItems
<1>10. /\ Len(s) \in Nat /\ s # << >> /\ Len(s) >= 1 /\ Len(s) = Len(r) - 1
       /\ Len(r) \in Nat /\ p \in 1 .. Len(r) /\ 1 \in 1 .. Len(r) - 1
       /\ Len(s) \in 1 .. Len(r) - 1
  BY <1>3, <1>8
<1>a. /\ Len(r) \in Int /\ Len(r) >= 2 /\ p \in Int /\ p >= 1 /\ p <= Len(r)
      /\ Len(s) = Len(r) - 1
  BY <1>3, <1>8
<1>11. \A i, j \in 1 .. Len(s) : s[i] = s[j] => i = j
  <2> SUFFICES ASSUME NEW i \in 1 .. Len(s), NEW j \in 1 .. Len(s), s[i] = s[j]
               PROVE  i = j
    OBVIOUS
  <2> DEFINE i1 == IF i < p THEN i ELSE i + 1
             j1 == IF j < p THEN j ELSE j + 1
  <2>1. i1 \in 1 .. Len(r) /\ j1 \in 1 .. Len(r) /\ (i1 = j1 => i = j)
    BY <1>10
  <2>2. r[i1] = r[j1]
    BY <1>8
  <2> HIDE DEF i1, j1
  <2>3. i1 = j1
    BY <1>2, <2>1, <2>2 DEF RowChained
  <2> QED
    BY <2>1, <2>3
<1>12. cut[tree].first = s[1]
  <2>1. CASE p = 1
    <3>a. 1 \in 1 .. Len(r)
      BY <1>a
    <3>b. 1 # Len(r)
      BY <1>a, NotOne
    <3>c. ~(1 < p)
      BY <2>1
    <3>d. 1 + 1 = 2
      OBVIOUS
    <3>1. 1 \in 1 .. Len(r) /\ 1 # Len(r) /\ 1 + 1 = 2 /\ ~(1 < p)
      BY <3>a, <3>b, <3>c, <3>d
    <3>4. item = r[1]
      BY <2>1
    <3>3. s[1] = r[2]
      BY <1>8, <1>10, <3>1
    <3>2. nodes[item].next = r[2]
      BY <1>2, <3>1, <3>4 DEF RowChained
    <3> QED
      BY <1>1, <1>4, <1>7, <2>1, <3>2, <3>3
  <2>2. CASE p # 1
    <3>0. 1 < p
      BY <1>10, <2>2
    <3>1. s[1] = r[1]
      BY <1>8, <1>10, <3>0
    <3>2. nodes[tree].first = r[1]
      BY <1>2, <1>3 DEF RowChained
    <3> QED
      BY <1>1, <1>4, <1>7, <2>2, <3>1, <3>2
  <2> QED
    BY <2>1, <2>2
<1>13. cut[tree].last = s[Len(s)]
  <2>1. nodes[tree].last = r[Len(r)] /\ Len(r) \in 1 .. Len(r)
    BY <1>2, <1>3 DEF RowChained
  <2>2. nodes[tree].last = item <=> p = Len(r)
    BY <1>2, <2>1 DEF RowChained
  <2>3. CASE p = Len(r)
    <3>a. p # 1
      BY <1>a, <2>3, NotOne
    <3>b. Len(s) < p /\ Len(s) = p - 1
      BY <1>a, <2>3
    <3>0. p # 1 /\ Len(s) < p /\ Len(s) = p - 1
      BY <3>a, <3>b
    <3>1. s[Len(s)] = r[p - 1] /\ p # 1
      BY <1>8, <1>10, <3>0
    <3> QED
      BY <1>1, <1>4, <1>5, <1>7, <2>2, <2>3, <3>1
  <2>4. CASE p # Len(r)
    <3>0. ~(Len(s) < p) /\ Len(s) + 1 = Len(r)
      BY <1>10, <2>4
    <3>1. s[Len(s)] = r[Len(r)]
      BY <1>8, <1>10, <3>0
    <3> QED
      BY <1>1, <1>7, <2>1, <2>2, <2>4, <3>1
  <2> QED
    BY <2>3, <2>4
<1>14. \A i \in 1 .. Len(s) : cut[s[i]].next = IF i = Len(s) THEN Null ELSE s[i + 1]
  <2> TAKE i \in 1 .. Len(s)
  <2> DEFINE i1 == IF i < p THEN i ELSE i + 1
  <2>0. i1 \in 1 .. Len(r) /\ i1 # p /\ i \in 1 .. Len(r) - 1
    BY <1>10
  <2>1. i1 \in 1 .. Len(r) /\ s[i] = r[i1] /\ i1 # p
    BY <1>8, <2>0
  <2>2. r[i1] \in 1 .. Len(nodes)
    BY <1>3, <2>1, SMTT(30)
  <2>3. nodes[r[i1]].next = IF i1 = Len(r) THEN Null ELSE r[i1 + 1]
    BY <1>2, <2>1 DEF RowChained
  <2>4. nodes[item].next = IF p = Len(r) THEN Null ELSE r[p + 1]
    BY <1>2 DEF RowChained
  <2>5. CASE p # 1 /\ i1 = p - 1
    <3>1. cut[s[i]].next = nodes[item].next
      BY <1>4, <1>5, <1>7, <2>1, <2>2, <2>5
    <3>2. i = p - 1
      BY <2>5
    <3>3. (i = Len(s) <=> p = Len(r)) /\ (i # Len(s) => s[i + 1] = r[p + 1])
      BY <1>3, <1>8, <3>2
    <3> QED
      BY <2>4, <3>1, <3>3
  <2>6. CASE ~(p # 1 /\ i1 = p - 1)
    <3>1. p # 1 => r[i1] # r[p - 1]
      BY <1>2, <1>5, <2>1, <2>6 DEF RowChained
    <3>2. cut[s[i]].next = nodes[r[i1]].next
      BY <1>4, <1>5, <1>7, <2>1, <2>2, <3>1
    <3>3. i1 # p - 1
      BY <1>3, <2>1, <2>6
    <3>4. i = Len(s) <=> i1 = Len(r)
      BY <1>10, <3>3
    <3>5. i # Len(s) => i + 1 \in 1 .. Len(r) - 1 /\ (IF i + 1 < p THEN i + 1 ELSE i + 1 + 1) = i1 + 1
      BY <1>10, <3>3
    <3>6. i # Len(s) => s[i + 1] = r[i1 + 1]
      <4> SUFFICES ASSUME i # Len(s) PROVE s[i + 1] = r[i1 + 1]
        OBVIOUS
      <4>1. s[i + 1] = r[IF i + 1 < p THEN i + 1 ELSE i + 1 + 1]
        BY <1>8, <3>5
      <4> QED
        BY <3>5, <4>1
    <3> QED
      BY <2>3, <3>2, <3>4, <3>6
  <2> QED
    BY <2>5, <2>6
<1>15. RowChained(cut, tree, s)
  BY <1>8, <1>9, <1>10, <1>11, <1>12, <1>13, <1>14 DEF RowChained
<1>16. \A n \in 1 .. Len(nodes) : n # tree =>
          cut[n].first = nodes[n].first /\ cut[n].last = nodes[n].last
  BY <1>7
<1>17. \A n \in 1 .. Len(nodes) : nodes[n].parent # tree => cut[n].next = nodes[n].next
  <2>1. p # 1 => nodes[r[p - 1]].parent = tree
    BY <1>1, <1>2, <1>5 DEF Parented
  <2> QED
    BY <1>4, <1>5, <1>7, <2>1
<1> QED
  BY <1>7, <1>15, <1>16, <1>17 DEF cut, s

(* And with it again, behind the i-th. *)
LEMMA PutChained ==
  ASSUME NEW cut \in Seq(Node), NEW tree \in DOMAIN cut, NEW s, RowChained(cut, tree, s),
         NEW i \in 1 .. Len(s), NEW item \in DOMAIN cut, \A j \in 1 .. Len(s) : s[j] # item
  PROVE  LET after == PutBehind(cut, tree, s[i], item)
         IN  /\ SameItems(cut, after)
             /\ \A n \in 1 .. Len(cut) : after[n].parent = cut[n].parent
             /\ RowChained(after, tree, InsertAt(s, i + 1, item))
             /\ \A n \in 1 .. Len(cut) : n # tree =>
                   after[n].first = cut[n].first /\ after[n].last = cut[n].last
             /\ \A n \in 1 .. Len(cut) : n # s[i] /\ n # item => after[n].next = cut[n].next
<1> DEFINE fixed == s[i]
           after == PutBehind(cut, tree, fixed, item)
           t == InsertAt(s, i + 1, item)
<1>1. Len(cut) \in Nat /\ DOMAIN cut = 1 .. Len(cut)
  OBVIOUS
<1>2. s \in Seq(1 .. Len(cut)) /\ Len(s) \in Nat /\ s # << >> /\ 1 \in 1 .. Len(s)
  BY DEF RowChained
<1>3. fixed \in DOMAIN cut /\ fixed # item
  BY <1>1, <1>2
<1>4. /\ SameItems(cut, after)
      /\ \A n \in 1 .. Len(cut) :
           /\ after[n].parent = cut[n].parent
           /\ after[n].first = cut[n].first
           /\ after[n].last = IF n = tree /\ cut[n].last = fixed THEN item ELSE cut[n].last
           /\ after[n].next = IF n = fixed THEN item
                              ELSE IF n = item THEN cut[fixed].next ELSE cut[n].next
  BY <1>3, PutLinks
<1>5. i + 1 \in 1 .. Len(s) + 1
  BY <1>2
<1>6. /\ t \in Seq(1 .. Len(cut)) /\ Len(t) = Len(s) + 1
      /\ \A j \in 1 .. Len(s) + 1 :
            t[j] = IF j = i + 1 THEN item ELSE s[IF j < i + 1 THEN j ELSE j - 1]
  <2> DEFINE T == 1 .. Len(cut)
             q == i + 1
  <2>1. s \in Seq(T) /\ item \in T /\ q \in 1 .. Len(s) + 1
    BY <1>1, <1>2, <1>5
  <2> HIDE DEF T, q
  <2>2. /\ InsertAt(s, q, item) \in Seq(T) /\ Len(InsertAt(s, q, item)) = Len(s) + 1
        /\ \A j \in 1 .. Len(s) + 1 :
              InsertAt(s, q, item)[j] = IF j = q THEN item ELSE s[IF j < q THEN j ELSE j - 1]
    BY <2>1, InsertedAt
  <2> QED
    BY <2>2 DEF T, q
<1> HIDE DEF after, t
<1>7. Len(after) = Len(cut)
  BY <1>4 DEF SameItems
<1>8. /\ Len(s) \in Int /\ Len(s) >= 1 /\ i \in Int /\ i >= 1 /\ i <= Len(s)
      /\ Len(t) = Len(s) + 1
  BY <1>2, <1>6
<1>9. \A j, k \in 1 .. Len(t) : t[j] = t[k] => j = k
  <2> SUFFICES ASSUME NEW j \in 1 .. Len(t), NEW k \in 1 .. Len(t), t[j] = t[k]
               PROVE  j = k
    OBVIOUS
  <2> DEFINE j1 == IF j < i + 1 THEN j ELSE j - 1
             k1 == IF k < i + 1 THEN k ELSE k - 1
  <2>1. /\ j # i + 1 => j1 \in 1 .. Len(s)
        /\ k # i + 1 => k1 \in 1 .. Len(s)
        /\ j # i + 1 /\ k # i + 1 /\ j1 = k1 => j = k
    BY <1>8
  <2>2. /\ t[j] = IF j = i + 1 THEN item ELSE s[j1]
        /\ t[k] = IF k = i + 1 THEN item ELSE s[k1]
    BY <1>6
  <2> HIDE DEF j1, k1
  <2>3. j = i + 1 <=> k = i + 1
    BY <2>1, <2>2
  <2>4. ASSUME j # i + 1 PROVE j1 = k1
    <3>1. j1 \in 1 .. Len(s) /\ k1 \in 1 .. Len(s) /\ s[j1] = s[k1]
      BY <2>1, <2>2, <2>3, <2>4
    <3>2. \A m, n \in 1 .. Len(s) : s[m] = s[n] => m = n
      BY DEF RowChained
    <3> QED
      BY <3>1, <3>2, Zenon
  <2> QED
    BY <2>1, <2>3, <2>4
<1>10. t # << >> /\ t[1] = s[1] /\ after[tree].first = t[1]
  <2>1. 1 # i + 1 /\ 1 < i + 1 /\ 1 \in 1 .. Len(s) + 1
    BY <1>8
  <2>2. t[1] = s[1]
    BY <1>6, <2>1
  <2>3. after[tree].first = cut[tree].first
    BY <1>1, <1>4
  <2>4. t # << >>
    BY <1>6, <1>8
  <2> QED
    BY <1>2, <2>2, <2>3, <2>4 DEF RowChained
<1>11. after[tree].last = t[Len(t)]
  <2>1. cut[tree].last = s[Len(s)] /\ Len(s) \in 1 .. Len(s)
    BY <1>2 DEF RowChained
  <2>2. cut[tree].last = fixed <=> i = Len(s)
    BY <1>2, <2>1 DEF RowChained
  <2>3. CASE i = Len(s)
    <3>1. Len(t) = i + 1 /\ Len(t) \in 1 .. Len(s) + 1
      BY <1>8, <2>3
    <3>2. t[Len(t)] = item
      BY <1>6, <3>1
    <3> QED
      BY <1>1, <1>4, <2>2, <2>3, <3>2
  <2>4. CASE i # Len(s)
    <3>1. /\ Len(t) # i + 1 /\ Len(t) \in 1 .. Len(s) + 1 /\ ~(Len(t) < i + 1)
          /\ Len(t) - 1 = Len(s)
      BY <1>8, <2>4
    <3>2. t[Len(t)] = s[Len(s)]
      BY <1>6, <3>1
    <3> QED
      BY <1>1, <1>4, <2>1, <2>2, <2>4, <3>2
  <2> QED
    BY <2>3, <2>4
<1>12. \A j \in 1 .. Len(t) : after[t[j]].next = IF j = Len(t) THEN Null ELSE t[j + 1]
  <2> TAKE j \in 1 .. Len(t)
  <2> DEFINE j1 == IF j < i + 1 THEN j ELSE j - 1
  <2>0. cut[fixed].next = IF i = Len(s) THEN Null ELSE s[i + 1]
    BY DEF RowChained
  <2>1. CASE j = i + 1
    <3>1. t[j] = item
      BY <1>6, <1>8, <2>1
    <3>2. after[t[j]].next = cut[fixed].next
      BY <1>1, <1>3, <1>4, <3>1
    <3>3. j = Len(t) <=> i = Len(s)
      BY <1>8, <2>1
    <3>4. j # Len(t) => /\ j + 1 \in 1 .. Len(s) + 1 /\ j + 1 # i + 1 /\ ~(j + 1 < i + 1)
                        /\ j + 1 - 1 = i + 1
      BY <1>8, <2>1
    <3>5. j # Len(t) => t[j + 1] = s[i + 1]
      <4> SUFFICES ASSUME j # Len(t) PROVE t[j + 1] = s[i + 1]
        OBVIOUS
      <4>1. t[j + 1] = s[IF j + 1 < i + 1 THEN j + 1 ELSE j + 1 - 1]
        BY <1>6, <3>4
      <4> QED
        BY <3>4, <4>1
    <3> QED
      BY <2>0, <3>2, <3>3, <3>5
  <2>2. CASE j # i + 1
    <3>1. j1 \in 1 .. Len(s) /\ j \in 1 .. Len(s) + 1
      BY <1>8, <2>2
    <3>2. t[j] = s[j1]
      BY <1>6, <2>2, <3>1
    <3>3. s[j1] \in 1 .. Len(cut) /\ s[j1] # item
      BY <1>2, <3>1, SMTT(30)
    <3>4. cut[s[j1]].next = IF j1 = Len(s) THEN Null ELSE s[j1 + 1]
      BY <3>1 DEF RowChained
    <3> HIDE DEF j1
    <3>5. CASE j1 = i
      <4>1. after[t[j]].next = item
        BY <1>4, <3>2, <3>3, <3>5
      <4>2. j = i
        BY <1>8, <2>2, <3>5 DEF j1
      <4>3. i # Len(t) /\ i + 1 \in 1 .. Len(s) + 1
        BY <1>8
      <4>4. t[i + 1] = item
        BY <1>6, <4>3
      <4> QED
        BY <4>1, <4>2, <4>3, <4>4
    <3>6. CASE j1 # i
      <4>1. s[j1] # fixed
        BY <3>1, <3>6 DEF RowChained
      <4>2. after[t[j]].next = cut[s[j1]].next
        BY <1>4, <3>2, <3>3, <4>1
      <4>3. j # i
        BY <1>8, <3>6 DEF j1
      <4>4. j = Len(t) <=> j1 = Len(s)
        BY <1>8, <2>2, <4>3 DEF j1
      <4>5. j # Len(t) => /\ j + 1 \in 1 .. Len(s) + 1 /\ j + 1 # i + 1
                          /\ (IF j + 1 < i + 1 THEN j + 1 ELSE j + 1 - 1) = j1 + 1
        BY <1>8, <2>2, <4>3 DEF j1
      <4>6. j # Len(t) => t[j + 1] = s[j1 + 1]
        <5> SUFFICES ASSUME j # Len(t) PROVE t[j + 1] = s[j1 + 1]
          OBVIOUS
        <5>1. t[j + 1] = s[IF j + 1 < i + 1 THEN j + 1 ELSE j + 1 - 1]
          BY <1>6, <4>5
        <5> QED
          BY <4>5, <5>1
      <4> QED
        BY <3>4, <4>2, <4>4, <4>6
    <3> QED
      BY <3>5, <3>6
  <2> QED
    BY <2>1, <2>2
<1>13. RowChained(after, tree, t)
  BY <1>6, <1>7, <1>9, <1>10, <1>11, <1>12 DEF RowChained
<1>14. \A n \in 1 .. Len(cut) : n # tree =>
          after[n].first = cut[n].first /\ after[n].last = cut[n].last
  BY <1>4
<1>15. \A n \in 1 .. Len(cut) : n # s[i] /\ n # item => after[n].next = cut[n].next
  BY <1>4
<1> QED
  BY <1>4, <1>13, <1>14, <1>15 DEF after, t

(* The same with a name for the place, to be cited of hidden terms. *)
LEMMA PutPlaced ==
  ASSUME NEW cut \in Seq(Node), NEW tree \in DOMAIN cut, NEW s, RowChained(cut, tree, s),
         NEW i \in 1 .. Len(s), NEW place, place = i + 1,
         NEW item \in DOMAIN cut, \A j \in 1 .. Len(s) : s[j] # item
  PROVE  LET after == PutBehind(cut, tree, s[i], item)
         IN  /\ SameItems(cut, after)
             /\ \A n \in 1 .. Len(cut) : after[n].parent = cut[n].parent
             /\ RowChained(after, tree, InsertAt(s, place, item))
             /\ \A n \in 1 .. Len(cut) : n # tree =>
                   after[n].first = cut[n].first /\ after[n].last = cut[n].last
             /\ \A n \in 1 .. Len(cut) : n # s[i] /\ n # item => after[n].next = cut[n].next
  BY PutChained, SMTT(30)

(* Where a node is in a row. *)
LEMMA AtIs ==
  ASSUME NEW row, \A i, j \in DOMAIN row : row[i] = row[j] => i = j, NEW p \in DOMAIN row
  PROVE  At(row, row[p]) = p
<1> DEFINE Is(i) == row[i] = row[p]
<1>1. Is(p)
  OBVIOUS
<1>2. ASSUME NEW i \in DOMAIN row, Is(i) PROVE i = p
  BY <1>2
<1>3. At(row, row[p]) = CHOOSE i \in DOMAIN row : Is(i)
  BY DEF At
<1> HIDE DEF Is
<1> QED
  BY <1>1, <1>2, <1>3

(* A row with one more at its end. *)
LEMMA AppendChained ==
  ASSUME NEW a, NEW b, NEW tree, NEW s, RowChained(a, tree, s), Len(a) \in Nat,
         Len(b) = Len(a) + 1, NEW new, new = Len(b),
         b[tree].first = IF a[tree].last = Null THEN new ELSE a[tree].first,
         b[tree].last = new, b[new].next = Null,
         \A n \in 1 .. Len(a) :
            b[n].next = IF n = a[tree].last /\ a[tree].last # Null THEN new ELSE a[n].next
  PROVE  RowChained(b, tree, Append(s, new))
<1> DEFINE t == Append(s, new)
<1>1. s \in Seq(1 .. Len(a)) /\ Len(s) \in Nat /\ Null = 0 /\ new = Len(a) + 1
  BY DEF RowChained, Null
<1>2. \A i \in 1 .. Len(s) : s[i] \in 1 .. Len(a) /\ s[i] # new /\ s[i] \in 1 .. Len(b)
  BY <1>1
<1>3. /\ Len(t) = Len(s) + 1 /\ t[Len(s) + 1] = new
      /\ \A i \in 1 .. Len(s) : t[i] = s[i]
  BY <1>1
<1>4. t \in Seq(1 .. Len(b))
  <2>1. s \in Seq(1 .. Len(b))
    BY <1>1
  <2>2. new \in 1 .. Len(b)
    BY <1>1
  <2> QED
    BY <2>1, <2>2
<1> HIDE DEF t
<1>5. \A i, j \in 1 .. Len(t) : t[i] = t[j] => i = j
  <2> SUFFICES ASSUME NEW i \in 1 .. Len(t), NEW j \in 1 .. Len(t), t[i] = t[j] PROVE i = j
    OBVIOUS
  <2>1. (i = Len(s) + 1 \/ i \in 1 .. Len(s)) /\ (j = Len(s) + 1 \/ j \in 1 .. Len(s))
    BY <1>1, <1>3
  <2> QED
    BY <1>2, <1>3, <2>1 DEF RowChained
<1>6. t # << >> /\ b[tree].last = t[Len(t)]
  BY <1>1, <1>3
<1>7. b[tree].first = t[1]
  <2>1. CASE s = << >>
    <3>1. Len(s) = 0
      BY <2>1
    <3>2. t[1] = new
      BY <1>3, <3>1
    <3> QED
      BY <2>1, <3>2 DEF RowChained
  <2>2. CASE s # << >>
    <3>1. 1 \in 1 .. Len(s) /\ Len(s) \in 1 .. Len(s)
      BY <1>1, <2>2
    <3>2. a[tree].last = s[Len(s)] /\ a[tree].first = s[1]
      BY <2>2 DEF RowChained
    <3>3. s[Len(s)] \in 1 .. Len(a)
      BY <1>1, <3>1
    <3>4. a[tree].last # Null
      BY <1>1, <3>2, <3>3
    <3> QED
      BY <1>3, <3>1, <3>2, <3>4
  <2> QED
    BY <2>1, <2>2
<1>8. \A i \in 1 .. Len(t) : b[t[i]].next = IF i = Len(t) THEN Null ELSE t[i + 1]
  <2> TAKE i \in 1 .. Len(t)
  <2>1. CASE i = Len(t)
    BY <1>3, <2>1
  <2>2. CASE i # Len(t)
    <3>1. i \in 1 .. Len(s) /\ s # << >> /\ Len(s) \in 1 .. Len(s)
      BY <1>1, <1>3, <2>2
    <3>2. t[i] = s[i] /\ s[i] \in 1 .. Len(a)
      BY <1>1, <1>3, <3>1
    <3>3. a[tree].last = s[Len(s)] /\ s[Len(s)] # Null
      <4>1. s[Len(s)] \in 1 .. Len(a)
        BY <1>1, <3>1
      <4> QED
        BY <1>1, <3>1, <4>1 DEF RowChained
    <3>4. s[i] = a[tree].last <=> i = Len(s)
      BY <3>1, <3>3 DEF RowChained
    <3>5. a[s[i]].next = IF i = Len(s) THEN Null ELSE s[i + 1]
      BY <3>1 DEF RowChained
    <3>6. b[t[i]].next = IF i = Len(s) THEN new ELSE s[i + 1]
      BY <3>2, <3>3, <3>4, <3>5
    <3>7. i = Len(s) => t[i + 1] = new
      BY <1>3
    <3>8. i # Len(s) => i + 1 \in 1 .. Len(s)
      BY <1>1, <3>1
    <3> QED
      BY <1>3, <2>2, <3>6, <3>7, <3>8
  <2> QED
    BY <2>1, <2>2
<1> QED
  BY <1>4, <1>5, <1>6, <1>7, <1>8 DEF RowChained, t

(* AddItem leaves the rows right when it links a new node: RowChained for its *)
(* parent, whose level was checked if this is the first child.             *)
LEMMA NodeRows ==
  ASSUME Typed, Rows, NEW tree \in DOMAIN nodes, NEW hf \in Hf, ~TooDeep(tree),
         nodes' = AddNode(tree, hf),
         rows' = Append([rows EXCEPT ![tree] = Append(@, Len(nodes'))], << >>)
  PROVE  Rows'
<1> DEFINE new == Len(nodes) + 1
           grown == Append(rows[tree], new)
<1>1. nodes \in Seq(Node) /\ Len(nodes) \in Nat /\ DOMAIN nodes = 1 .. Len(nodes)
      /\ tree \in 1 .. Len(nodes) /\ Null = 0
  BY DEF Typed, Null
<1>2. rows \in Seq(Seq(Nat)) /\ Len(rows) = Len(nodes) /\ Parented(nodes, rows)
  BY DEF Rows
<1>3. nodes' \in Seq(Node) /\ Len(nodes') = new
  BY <1>1, NodeAdded
<1>4. /\ nodes'[new].parent = tree /\ nodes'[new].first = Null
      /\ nodes'[new].last = Null /\ nodes'[new].next = Null
      /\ \A n \in 1 .. Len(nodes) :
           /\ nodes'[n].parent = nodes[n].parent
           /\ nodes'[n].first = IF n = tree /\ nodes[tree].last = Null THEN new ELSE nodes[n].first
           /\ nodes'[n].last = IF n = tree THEN new ELSE nodes[n].last
           /\ nodes'[n].next = IF n = nodes[tree].last /\ nodes[tree].last # Null
                               THEN new ELSE nodes[n].next
  BY <1>1, NodeLinked
<1>5. /\ rows' \in Seq(Seq(Nat)) /\ Len(rows') = new /\ rows'[new] = << >>
      /\ rows'[tree] = grown
      /\ \A n \in 1 .. Len(nodes) : n # tree => rows'[n] = rows[n]
  <2>1. rows[tree] \in Seq(Nat) /\ new \in Nat
    BY <1>1, <1>2
  <2>2. grown \in Seq(Nat)
    BY <2>1
  <2> DEFINE mid == [rows EXCEPT ![tree] = grown]
  <2> HIDE DEF grown
  <2>3. /\ mid \in Seq(Seq(Nat)) /\ Len(mid) = Len(nodes) /\ mid[tree] = grown
        /\ \A n \in 1 .. Len(nodes) : n # tree => mid[n] = rows[n]
    BY <1>1, <1>2, <2>2
  <2>4. rows' = Append(mid, << >>)
    BY <1>3 DEF grown
  <2>5. << >> \in Seq(Nat)
    OBVIOUS
  <2> HIDE DEF mid
  <2>6. rows' \in Seq(Seq(Nat)) /\ Len(rows') = new
    <3> DEFINE T == Seq(Nat)
    <3>1. mid \in Seq(T) /\ << >> \in T
      BY <2>3, <2>5
    <3> HIDE DEF T
    <3>2. Append(mid, << >>) \in Seq(T) /\ Len(Append(mid, << >>)) = Len(mid) + 1
      BY <3>1
    <3> QED
      BY <2>3, <2>4, <3>2 DEF T
  <2>7. rows'[new] = << >>
    BY <2>3, <2>4
  <2>8. \A n \in 1 .. Len(nodes) : rows'[n] = mid[n]
    BY <2>3, <2>4
  <2> QED
    BY <1>1, <2>3, <2>6, <2>7, <2>8
<1>6. RowChained(nodes, tree, rows[tree])
  BY <1>1 DEF Rows
<1>7. RowChained(nodes', tree, grown)
  <2>1. nodes'[tree].first = IF nodes[tree].last = Null THEN new ELSE nodes[tree].first
    BY <1>1, <1>4
  <2>2. nodes'[tree].last = new
    BY <1>1, <1>4
  <2> QED
    BY <1>1, <1>3, <1>4, <1>6, <2>1, <2>2, AppendChained
<1>8. ASSUME NEW n \in 1 .. Len(nodes), n # tree
      PROVE  RowChained(nodes', n, rows[n])
  <2>1. RowChained(nodes, n, rows[n])
    BY DEF Rows
  <2>2. nodes'[n].first = nodes[n].first /\ nodes'[n].last = nodes[n].last
    BY <1>4, <1>8
  <2>3. \A i \in 1 .. Len(rows[n]) : nodes'[rows[n][i]].next = nodes[rows[n][i]].next
    <3> TAKE i \in 1 .. Len(rows[n])
    <3>1. rows[n][i] \in 1 .. Len(nodes)
      BY <2>1 DEF RowChained
    <3>2. nodes[rows[n][i]].parent = n
      BY <1>2 DEF Parented
    <3>3. nodes[tree].last # Null => nodes[nodes[tree].last].parent = tree
      <4> SUFFICES ASSUME nodes[tree].last # Null
                   PROVE  nodes[nodes[tree].last].parent = tree
        OBVIOUS
      <4>1. nodes[tree].last = rows[tree][Len(rows[tree])] /\ rows[tree] # << >>
        BY <1>6 DEF RowChained
      <4>2. Len(rows[tree]) \in 1 .. Len(rows[tree])
        BY <1>6, <4>1 DEF RowChained
      <4> QED
        BY <1>1, <1>2, <4>1, <4>2, ZenonT(60) DEF Parented
    <3> QED
      BY <1>4, <1>8, <3>1, <3>2, <3>3
  <2>4. Len(nodes') \in Nat /\ Len(nodes) <= Len(nodes')
    BY <1>1, <1>3
  <2> QED
    BY <1>1, <2>1, <2>2, <2>3, <2>4, RowStays
<1>9. RowChained(nodes', new, << >>)
  <2>1. << >> \in Seq(1 .. new) /\ Len(<< >>) = 0
    OBVIOUS
  <2> QED
    BY <1>3, <1>4, <2>1 DEF RowChained
<1>10. \A n \in 1 .. Len(nodes') : RowChained(nodes', n, rows'[n])
  <2> TAKE n \in 1 .. Len(nodes')
  <2>1. n = new \/ n \in 1 .. Len(nodes)
    BY <1>1, <1>3
  <2> QED
    BY <1>5, <1>7, <1>8, <1>9, <2>1
<1>11. Parented(nodes', rows')
  <2>1. nodes'[1].next = Null /\ nodes'[1].parent = Null
    <3>1. nodes[1].next = Null /\ nodes[1].parent = Null /\ 1 \in 1 .. Len(nodes)
      BY <1>1, <1>2 DEF Parented
    <3>2. nodes[tree].last # 1
      <4> SUFFICES ASSUME nodes[tree].last = 1 PROVE FALSE
        OBVIOUS
      <4>1. nodes[tree].last = rows[tree][Len(rows[tree])] /\ rows[tree] # << >>
        BY <1>1, <1>6 DEF RowChained
      <4>2. Len(rows[tree]) \in 1 .. Len(rows[tree])
        BY <1>6, <4>1 DEF RowChained
      <4> QED
        BY <1>1, <1>2, <4>1, <4>2 DEF Parented
    <3> QED
      BY <1>4, <3>1, <3>2
  <2>2. ASSUME NEW n \in 2 .. Len(nodes')
        PROVE  /\ nodes'[n].parent \in 1 .. n - 1
               /\ \E i \in 1 .. Len(rows'[nodes'[n].parent]) : rows'[nodes'[n].parent][i] = n
    <3>1. Len(rows[tree]) \in Nat /\ Len(grown) = Len(rows[tree]) + 1
          /\ grown[Len(rows[tree]) + 1] = new
          /\ \A i \in 1 .. Len(rows[tree]) : grown[i] = rows[tree][i]
      BY <1>6 DEF RowChained
    <3> HIDE DEF grown
    <3>2. CASE n = new
      <4>1. nodes'[n].parent = tree /\ tree \in 1 .. n - 1
        BY <1>1, <1>4, <3>2
      <4>2. rows'[tree] = grown /\ Len(grown) \in 1 .. Len(grown) /\ grown[Len(grown)] = n
        BY <1>5, <3>1, <3>2
      <4> QED
        BY <4>1, <4>2
    <3>3. CASE n # new
      <4>1. n \in 2 .. Len(nodes) /\ n \in 1 .. Len(nodes)
        BY <1>1, <1>3, <3>3
      <4>2. nodes'[n].parent = nodes[n].parent
        BY <1>4, <4>1
      <4>3. nodes[n].parent \in 1 .. n - 1
            /\ \E i \in 1 .. Len(rows[nodes[n].parent]) : rows[nodes[n].parent][i] = n
        BY <1>2, <4>1 DEF Parented
      <4>4. nodes[n].parent \in 1 .. Len(nodes)
        BY <1>1, <4>1, <4>3
      <4>5. CASE nodes[n].parent = tree
        <5>1. PICK i \in 1 .. Len(rows[tree]) : rows[tree][i] = n
          BY <4>3, <4>5
        <5>2. i \in 1 .. Len(grown) /\ grown[i] = n
          BY <3>1, <5>1
        <5> QED
          BY <1>5, <4>2, <4>3, <4>5, <5>2
      <4>6. CASE nodes[n].parent # tree
        BY <1>5, <4>2, <4>3, <4>4, <4>6
      <4> QED
        BY <4>5, <4>6
    <3> QED
      BY <3>2, <3>3
  <2>3. ASSUME NEW n \in 1 .. Len(nodes'), NEW i \in 1 .. Len(rows'[n])
        PROVE  rows'[n][i] # 1 /\ nodes'[rows'[n][i]].parent = n
    <3>1. CASE n = new
      <4>1. rows'[n] = << >> /\ Len(<< >>) = 0
        BY <1>5, <3>1
      <4>2. i \in 1 .. 0
        BY <4>1
      <4>3. FALSE
        BY <4>2
      <4> QED
        BY <4>3
    <3>2. CASE n # new /\ n # tree
      <4>1. n \in 1 .. Len(nodes)
        BY <1>1, <1>3, <3>2
      <4>2. rows'[n] = rows[n] /\ RowChained(nodes, n, rows[n])
        BY <1>5, <3>2, <4>1 DEF Rows
      <4>i. i \in 1 .. Len(rows[n])
        BY <4>2
      <4>3. rows[n][i] \in 1 .. Len(nodes)
        BY <4>2, <4>i DEF RowChained
      <4>4. rows[n][i] # 1 /\ nodes[rows[n][i]].parent = n
        BY <1>2, <4>1, <4>i DEF Parented
      <4> QED
        BY <1>4, <4>2, <4>3, <4>4
    <3>3. CASE n = tree
      <4>1. Len(rows[tree]) \in Nat /\ Len(grown) = Len(rows[tree]) + 1
            /\ grown[Len(rows[tree]) + 1] = new
            /\ \A j \in 1 .. Len(rows[tree]) : grown[j] = rows[tree][j]
        BY <1>6 DEF RowChained
      <4>2. rows'[n] = grown
        BY <1>5, <3>3
      <4> HIDE DEF grown
      <4>i. i \in 1 .. Len(grown)
        BY <4>2
      <4>3. i = Len(rows[tree]) + 1 \/ i \in 1 .. Len(rows[tree])
        BY <4>1, <4>i
      <4>4. CASE i = Len(rows[tree]) + 1
        <5>n. new # 1
          BY <1>1
        <5>1. rows'[n][i] = new /\ new # 1
          BY <4>1, <4>2, <4>4, <5>n
        <5> QED
          BY <1>4, <3>3, <5>1
      <4>5. CASE i \in 1 .. Len(rows[tree])
        <5>a. rows[tree][i] \in 1 .. Len(nodes)
          BY <1>6, <4>5, SMTT(30) DEF RowChained
        <5>1. rows'[n][i] = rows[tree][i] /\ rows[tree][i] \in 1 .. Len(nodes)
          BY <4>1, <4>2, <4>5, <5>a
        <5>2. rows[tree][i] # 1 /\ nodes[rows[tree][i]].parent = tree
          BY <1>1, <1>2, <4>5 DEF Parented
        <5> QED
          BY <1>4, <3>3, <5>1, <5>2
      <4> QED
        BY <4>3, <4>4, <4>5
    <3> QED
      BY <3>1, <3>2, <3>3
  <2> QED
    BY <2>1, <2>2, <2>3 DEF Parented
<1>12. \E level : Levels(nodes', rows', level)
  <2>1. PICK level : Levels(nodes, rows, level)
    BY DEF Rows
  <2> DEFINE after == [n \in 1 .. new |-> IF n = new THEN 1 + level[tree] ELSE level[n]]
  <2>2. level \in [1 .. Len(nodes) -> Nat] /\ level[tree] \in Nat
    BY <1>1, <2>1 DEF Levels
  <2>3. /\ after \in [1 .. new -> Nat] /\ after[new] = 1 + level[tree]
        /\ \A n \in 1 .. Len(nodes) : n # new /\ after[n] = level[n]
    BY <1>1, <2>2
  <2> HIDE DEF after
  <2>4. level[tree] + 1 <= MaxTreeLevels
    <3>1. CASE nodes[tree].first = Null
      <4>1. Level(tree) = level[tree]
        BY <1>1, <1>2, <2>1, LevelIs
      <4> QED
        BY <2>2, <3>1, <4>1, ProtoTreeAssumption DEF TooDeep
    <3>2. CASE nodes[tree].first # Null
      <4>1. rows[tree] # << >>
        BY <1>6, <3>2 DEF RowChained
      <4> QED
        BY <1>1, <2>1, <4>1 DEF Levels
    <3> QED
      BY <3>1, <3>2
  <2>5. after[1] = 1
    BY <1>1, <2>1, <2>3 DEF Levels
  <2>6. ASSUME NEW n \in 2 .. new
        PROVE  after[n] = 1 + after[nodes'[n].parent]
    <3>1. CASE n = new
      BY <1>1, <1>4, <2>3, <3>1
    <3>2. CASE n # new
      <4>1. n \in 2 .. Len(nodes) /\ n \in 1 .. Len(nodes)
        BY <1>1, <3>2
      <4>2. nodes'[n].parent = nodes[n].parent /\ nodes[n].parent \in 1 .. n - 1
        BY <1>2, <1>4, <4>1 DEF Parented
      <4>3. nodes[n].parent \in 1 .. Len(nodes)
        BY <1>1, <4>1, <4>2
      <4> QED
        BY <2>1, <2>3, <4>1, <4>2, <4>3 DEF Levels
    <3> QED
      BY <3>1, <3>2
  <2>7. ASSUME NEW n \in 1 .. new
        PROVE  after[n] <= MaxTreeLevels /\ (rows'[n] # << >> => after[n] + 1 <= MaxTreeLevels)
    <3>1. CASE n = new
      BY <1>5, <2>2, <2>3, <2>4, <3>1
    <3>2. CASE n # new
      <4>1. n \in 1 .. Len(nodes)
        BY <1>1, <3>2
      <4>2. after[n] = level[n] /\ level[n] <= MaxTreeLevels
        BY <2>1, <2>3, <4>1 DEF Levels
      <4>3. CASE n = tree
        BY <2>4, <4>2, <4>3
      <4>4. CASE n # tree
        BY <1>5, <2>1, <4>1, <4>2, <4>4 DEF Levels
      <4> QED
        BY <4>3, <4>4
    <3> QED
      BY <3>1, <3>2
  <2>8. Levels(nodes', rows', after)
    BY <1>3, <2>3, <2>5, <2>6, <2>7 DEF Levels
  <2> QED
    BY <2>8
<1> QED
  BY <1>3, <1>5, <1>10, <1>11, <1>12 DEF Rows

(* MoveItem makes the new row of the old one, by the two halves. *)
LEMMA MoveRows ==
  ASSUME Typed, Rows, NEW tree \in DOMAIN nodes, NEW fixed \in DOMAIN nodes,
         NEW item \in DOMAIN nodes, MoveItem(tree, fixed, item)
  PROVE  Rows'
<1> DEFINE r == rows[tree]
<1>1. nodes \in Seq(Node) /\ Len(nodes) \in Nat /\ DOMAIN nodes = 1 .. Len(nodes)
      /\ tree \in 1 .. Len(nodes) /\ tree # Null /\ Null = 0
  BY DEF Typed, Null
<1>2. rows \in Seq(Seq(Nat)) /\ Len(rows) = Len(nodes) /\ Parented(nodes, rows)
      /\ RowChained(nodes, tree, r)
  BY <1>1 DEF Rows
<1>3. nodes[fixed].parent = tree /\ nodes[item].parent = tree /\ fixed # item
  BY DEF MoveItem
<1>4. PICK p \in 1 .. Len(r) : r[p] = item
  <2>1. item # 1 /\ item \in 1 .. Len(nodes)
    BY <1>1, <1>2, <1>3 DEF Parented
  <2>2. item \in 2 .. Len(nodes)
    BY <1>1, <2>1
  <2> QED
    BY <1>2, <1>3, <2>2, ZenonT(60) DEF Parented
<1>5. PICK f \in 1 .. Len(r) : r[f] = fixed
  <2>1. fixed # 1 /\ fixed \in 1 .. Len(nodes)
    BY <1>1, <1>2, <1>3 DEF Parented
  <2>2. fixed \in 2 .. Len(nodes)
    BY <1>1, <2>1
  <2> QED
    BY <1>2, <1>3, <2>2, ZenonT(60) DEF Parented
<1> DEFINE s == RemoveAt(r, p)
           i == IF f < p THEN f ELSE f - 1
           t == InsertAt(s, i + 1, item)
           cut == CutOut(tree, item)
<1>6. /\ r \in Seq(1 .. Len(nodes)) /\ Len(r) \in Nat /\ DOMAIN r = 1 .. Len(r)
      /\ f # p /\ Len(r) >= 2
      /\ \A j, k \in 1 .. Len(r) : r[j] = r[k] => j = k
  <2>1. r \in Seq(1 .. Len(nodes)) /\ \A j, k \in 1 .. Len(r) : r[j] = r[k] => j = k
    BY <1>2 DEF RowChained
  <2>2. Len(r) \in Nat /\ DOMAIN r = 1 .. Len(r) /\ f # p
    BY <1>3, <1>4, <1>5, <2>1
  <2>3. Len(r) >= 2
    BY <1>4, <1>5, <2>2
  <2> QED
    BY <2>1, <2>2, <2>3
<1>7. /\ s \in Seq(1 .. Len(nodes)) /\ Len(s) = Len(r) - 1
      /\ \A j \in 1 .. Len(r) - 1 : s[j] = r[IF j < p THEN j ELSE j + 1]
  <2> DEFINE T == 1 .. Len(nodes)
  <2>1. r \in Seq(T) /\ p \in 1 .. Len(r)
    BY <1>6
  <2> HIDE DEF T, r
  <2>2. /\ RemoveAt(r, p) \in Seq(T) /\ Len(RemoveAt(r, p)) = Len(r) - 1
        /\ \A j \in 1 .. Len(r) - 1 : RemoveAt(r, p)[j] = r[IF j < p THEN j ELSE j + 1]
    BY <2>1, RemovedAt
  <2> QED
    BY <2>2 DEF T
<1>8. /\ SameItems(nodes, cut)
      /\ \A n \in 1 .. Len(nodes) : cut[n].parent = nodes[n].parent
      /\ RowChained(cut, tree, s)
      /\ \A n \in 1 .. Len(nodes) : n # tree =>
            cut[n].first = nodes[n].first /\ cut[n].last = nodes[n].last
      /\ \A n \in 1 .. Len(nodes) : nodes[n].parent # tree => cut[n].next = nodes[n].next
  <2>1. LET out == CutOut(tree, rows[tree][p])
        IN  /\ SameItems(nodes, out)
            /\ \A n \in 1 .. Len(nodes) : out[n].parent = nodes[n].parent
            /\ RowChained(out, tree, RemoveAt(rows[tree], p))
            /\ \A n \in 1 .. Len(nodes) : n # tree =>
                  out[n].first = nodes[n].first /\ out[n].last = nodes[n].last
            /\ \A n \in 1 .. Len(nodes) : nodes[n].parent # tree => out[n].next = nodes[n].next
    BY <1>6, CutChained
  <2> QED
    BY <1>4, <2>1
<1> HIDE DEF s
<1>9. i \in 1 .. Len(s) /\ s[i] = fixed
  <2>1. i \in 1 .. Len(r) - 1 /\ (IF i < p THEN i ELSE i + 1) = f
    BY <1>4, <1>5, <1>6, SMTT(30)
  <2> HIDE DEF i
  <2>2. s[i] = r[IF i < p THEN i ELSE i + 1]
    BY <1>7, <2>1
  <2> QED
    BY <1>5, <1>7, <2>1, <2>2
<1>10. \A j \in 1 .. Len(s) : s[j] # item
  <2> TAKE j \in 1 .. Len(s)
  <2> DEFINE j1 == IF j < p THEN j ELSE j + 1
  <2>1. j \in 1 .. Len(r) - 1 /\ j1 \in 1 .. Len(r) /\ j1 # p
    BY <1>4, <1>6, <1>7, SMTT(30)
  <2>2. s[j] = r[j1]
    BY <1>7, <2>1
  <2> HIDE DEF j1
  <2> QED
    BY <1>4, <1>6, <2>1, <2>2
<1> HIDE DEF i, cut
<1>11. cut \in Seq(Node) /\ DOMAIN cut = DOMAIN nodes /\ Len(cut) = Len(nodes)
  BY <1>1, <1>8 DEF SameItems
<1>12. nodes' = PutBehind(cut, tree, s[i], item)
  BY <1>9 DEF MoveItem, cut
<1>13. /\ SameItems(cut, nodes')
       /\ \A n \in 1 .. Len(cut) : nodes'[n].parent = cut[n].parent
       /\ RowChained(nodes', tree, t)
       /\ \A n \in 1 .. Len(cut) : n # tree =>
             nodes'[n].first = cut[n].first /\ nodes'[n].last = cut[n].last
       /\ \A n \in 1 .. Len(cut) : n # s[i] /\ n # item => nodes'[n].next = cut[n].next
  <2> HIDE DEF r, t
  <2>1. /\ cut \in Seq(Node) /\ tree \in DOMAIN cut /\ item \in DOMAIN cut
        /\ RowChained(cut, tree, s) /\ i \in 1 .. Len(s) /\ \A j \in 1 .. Len(s) : s[j] # item
    BY <1>8, <1>9, <1>10, <1>11
  <2> DEFINE place == i + 1
  <2> HIDE DEF place
  <2> DEFINE after == PutBehind(cut, tree, s[i], item)
             u == InsertAt(s, place, item)
  <2>2. /\ SameItems(cut, after)
        /\ \A n \in 1 .. Len(cut) : after[n].parent = cut[n].parent
        /\ RowChained(after, tree, u)
        /\ \A n \in 1 .. Len(cut) : n # tree =>
              after[n].first = cut[n].first /\ after[n].last = cut[n].last
        /\ \A n \in 1 .. Len(cut) : n # s[i] /\ n # item => after[n].next = cut[n].next
    <3>1. place = i + 1
      BY DEF place
    <3> QED
      BY <2>1, <3>1, PutPlaced, SMTT(30)
  <2>3. nodes' = after /\ t = u
    BY <1>12 DEF t, place
  <2> HIDE DEF after, u
  <2> QED
    BY <2>2, <2>3
<1>14. /\ t \in Seq(1 .. Len(nodes)) /\ Len(t) = Len(s) + 1
       /\ \A j \in 1 .. Len(s) + 1 :
             t[j] = IF j = i + 1 THEN item ELSE s[IF j < i + 1 THEN j ELSE j - 1]
  <2> DEFINE T == 1 .. Len(nodes)
             q == i + 1
  <2>1. s \in Seq(T) /\ item \in T /\ q \in 1 .. Len(s) + 1
    BY <1>1, <1>6, <1>7, <1>9
  <2> HIDE DEF T, q
  <2>2. /\ InsertAt(s, q, item) \in Seq(T) /\ Len(InsertAt(s, q, item)) = Len(s) + 1
        /\ \A j \in 1 .. Len(s) + 1 :
              InsertAt(s, q, item)[j] = IF j = q THEN item ELSE s[IF j < q THEN j ELSE j - 1]
    BY <2>1, InsertedAt
  <2> QED
    BY <2>2 DEF T, q
<1>15. Moved(r, fixed, item) = t
  <2>1. At(r, item) = p
    BY <1>4, <1>6, AtIs
  <2>2. DOMAIN s = 1 .. Len(s) /\ \A j, k \in DOMAIN s : s[j] = s[k] => j = k
    <3>1. DOMAIN s = 1 .. Len(s)
      BY <1>7
    <3> QED
      BY <1>8, <3>1 DEF RowChained
  <2>3. At(s, fixed) = i
    BY <1>9, <2>2, AtIs
  <2> QED
    BY <2>1, <2>3 DEF Moved, s
<1> HIDE DEF t
<1>16. rows' = [rows EXCEPT ![tree] = t]
  BY <1>15 DEF MoveItem
<1>17. t \in Seq(Nat)
  <2>1. 1 .. Len(nodes) \subseteq Nat
    OBVIOUS
  <2> QED
    BY <1>14, <2>1
<1>18. /\ rows' \in Seq(Seq(Nat)) /\ Len(rows') = Len(nodes) /\ rows'[tree] = t
       /\ \A n \in 1 .. Len(nodes) : n # tree => rows'[n] = rows[n]
  BY <1>1, <1>2, <1>16, <1>17
<1>19. Len(nodes') = Len(nodes) /\ \A n \in 1 .. Len(nodes) : nodes'[n].parent = nodes[n].parent
  BY <1>8, <1>11, <1>13 DEF SameItems
<1>20. \A n \in 1 .. Len(nodes) : nodes[n].parent # tree => nodes'[n].next = nodes[n].next
  BY <1>3, <1>8, <1>9, <1>11, <1>13
<1>21. \A n \in 1 .. Len(nodes') : RowChained(nodes', n, rows'[n])
  <2> TAKE n \in 1 .. Len(nodes')
  <2>1. CASE n = tree
    BY <1>13, <1>18, <2>1
  <2>2. CASE n # tree
    <3>1. n \in 1 .. Len(nodes) /\ rows'[n] = rows[n] /\ RowChained(nodes, n, rows[n])
      BY <1>18, <1>19, <2>2 DEF Rows
    <3>2. nodes'[n].first = nodes[n].first /\ nodes'[n].last = nodes[n].last
      BY <1>8, <1>11, <1>13, <2>2, <3>1
    <3>3. \A j \in 1 .. Len(rows[n]) : nodes'[rows[n][j]].next = nodes[rows[n][j]].next
      <4> TAKE j \in 1 .. Len(rows[n])
      <4>1. rows[n][j] \in 1 .. Len(nodes)
        BY <3>1 DEF RowChained
      <4>2. nodes[rows[n][j]].parent = n
        BY <1>2, <3>1 DEF Parented
      <4> QED
        BY <1>20, <2>2, <4>1, <4>2
    <3>4. Len(nodes') \in Nat /\ Len(nodes) <= Len(nodes')
      BY <1>1, <1>19
    <3>5. RowChained(nodes', n, rows[n])
      BY <1>1, <3>1, <3>2, <3>3, <3>4, RowStays
    <3> QED
      BY <3>1, <3>5
  <2> QED
    BY <2>1, <2>2
(* The row has the same nodes as before. *)
<1>22. ASSUME NEW j \in 1 .. Len(t)
       PROVE  \E k \in 1 .. Len(r) : t[j] = r[k]
  <2>1. j \in 1 .. Len(s) + 1
    BY <1>14
  <2>2. CASE j = i + 1
    <3>1. t[j] = item
      BY <1>14, <2>1, <2>2
    <3> QED
      BY <1>4, <3>1
  <2>3. CASE j # i + 1
    <3> DEFINE j1 == IF j < i + 1 THEN j ELSE j - 1
               j2 == IF j1 < p THEN j1 ELSE j1 + 1
    <3>1. i \in Int /\ Len(s) \in Int /\ Len(r) \in Int /\ Len(s) = Len(r) - 1 /\ p \in Int
          /\ i >= 1 /\ i <= Len(s)
      BY <1>4, <1>6, <1>7, <1>9
    <3>2. j1 \in 1 .. Len(r) - 1
      BY <2>1, <2>3, <3>1
    <3>3. t[j] = s[j1]
      BY <1>14, <2>1, <2>3
    <3> HIDE DEF j1
    <3>4. j2 \in 1 .. Len(r)
      BY <3>1, <3>2
    <3>5. s[j1] = r[j2]
      BY <1>7, <3>2
    <3> QED
      BY <3>3, <3>4, <3>5
  <2> QED
    BY <2>2, <2>3
<1>23. ASSUME NEW k \in 1 .. Len(r)
       PROVE  \E j \in 1 .. Len(t) : t[j] = r[k]
  <2>1. i \in Int /\ Len(s) \in Int /\ Len(r) \in Int /\ Len(s) = Len(r) - 1 /\ p \in Int
        /\ i >= 1 /\ i <= Len(s) /\ p >= 1 /\ p <= Len(r) /\ Len(t) = Len(s) + 1
    BY <1>4, <1>6, <1>7, <1>9, <1>14
  <2>2. CASE k = p
    <3>1. i + 1 \in 1 .. Len(s) + 1 /\ i + 1 \in 1 .. Len(t)
      BY <2>1
    <3>2. t[i + 1] = item
      BY <1>14, <3>1
    <3> QED
      BY <1>4, <2>2, <3>1, <3>2
  <2>3. CASE k # p
    <3> DEFINE k1 == IF k < p THEN k ELSE k - 1
               k2 == IF k1 < i + 1 THEN k1 ELSE k1 + 1
    <3>1. k1 \in 1 .. Len(r) - 1 /\ (IF k1 < p THEN k1 ELSE k1 + 1) = k
      BY <2>1, <2>3
    <3> HIDE DEF k1
    <3>2. s[k1] = r[k]
      BY <1>7, <3>1
    <3>3. k2 \in 1 .. Len(s) + 1 /\ k2 # i + 1 /\ (IF k2 < i + 1 THEN k2 ELSE k2 - 1) = k1
      BY <2>1, <3>1
    <3> HIDE DEF k2
    <3>4. t[k2] = s[IF k2 < i + 1 THEN k2 ELSE k2 - 1]
      BY <1>14, <3>3
    <3>5. t[k2] = r[k] /\ k2 \in 1 .. Len(t)
      BY <2>1, <3>2, <3>3, <3>4
    <3> QED
      BY <3>5
  <2> QED
    BY <2>2, <2>3
<1>24. Parented(nodes', rows')
  <2>1. Len(nodes') > 0 => nodes'[1].next = Null /\ nodes'[1].parent = Null
    <3>1. 1 \in 1 .. Len(nodes) /\ nodes[1].next = Null /\ nodes[1].parent = Null
      BY <1>1, <1>2 DEF Parented
    <3> QED
      BY <1>1, <1>19, <1>20, <3>1
  <2>2. ASSUME NEW n \in 2 .. Len(nodes')
        PROVE  /\ nodes'[n].parent \in 1 .. n - 1
               /\ \E j \in 1 .. Len(rows'[nodes'[n].parent]) : rows'[nodes'[n].parent][j] = n
    <3>1. n \in 2 .. Len(nodes) /\ n \in 1 .. Len(nodes)
      BY <1>1, <1>19
    <3>2. nodes'[n].parent = nodes[n].parent
      BY <1>19, <3>1
    <3>3. nodes[n].parent \in 1 .. n - 1
          /\ \E j \in 1 .. Len(rows[nodes[n].parent]) : rows[nodes[n].parent][j] = n
      BY <1>2, <3>1 DEF Parented
    <3>4. nodes[n].parent \in 1 .. Len(nodes)
      BY <1>1, <3>1, <3>3
    <3>5. CASE nodes[n].parent = tree
      <4>1. PICK k \in 1 .. Len(r) : r[k] = n
        BY <3>3, <3>5
      <4>2. \E j \in 1 .. Len(t) : t[j] = n
        BY <1>23, <4>1
      <4> QED
        BY <1>18, <3>2, <3>3, <3>5, <4>2
    <3>6. CASE nodes[n].parent # tree
      BY <1>18, <3>2, <3>3, <3>4, <3>6
    <3> QED
      BY <3>5, <3>6
  <2>3. ASSUME NEW n \in 1 .. Len(nodes'), NEW j \in 1 .. Len(rows'[n])
        PROVE  rows'[n][j] # 1 /\ nodes'[rows'[n][j]].parent = n
    <3>1. n \in 1 .. Len(nodes)
      BY <1>19
    <3>2. CASE n = tree
      <4>1. rows'[n] = t /\ j \in 1 .. Len(t)
        BY <1>18, <3>2
      <4>2. PICK k \in 1 .. Len(r) : t[j] = r[k]
        BY <1>22, <4>1
      <4>3. r[k] \in 1 .. Len(nodes) /\ r[k] # 1 /\ nodes[r[k]].parent = tree
        <5>1. r[k] \in 1 .. Len(nodes)
          <6> HIDE DEF r
          <6> QED
            BY <1>6, SMTT(30)
        <5>2. rows[tree][k] # 1 /\ nodes[rows[tree][k]].parent = tree
          BY <1>1, <1>2 DEF Parented
        <5> QED
          BY <5>1, <5>2
      <4> QED
        BY <1>19, <3>2, <4>1, <4>2, <4>3
    <3>3. CASE n # tree
      <4>1. rows'[n] = rows[n] /\ j \in 1 .. Len(rows[n]) /\ RowChained(nodes, n, rows[n])
        BY <1>18, <3>1, <3>3 DEF Rows
      <4>2. rows[n][j] \in 1 .. Len(nodes)
        BY <4>1, SMTT(30) DEF RowChained
      <4>3. rows[n][j] # 1 /\ nodes[rows[n][j]].parent = n
        BY <1>2, <3>1, <4>1 DEF Parented
      <4> QED
        BY <1>19, <4>1, <4>2, <4>3
    <3> QED
      BY <3>2, <3>3
  <2> QED
    BY <2>1, <2>2, <2>3 DEF Parented
<1>25. \E level : Levels(nodes', rows', level)
  <2>1. PICK level : Levels(nodes, rows, level)
    BY DEF Rows
  <2>2. \A n \in 1 .. Len(nodes) : rows'[n] # << >> => rows[n] # << >>
    <3> TAKE n \in 1 .. Len(nodes)
    <3>1. r # << >>
      BY <1>6
    <3> QED
      BY <1>18, <3>1
  <2>3. \A n \in 2 .. Len(nodes) : n \in 1 .. Len(nodes)
    BY <1>1
  <2>4. Levels(nodes', rows', level)
    BY <1>19, <2>1, <2>2, <2>3 DEF Levels
  <2> QED
    BY <2>4
<1> QED
  BY <1>18, <1>19, <1>21, <1>24, <1>25 DEF Rows

(* A tree of a root only, and no tree. *)
LEMMA RootRows ==
  ASSUME FreshTree PROVE Rows'
<1> DEFINE root == NewNode(<< >>, Null)
<1>1. nodes' = << root >> /\ rows' = << << >> >>
  BY DEF FreshTree
<1>2. root.parent = Null /\ root.first = Null /\ root.last = Null /\ root.next = Null
  BY DEF NewNode
<1> HIDE DEF root
<1>3. Len(nodes') = 1 /\ nodes'[1] = root /\ Len(rows') = 1 /\ rows'[1] = << >>
  BY <1>1
<1>4. rows' \in Seq(Seq(Nat)) /\ 1 .. 1 = {1} /\ 2 .. 1 = {} /\ Len(<< >>) = 0 /\ 1 .. 0 = {}
  BY <1>1
<1>5. RowChained(nodes', 1, << >>)
  BY <1>2, <1>3, <1>4 DEF RowChained
<1>6. Parented(nodes', rows')
  BY <1>2, <1>3, <1>4 DEF Parented
<1>7. \E level : Levels(nodes', rows', level)
  <2> DEFINE level == [n \in 1 .. 1 |-> 1]
  <2>1. level \in [1 .. 1 -> Nat] /\ level[1] = 1
    OBVIOUS
  <2> HIDE DEF level
  <2>2. 1 <= MaxTreeLevels
    BY ProtoTreeAssumption
  <2>3. Levels(nodes', rows', level)
    BY <1>3, <1>4, <2>1, <2>2 DEF Levels
  <2> QED
    BY <2>3
<1> QED
  BY <1>3, <1>4, <1>5, <1>6, <1>7 DEF Rows

(* What Rows says, of no nodes. *)
LEMMA NoRows ==
  ASSUME NEW ns, NEW rs, ns = << >>, rs = << >>
  PROVE  /\ rs \in Seq(Seq(Nat)) /\ Len(rs) = Len(ns)
         /\ \A tree \in 1 .. Len(ns) : RowChained(ns, tree, rs[tree])
         /\ Parented(ns, rs)
         /\ \E level : Levels(ns, rs, level)
<1>1. Len(ns) = 0 /\ rs \in Seq(Seq(Nat)) /\ Len(rs) = 0 /\ 1 .. 0 = {} /\ 2 .. 0 = {}
  OBVIOUS
<1>2. Levels(ns, rs, [n \in 1 .. 0 |-> 1])
  BY <1>1 DEF Levels
<1> QED
  BY <1>1, <1>2 DEF Parented

(* Each action keeps Rows. *)
LEMMA RowsStep == Typed /\ Rows /\ [ProtoNext]_protoVars => Rows'
<1> SUFFICES ASSUME Typed, Rows, [ProtoNext]_protoVars PROVE Rows'
  OBVIOUS
<1>1. ASSUME UNCHANGED <<nodes, rows>> PROVE Rows'
  BY <1>1 DEF Rows
<1>2. CASE \E visible, fake \in BOOLEAN : CreateRoot(visible, fake)
  BY <1>2, RootRows DEF CreateRoot
<1>3. CASE \E hf \in Hf : PrimeWithHfid(hf)
  BY <1>1, <1>3 DEF PrimeWithHfid
<1>4. CASE \E p \in Protocols, asks \in BOOLEAN :
              Run(p, asks) \/ \E tree \in DOMAIN nodes : Call(p, tree, asks)
  BY <1>1, <1>4 DEF Run, Call
<1>5. CASE Return \/ DissectorThrows
  BY <1>1, <1>5 DEF Return, DissectorThrows
<1>6. ASSUME NEW hf \in Hf, NEW tree \in {Null} \cup DOMAIN nodes, AddItem(hf, tree)
      PROVE  Rows'
  <2>1. \/ UNCHANGED <<nodes, rows>>
        \/ /\ tree # Null /\ ~TooDeep(tree)
           /\ nodes' = AddNode(tree, hf)
           /\ rows' = Append([rows EXCEPT ![tree] = Append(@, Len(nodes'))], << >>)
    BY <1>6 DEF AddItem
  <2>2. CASE UNCHANGED <<nodes, rows>>
    BY <1>1, <2>2
  <2>3. CASE /\ tree # Null /\ ~TooDeep(tree)
             /\ nodes' = AddNode(tree, hf)
             /\ rows' = Append([rows EXCEPT ![tree] = Append(@, Len(nodes'))], << >>)
    <3>1. tree \in DOMAIN nodes
      BY <2>3
    <3> QED
      BY <2>3, <3>1, NodeRows
  <2> QED
    BY <2>1, <2>2, <2>3
<1>7. CASE \E tree, fixed, item \in DOMAIN nodes : MoveItem(tree, fixed, item)
  BY <1>7, MoveRows
<1>8. CASE ResetTree
  BY <1>8, RootRows DEF ResetTree
<1>9. CASE FreeTree
  <2>1. nodes' = << >> /\ rows' = << >>
    BY <1>9 DEF FreeTree
  <2> QED
    BY <2>1, NoRows DEF Rows
<1>10. CASE UNCHANGED protoVars
  BY <1>1, <1>10 DEF protoVars
<1> QED
  BY <1>2, <1>3, <1>4, <1>5, <1>6, <1>7, <1>8, <1>9, <1>10 DEF ProtoNext

(* Wherever dissectors add items, to real or faked ones, move them and     *)
(* throw, the links that proto.c sets one by one are those of a tree, and  *)
(* no branch is longer than the recursion of its readers allows.           *)
THEOREM LinksStayRight == ProtoSpec => []TreeLinked
<1>1. ProtoInit => IInv /\ Rows
  <2>1. ProtoInit => Rows
    BY NoRows DEF ProtoInit, Rows
  <2> QED
    BY <2>1, InitInv
<1>2. IInv /\ Rows /\ [ProtoNext]_protoVars => IInv' /\ Rows'
  BY NextInv, RowsStep DEF IInv
<1>3. IInv /\ Rows => TreeLinked
  BY RowsLink DEF IInv
<1> QED
  BY <1>1, <1>2, <1>3, PTL DEF ProtoSpec

=============================================================================
