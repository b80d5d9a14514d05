------------------------------- MODULE Tvbuff -------------------------------
(***************************************************************************)
(* Testy virtual buffers: epan/tvbuff.c, tvbuff_real.c, tvbuff_subset.c.  *)
(*                                                                         *)
(* A tvbuff is a window on real data.  Offsets are of type gint, negative  *)
(* ones count from the end, and lengths are of type guint: numbers below   *)
(* Limit and below 2 * Limit, with the conversions between them and the    *)
(* overflows of C.  A tvbuff is freed with the chain it is in.             *)
(***************************************************************************)
EXTENDS Integers, Sequences, SequencesExt

CONSTANTS
  Tvbs,       \* the tvbuffs that may exist at once
  Limit,      \* 2^31 in the code
  Simple,     \* the greatest length of a fast access, 8 in the code
  MaxSize     \* the most bytes of data that a real tvbuff is made of

ASSUME TvbuffAssumption ==
  /\ Limit \in Nat /\ Limit >= 1
  /\ Simple \in 0 .. Limit - 1
  /\ MaxSize \in 0 .. Limit - 1

VARIABLES
  tvb,        \* the tvbuffs: their fields, and history
  chains      \* the chains of next pointers

vars == <<tvb, chains>>

Gint == -Limit .. Limit - 1
Guint == 0 .. 2 * Limit - 1

AsGuint(n) == IF n < 0 THEN n + 2 * Limit ELSE n
AsGint(n) == IF n >= Limit THEN n - 2 * Limit ELSE n
Plus(m, n) == IF m + n < 2 * Limit THEN m + n ELSE m + n - 2 * Limit
Minus(m, n) == AsGuint(m - n)
Least(m, n) == IF m < n THEN m ELSE n

Ok == "ok"

---------------------------------------------------------------------------
(* Checks: what is thrown, or Ok *)

(* Past the end of a tvbuff: which boundary is it past? *)
Beyond(t, n) ==
  IF n <= t.contained THEN "BoundsError"
  ELSE IF n <= t.reported THEN "ContainedBoundsError"
  ELSE IF t.fragment THEN "FragmentBoundsError"
  ELSE "ReportedBoundsError"

(* validate_offset *)
ValidateOffset(t, n) == IF n <= t.length THEN Ok ELSE Beyond(t, n)

(* compute_offset: the exception, and the offset from the beginning. *)
OffsetError(t, offset) == ValidateOffset(t, IF offset < 0 THEN -offset ELSE offset)
Absolute(t, offset) == IF offset < 0 THEN t.length + offset ELSE offset

(* check_offset_length_no_exception; a length of -1 is to the end. *)
AbsoluteLength(t, offset, length) ==
  IF length = -1 THEN t.length - Absolute(t, offset) ELSE length

CheckOffsetLength(t, offset, length) ==
  LET at == Absolute(t, offset)
      end == Plus(at, AbsoluteLength(t, offset, length))
  IN IF OffsetError(t, offset) # Ok THEN OffsetError(t, offset)
     ELSE IF length < -1 \/ end < at THEN "BoundsError"
     ELSE ValidateOffset(t, end)

(* tvb_captured_length_remaining *)
CapturedLengthRemaining(t, offset) ==
  IF OffsetError(t, offset) # Ok THEN 0 ELSE AsGint(t.length - Absolute(t, offset))

(* tvb_ensure_bytes_exist, written out for speed. *)
EnsureBytesExist(t, offset, length) ==
  LET at == Absolute(t, offset)
      end == Plus(at, length)
  IN IF length < 0 THEN "ReportedBoundsError"
     ELSE IF OffsetError(t, offset) # Ok THEN OffsetError(t, offset)
     ELSE IF end < at THEN "BoundsError"
     ELSE ValidateOffset(t, end)

(* fast_ensure_contiguous, for lengths up to Simple: no check for an      *)
(* overflow, and none of the offset alone.                                *)
FastEnsureContiguous(t, offset, length) ==
  IF offset < 0 THEN CheckOffsetLength(t, offset, length)
  ELSE ValidateOffset(t, Plus(offset, length))

---------------------------------------------------------------------------
(* Chains *)

ChainOf(id) == CHOOSE c \in chains : Contains(c, id)
Heads == {Head(c) : c \in chains}

(* Mutant: what was behind the parent is not linked again. *)
Chained_LosesRest(parent, children) ==
  LET c == ChainOf(parent)
  IN SubSeq(c, 1, CHOOSE i \in DOMAIN c : c[i] = parent) \o Reverse(children)

(* tvb_add_to_chain: the child, and what is chained to it, go one after   *)
(* the other right behind the parent.                                     *)
Chained(parent, children) ==
  LET c == ChainOf(parent)
      k == CHOOSE i \in DOMAIN c : c[i] = parent
  IN SubSeq(c, 1, k) \o Reverse(children) \o SubSeq(c, k + 1, Len(c))

AddToChain(parent, child) ==
  chains' = (chains \ {ChainOf(parent)}) \cup {Chained(parent, <<child>>)}

---------------------------------------------------------------------------
(* Making tvbuffs *)

Init == tvb = <<>> /\ chains = {}

Unused == Tvbs \ DOMAIN tvb
With(id, t) == tvb' = [i \in DOMAIN tvb \cup {id} |-> IF i = id THEN t ELSE tvb[i]]

(* tvb_new_real_data of size bytes.  The caller sees to it that no more   *)
(* is captured than reported.  source and start say where the bytes are;  *)
(* foreign is history: it may outlive them.                               *)
RealData(id, size, reported) ==
  [source |-> id, start |-> 0, size |-> size, length |-> size,
   reported |-> AsGuint(reported), contained |-> AsGuint(reported),
   fragment |-> FALSE, foreign |-> FALSE]

NewRealData(id, size, reported) ==
  /\ id \in Unused /\ reported >= -1 /\ size <= AsGuint(reported)
  /\ With(id, RealData(id, size, reported))
  /\ chains' = chains \cup {<<id>>}

(* tvb_new_child_real_data *)
NewChildRealData(parent, id, size, reported) ==
  /\ id \in Unused /\ reported >= -1 /\ size <= AsGuint(reported)
  /\ With(id, RealData(id, size, reported))
  /\ AddToChain(parent, id)

(* tvb_set_child_real_data_tvbuff, with the chain of a tvbuff made before. *)
SetChildRealData(parent, child) ==
  /\ child \in Heads /\ tvb[child].source = child
  /\ ChainOf(parent) # ChainOf(child)
  /\ chains' = (chains \ {ChainOf(parent), ChainOf(child)})
                 \cup {Chained(parent, ChainOf(child))}
  /\ UNCHANGED tvb

(* tvb_new_with_subset *)
WithSubset(backing, reported, offset, length) ==
  [backing EXCEPT !.start = @ + offset, !.length = length, !.reported = reported,
                  !.contained = Least(reported, Minus(@, offset))]

Subset(backing, id, offset, length, reported) ==
  LET b == tvb[backing] IN
  /\ id \in Unused
  /\ CheckOffsetLength(b, offset, length) = Ok
  /\ With(id, WithSubset(b, reported, Absolute(b, offset), AbsoluteLength(b, offset, length)))
  /\ AddToChain(backing, id)

(* tvb_new_subset_length_caplen.  The callers, as those in the repository *)
(* do, ask for no more captured than reported bytes.                      *)
NewSubsetLengthCaplen(backing, id, offset, length, reported) ==
  LET b == tvb[backing]
      actual == IF reported = -1 THEN Minus(b.reported, Absolute(b, offset)) ELSE reported
  IN /\ reported >= -1
     /\ AbsoluteLength(b, offset, length) <= actual
     /\ Subset(backing, id, offset, length, actual)

(* tvb_new_subset_length: the captured length is cut to fit. *)
NewSubsetLength(backing, id, offset, reported) ==
  LET b == tvb[backing]
      actual == IF reported = -1 THEN AsGint(b.reported) ELSE reported
      remaining == CapturedLengthRemaining(b, offset)
  IN /\ reported >= -1 /\ remaining >= 0
     /\ Subset(backing, id, offset, Least(remaining, actual), AsGuint(actual))

(* tvb_new_subset_remaining *)
NewSubsetRemaining(backing, id, offset) ==
  LET b == tvb[backing] IN
  /\ b.reported >= Absolute(b, offset)
  /\ Subset(backing, id, offset, -1, b.reported - Absolute(b, offset))

(* tvb_new_chain: a proxy of backing that is freed with parent. *)
NewChain(parent, backing, id) ==
  LET b == tvb[backing] IN
  /\ id \in Unused
  /\ With(id, [WithSubset(b, b.reported, 0, b.length) EXCEPT
                 !.foreign = @ \/ ChainOf(parent) # ChainOf(backing)])
  /\ AddToChain(parent, id)

(* Mutant: the contained length stays. *)
SetReportedLength_KeepsContained(id, reported) ==
  /\ reported <= tvb[id].reported
  /\ tvb' = [tvb EXCEPT ![id].reported = reported, ![id].length = Least(@, reported)]
  /\ UNCHANGED chains

(* tvb_set_reported_length *)
SetReportedLength(id, reported) ==
  /\ reported <= tvb[id].reported
  /\ tvb' = [tvb EXCEPT ![id].reported = reported, ![id].length = Least(@, reported),
                        ![id].contained = Least(@, reported)]
  /\ UNCHANGED chains

(* tvb_set_fragment *)
SetFragment(id) ==
  /\ tvb' = [tvb EXCEPT ![id].fragment = TRUE]
  /\ UNCHANGED chains

(* tvb_free_chain: "The tvbuff must be the 'head' (initial) tvb of a      *)
(* chain" (tvbuff.h).                                                     *)
FreeChain(head) ==
  /\ head \in Heads
  /\ tvb' = [i \in DOMAIN tvb \ ToSet(ChainOf(head)) |-> tvb[i]]
  /\ chains' = chains \ {ChainOf(head)}

Next ==
  \/ \E id \in Tvbs, size \in 0 .. MaxSize, reported \in Gint :
       \/ NewRealData(id, size, reported)
       \/ \E parent \in DOMAIN tvb : NewChildRealData(parent, id, size, reported)
  \/ \E parent, child \in DOMAIN tvb : SetChildRealData(parent, child)
  \/ \E backing \in DOMAIN tvb, id \in Tvbs, offset \in Gint :
       \/ \E reported \in Gint :
            \/ \E length \in Gint : NewSubsetLengthCaplen(backing, id, offset, length, reported)
            \/ NewSubsetLength(backing, id, offset, reported)
       \/ NewSubsetRemaining(backing, id, offset)
  \/ \E parent, backing \in DOMAIN tvb, id \in Tvbs : NewChain(parent, backing, id)
  \/ \E id \in DOMAIN tvb, reported \in Guint : SetReportedLength(id, reported)
  \/ \E id \in DOMAIN tvb : SetFragment(id) \/ FreeChain(id)

Spec == Init /\ [][Next]_vars

---------------------------------------------------------------------------

(* "This must never be > reported_length or contained_length"             *)
(* (tvbuff-int.h:62, of length), and the contained length never exceeds   *)
(* the reported one: through every window on a window, every cut and      *)
(* every wrap of a length, so that the difference tvb_new_with_subset     *)
(* takes never underflows.                                                *)
LengthsOrdered ==
  \A id \in DOMAIN tvb :
    tvb[id].length <= tvb[id].contained /\ tvb[id].contained <= tvb[id].reported

(* The bytes from at on, length of them, are in the data behind t. *)
InData(t, at, length) == at >= 0 /\ t.start + at + length <= t.size

(* No access that a check lets pass leaves the real data, from whatever   *)
(* offset and of whatever length, through however many windows; and the   *)
(* fast paths, which leave out an overflow or the offset, let pass the    *)
(* same accesses as the general one.                                      *)
AccessesInside ==
  \A id \in DOMAIN tvb, offset \in Gint, length \in Gint :
    LET t == tvb[id]
        passes == CheckOffsetLength(t, offset, length) = Ok
    IN /\ passes => InData(t, Absolute(t, offset), AbsoluteLength(t, offset, length))
       /\ length >= 0 => (EnsureBytesExist(t, offset, length) = Ok <=> passes)
       /\ length \in 0 .. Simple => (FastEnsureContiguous(t, offset, length) = Ok <=> passes)

(* Through any sequence of windows, cuts and proxies lengths stay ordered *)
(* and accesses inside.                                                   *)
WindowsSound == LengthsOrdered /\ AccessesInside

(* A tvbuff is in one chain, and with the data it is a window on, so that *)
(* they are freed together, unless it was put elsewhere by tvb_new_chain. *)
FreedTogether ==
  /\ \A id \in DOMAIN tvb : \E c \in chains :
       /\ Contains(c, id)
       /\ \A d \in chains \ {c} : ~Contains(d, id)
       /\ Contains(c, tvb[id].source) \/ tvb[id].foreign
  /\ \A c \in chains : ToSet(c) \subseteq DOMAIN tvb /\ IsInjective(c)

=============================================================================
