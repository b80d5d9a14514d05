--------------------------- MODULE WmemCoreProofs ---------------------------
(***************************************************************************)
(* Proofs about WmemCore, for any number of slots and allocations and any  *)
(* sizes. In turn: the strict allocator, whose list is what it should be   *)
(* and whose overruns are caught; the simple one and its array; the fast   *)
(* block allocator and its two lists. Each keeps the promise of WmemAlloc  *)
(* and the books. WmemPromiseProofs joins them with the block allocator.   *)
(***************************************************************************)
EXTENDS WmemCore, Sequences, SequencesExt, WellFoundedInduction, FiniteSetTheorems, TLAPS

-----------------------------------------------------------------------------
(***************************************************************************)
(* Slots, blocks and sizes.                                                *)
(***************************************************************************)

(* The slots of the OS lie one after the other.                            *)
LEMMA SlotFacts ==
  /\ \A s \in Strict!Slot :
       /\ Strict!Base(s) \in Nat /\ Strict!Base(s) >= 1
       /\ Strict!Base(s) + SlotSize - 1 <= NumSlots * SlotSize
       /\ Strict!SlotOf(Strict!Base(s)) = s
  /\ \A s, t \in Strict!Slot : s # t =>
       \/ Strict!Base(s) + SlotSize <= Strict!Base(t)
       \/ Strict!Base(t) + SlotSize <= Strict!Base(s)
<1>1. NumSlots \in Nat \ {0} /\ SlotSize \in Nat \ {0}
  BY OsAssumption
<1>2. ASSUME NEW s \in 1 .. NumSlots
      PROVE  /\ Strict!Base(s) \in Nat /\ Strict!Base(s) >= 1
             /\ Strict!Base(s) + SlotSize - 1 <= NumSlots * SlotSize
             /\ Strict!SlotOf(Strict!Base(s)) = s
  <2>1. (s - 1) * SlotSize \in Nat /\ (s - 1) * SlotSize + SlotSize = s * SlotSize
    BY <1>1
  <2>2. s * SlotSize <= NumSlots * SlotSize
    BY <1>1
  <2>3. ((s - 1) * SlotSize) \div SlotSize = s - 1
    BY <1>1
  <2> QED
    BY <1>1, <2>1, <2>2, <2>3 DEF Strict!Base, Strict!SlotOf
<1>3. ASSUME NEW s \in 1 .. NumSlots, NEW t \in 1 .. NumSlots, s < t
      PROVE  Strict!Base(s) + SlotSize <= Strict!Base(t)
  <2>1. (t - 1) * SlotSize = (t - 1 - s) * SlotSize + s * SlotSize
    BY <1>1
  <2>2. (t - 1 - s) * SlotSize >= 0
    BY <1>1, <1>3
  <2>3. (s - 1) * SlotSize + SlotSize = s * SlotSize
    BY <1>1
  <2>4. /\ (t - 1) * SlotSize \in Int /\ (s - 1) * SlotSize \in Int /\ s * SlotSize \in Int
        /\ (t - 1 - s) * SlotSize \in Int
    BY <1>1
  <2> QED
    BY <1>1, <2>1, <2>2, <2>3, <2>4 DEF Strict!Base
<1>4. \A s, t \in 1 .. NumSlots : s # t => s < t \/ t < s
  BY <1>1
<1> QED
  BY <1>2, <1>3, <1>4 DEF Strict!Slot

(* What a block is known by is where its slot begins.                      *)
Blocks == {Strict!Base(s) : s \in Strict!Slot}

LEMMA BlockFacts ==
  /\ \A b \in Blocks :
       /\ b \in Nat /\ b >= 1 /\ \A a \in b .. b + SlotSize - 1 : a \in Strict!Address
       /\ Strict!SlotOf(b) \in Strict!Slot /\ Strict!Base(Strict!SlotOf(b)) = b
       /\ Strict!SlotCells(Strict!SlotOf(b)) = b .. b + SlotSize - 1
  /\ \A b, d \in Blocks : b # d => b + SlotSize <= d \/ d + SlotSize <= b
<1>1. NumSlots \in Nat \ {0} /\ SlotSize \in Nat \ {0}
  BY OsAssumption
<1>2. NumSlots * SlotSize \in Nat
  BY <1>1
<1>3. ASSUME NEW s \in Strict!Slot, NEW b, b = Strict!Base(s)
      PROVE  /\ b \in Nat /\ b >= 1 /\ \A a \in b .. b + SlotSize - 1 : a \in Strict!Address
             /\ Strict!SlotOf(b) = s
             /\ Strict!SlotCells(s) = b .. b + SlotSize - 1
  <2>1. b \in Nat /\ b >= 1 /\ b + SlotSize - 1 <= NumSlots * SlotSize /\ Strict!SlotOf(b) = s
    BY <1>3, SlotFacts
  <2>2. ASSUME NEW a \in b .. b + SlotSize - 1 PROVE a \in Strict!Address
    BY <1>1, <1>2, <2>1 DEF Strict!Address
  <2> QED
    BY <1>3, <2>1, <2>2 DEF Strict!SlotCells
<1> QED
  BY <1>3, SlotFacts DEF Blocks

(* Sizes in units.                                                         *)
LEMMA UnitsFacts ==
  /\ \A m \in Nat : Strict!Units(m) \in Nat
  /\ \A m, n \in Nat : m <= n => Strict!Units(m) <= Strict!Units(n)
  /\ \A size \in Size : size \in Nat /\ Strict!Units(size) <= SlotSize - 3
<1>1. AlignAmount \in Nat \ {0} /\ SlotSize \in Nat \ {0}
  BY OsAssumption
<1>2. \A m \in Nat : Strict!Units(m) \in Nat
  BY <1>1 DEF Strict!Units
<1>3. ASSUME NEW m \in Nat, NEW n \in Nat, m <= n PROVE Strict!Units(m) <= Strict!Units(n)
  BY <1>1, <1>3 DEF Strict!Units
<1>4. ASSUME NEW size \in Size PROVE size \in Nat /\ Strict!Units(size) <= SlotSize - 3
  <2>1. size \in 1 .. (SlotSize - 3) * AlignAmount
    BY CoreAssumption DEF CoreAssumption, Strict!StrictAssumption
  <2> DEFINE q == (size + AlignAmount - 1) \div AlignAmount
             t == SlotSize - 3
  <2>2. t \in Int /\ t * AlignAmount \in Int /\ size \in Nat /\ size <= t * AlignAmount
    BY <1>1, <2>1
  <2>3. q \in Int /\ q * AlignAmount <= size + AlignAmount - 1
    BY <1>1, <2>2
  <2> HIDE DEF q, t
  <2>4. q * AlignAmount < (t + 1) * AlignAmount
    BY <1>1, <2>2, <2>3
  <2>5. q < t + 1
    BY <1>1, <2>2, <2>3, <2>4
  <2> QED
    BY <1>1, <2>2, <2>3, <2>5 DEF q, t, Strict!Units
<1> QED
  BY <1>2, <1>3, <1>4

-----------------------------------------------------------------------------
(***************************************************************************)
(* The list of blocks: what it is, and what each call makes of it.         *)
(***************************************************************************)

Null == Strict!Null
Whole(h, b) == Strict!CanariesWhole(h, b)

(* A sequence c of blocks and what is at its k-th place.                   *)
Chain(c) == c \in Seq(Blocks) /\ \A j, k \in 1 .. Len(c) : c[j] = c[k] => j = k
At(c, k) == IF k \in 1 .. Len(c) THEN c[k] ELSE 0

(* An allocator state, its cells as they are.                              *)
Shaped(h) ==
  /\ h = [mem |-> h.mem, os |-> h.os, blocks |-> h.blocks]
  /\ h.mem = [a \in Strict!Address |-> h.mem[a]]
  /\ h.os \in SUBSET Strict!Slot

(* The list of h is c: the links of its headers, and what the OS gave out. *)
List(h, c) ==
  /\ Shaped(h) /\ Chain(c)
  /\ \A s \in Strict!Slot : s \in h.os <=> \E j \in 1 .. Len(c) : Strict!SlotOf(c[j]) = s
  /\ h.blocks = At(c, 1)
  /\ \A j \in 1 .. Len(c) :
       /\ h.mem[c[j]] = Strict!Header(At(c, j - 1), At(c, j + 1), h.mem[c[j]].data_len)
       /\ h.mem[c[j]].data_len \in Size

(* What the headers of other blocks may become while b is left alone.      *)
Kept(h, h2, b) ==
  /\ h2.mem[b].data_len = h.mem[b].data_len
  /\ h2.mem[b + 1] = h.mem[b + 1]
  /\ h2.mem[b + 2 + Strict!Units(h.mem[b].data_len)] = h.mem[b + 2 + Strict!Units(h.mem[b].data_len)]

(* Its canaries are then as whole as before.                               *)
LEMMA KeptWhole ==
  ASSUME NEW h, NEW h2, NEW b, Kept(h, h2, b) PROVE Whole(h2, b) <=> Whole(h, b)
BY DEF Kept, Whole, Strict!CanariesWhole, Strict!PostCanary

(* The cells of a block that are not its data.                             *)
Books(h, b) == {b, b + 1, b + 2 + Strict!Units(h.mem[b].data_len)}

(* They are in its slot.                                                   *)
LEMMA BooksInside ==
  ASSUME NEW h, NEW b \in Blocks, h.mem[b].data_len \in Size
  PROVE  \A a \in Books(h, b) : a \in b .. b + SlotSize - 1 /\ a \in Strict!Address
<1>1. SlotSize \in Nat \ {0} /\ b \in Nat
  BY OsAssumption, BlockFacts
<1>2. Strict!Units(h.mem[b].data_len) \in Nat /\ Strict!Units(h.mem[b].data_len) <= SlotSize - 3
  BY UnitsFacts
<1>3. ASSUME NEW a \in Books(h, b) PROVE a \in b .. b + SlotSize - 1
  BY <1>1, <1>2 DEF Books
<1> QED
  BY <1>3, BlockFacts

(* No cell of another block's slot is among them.                          *)
LEMMA BooksApart ==
  ASSUME NEW h, NEW b \in Blocks, h.mem[b].data_len \in Size, NEW d \in Blocks, d # b
  PROVE  \A a \in Books(h, b) : a \notin d .. d + SlotSize - 1
<1>1. SlotSize \in Nat \ {0} /\ b \in Nat /\ d \in Nat
  BY OsAssumption, BlockFacts
<1>2. b + SlotSize <= d \/ d + SlotSize <= b
  BY BlockFacts
<1> QED
  BY <1>1, <1>2, BooksInside

(* What freeing a block changes.                                           *)
LEMMA FreeEffect ==
  ASSUME NEW h, Shaped(h), NEW b \in Blocks, NEW p, NEW n,
         h.mem[b].prev = p, h.mem[b].next = n,
         p # n \/ p = 0, p = 0 \/ p \in Blocks \ {b}, n = 0 \/ n \in Blocks \ {b}
  PROVE  LET h2 == Strict!FreeBlock(h, b)
         IN  /\ Shaped(h2)
             /\ h2.os = h.os \ {Strict!SlotOf(b)}
             /\ h2.blocks = IF p = 0 THEN n ELSE h.blocks
             /\ \A a \in Strict!Address :
                  h2.mem[a] = IF a \in b .. b + SlotSize - 1 THEN Strict!Junk
                              ELSE IF n # 0 /\ a = n THEN [h.mem[n] EXCEPT !.prev = p]
                              ELSE IF p # 0 /\ a = p THEN [h.mem[p] EXCEPT !.next = n]
                              ELSE h.mem[a]
<1> DEFINE h1 == IF n = 0 THEN h ELSE [h EXCEPT !.mem[n].prev = p]
           h3 == IF p = 0 THEN [h1 EXCEPT !.blocks = n] ELSE [h1 EXCEPT !.mem[p].next = n]
           h2 == Strict!OsFree(h3, b)
<1>1. Strict!FreeBlock(h, b) = h2
  BY DEF Strict!FreeBlock, Strict!Null
<1>2. \A d \in Blocks : d \in Strict!Address /\ d # 0
  BY BlockFacts, OsAssumption
<1>3. /\ Shaped(h1) /\ h1.os = h.os /\ h1.blocks = h.blocks
      /\ \A a \in Strict!Address :
           h1.mem[a] = IF n # 0 /\ a = n THEN [h.mem[n] EXCEPT !.prev = p] ELSE h.mem[a]
  BY <1>2 DEF Shaped
<1> HIDE DEF h1
<1>4. /\ Shaped(h3) /\ h3.os = h.os /\ h3.blocks = IF p = 0 THEN n ELSE h.blocks
      /\ \A a \in Strict!Address :
           h3.mem[a] = IF p # 0 /\ a = p THEN [h1.mem[p] EXCEPT !.next = n] ELSE h1.mem[a]
  BY <1>2, <1>3 DEF Shaped
<1> HIDE DEF h3
<1>5. Strict!SlotCells(Strict!SlotOf(b)) = b .. b + SlotSize - 1 /\ Strict!SlotOf(b) \in Strict!Slot
  BY BlockFacts
<1>6. /\ Shaped(h2) /\ h2.os = h.os \ {Strict!SlotOf(b)} /\ h2.blocks = h3.blocks
      /\ \A a \in Strict!Address :
           h2.mem[a] = IF a \in b .. b + SlotSize - 1 THEN Strict!Junk ELSE h3.mem[a]
  <2> DEFINE S == Strict!SlotOf(b)
             m == [a \in Strict!Address |->
                     IF a \in b .. b + SlotSize - 1 THEN Strict!Junk ELSE h3.mem[a]]
  <2>1. h2 = [h3 EXCEPT !.os = @ \ {S}, !.mem = m]
    BY <1>5 DEF Strict!OsFree
  <2> HIDE DEF h2, S
  <2>2. h2 = [mem |-> m, os |-> h3.os \ {S}, blocks |-> h3.blocks]
    <3> HIDE DEF m
    <3> QED
      BY <1>4, <2>1 DEF Shaped
  <2>3. h2.mem = m /\ h2.os = h3.os \ {S} /\ h2.blocks = h3.blocks
    <3> HIDE DEF m
    <3> QED
      BY <2>2
  <2>4. Shaped(h2)
    <3>1. m = [a \in Strict!Address |-> m[a]]
      OBVIOUS
    <3>2. h3.os \ {S} \in SUBSET Strict!Slot
      BY <1>4 DEF Shaped
    <3> HIDE DEF m
    <3> QED
      BY <2>2, <2>3, <3>1, <3>2 DEF Shaped
  <2> QED
    BY <1>4, <2>3, <2>4 DEF S
<1> HIDE DEF h2
<1>7. p # 0 => h1.mem[p] = h.mem[p]
  BY <1>2, <1>3
<1> QED
  BY <1>1, <1>3, <1>4, <1>6, <1>7

(* A set of natural numbers has a least member.                            *)
LEMMA Least ==
    ASSUME NEW S \in SUBSET Nat, S # {}
    PROVE  \E n \in S : \A m \in S : n <= m
  <1>1. IsWellFoundedOn(OpToRel(<, Nat), Nat)
    BY NatLessThanWellFounded
  <1>2. PICK n \in S : \A m \in S : <<m, n>> \notin OpToRel(<, Nat)
    BY <1>1, WFMin
  <1>3. ASSUME NEW m \in S PROVE n <= m
    <2>1. n \in Nat /\ m \in Nat /\ ~(m < n)
      BY <1>2 DEF OpToRel
    <2> QED
      BY <2>1
  <1> QED
    BY <1>2, <1>3

(* One sequence after the other.                                           *)
LEMMA Joined ==
  ASSUME NEW T, NEW a \in Seq(T), NEW b \in Seq(T)
  PROVE  /\ a \o b \in Seq(T) /\ Len(a \o b) = Len(a) + Len(b)
         /\ \A i \in 1 .. Len(a) : (a \o b)[i] = a[i]
         /\ \A i \in 1 .. Len(b) : (a \o b)[Len(a) + i] = b[i]
OBVIOUS

(* A sequence without its p-th member.                                     *)
LEMMA RemovedAt ==
  ASSUME NEW T, NEW s \in Seq(T), NEW p \in 1 .. Len(s)
  PROVE  /\ RemoveAt(s, p) \in Seq(T) /\ Len(RemoveAt(s, p)) = Len(s) - 1
         /\ \A i \in 1 .. Len(s) - 1 : RemoveAt(s, p)[i] = s[IF i < p THEN i ELSE i + 1]
<1> DEFINE a == SubSeq(s, 1, p - 1)
           b == SubSeq(s, p + 1, Len(s))
<1>1. a \in Seq(T) /\ Len(a) = p - 1 /\ \A i \in 1 .. p - 1 : a[i] = s[i]
  OBVIOUS
<1>2. b \in Seq(T) /\ Len(b) = Len(s) - p /\ \A i \in 1 .. Len(s) - p : b[i] = s[p + i]
  OBVIOUS
<1> HIDE DEF a, b
<1>3. RemoveAt(s, p) = a \o b
  BY DEF RemoveAt, a, b
<1>4. a \o b \in Seq(T) /\ Len(a \o b) = Len(s) - 1
  <2>1. Len(s) \in Nat /\ p - 1 + (Len(s) - p) = Len(s) - 1
    OBVIOUS
  <2>2. a \in Seq(T) /\ b \in Seq(T)
    BY <1>1, <1>2
  <2>3. Len(a) + Len(b) = Len(s) - 1
    BY <1>1, <1>2, <2>1
  <2> QED
    BY <2>2, <2>3, Joined
<1>5. \A i \in 1 .. Len(s) - 1 : (a \o b)[i] = s[IF i < p THEN i ELSE i + 1]
  <2> TAKE i \in 1 .. Len(s) - 1
  <2>1. CASE i < p
    BY <1>1, <1>2, <2>1
  <2>2. CASE ~(i < p)
    <3>1. i - (p - 1) \in 1 .. Len(s) - p /\ i > Len(a) /\ i <= Len(a) + Len(b)
      BY <1>1, <1>2, <2>2
    <3>2. (a \o b)[i] = b[i - (p - 1)]
      BY <1>1, <1>2, <3>1
    <3>3. p + (i - (p - 1)) = i + 1
      OBVIOUS
    <3> QED
      BY <1>2, <2>2, <3>1, <3>2, <3>3
  <2> QED
    BY <2>1, <2>2
<1> QED
  BY <1>3, <1>4, <1>5

(* What that changes in a list.                                            *)
LEMMA FreeChanges ==
  ASSUME NEW h, NEW c, List(h, c), NEW p \in 1 .. Len(c), NEW b, b = c[p],
         NEW prev, prev = At(c, p - 1), NEW next, next = At(c, p + 1),
         NEW h2, h2 = Strict!FreeBlock(h, b)
  PROVE  /\ Shaped(h2)
         /\ h2.os = h.os \ {Strict!SlotOf(b)}
         /\ h2.blocks = IF prev = 0 THEN next ELSE h.blocks
         /\ \A a \in Strict!Address :
              h2.mem[a] = IF a \in b .. b + SlotSize - 1 THEN Strict!Junk
                          ELSE IF next # 0 /\ a = next THEN [h.mem[next] EXCEPT !.prev = prev]
                          ELSE IF prev # 0 /\ a = prev THEN [h.mem[prev] EXCEPT !.next = next]
                          ELSE h.mem[a]
<1>1. Len(c) \in Nat /\ Shaped(h) /\ b \in Blocks /\ \A j, k \in 1 .. Len(c) : c[j] = c[k] => j = k
  <2>1. Shaped(h) /\ c \in Seq(Blocks) /\ \A j, k \in 1 .. Len(c) : c[j] = c[k] => j = k
    BY DEF List, Chain
  <2> QED
    BY <2>1
<1>2. \A j \in 1 .. Len(c) : c[j] \in Blocks
  BY DEF List, Chain
<1>3. /\ prev = 0 \/ prev \in Blocks \ {b}
      /\ next = 0 \/ next \in Blocks \ {b}
      /\ prev # next \/ prev = 0
  BY <1>1, <1>2 DEF At
<1>4. h.mem[b].prev = prev /\ h.mem[b].next = next
  <2>1. h.mem[b] = Strict!Header(prev, next, h.mem[b].data_len)
    BY DEF List
  <2> QED
    BY <2>1 DEF Strict!Header
<1> QED
  BY <1>1, <1>3, <1>4, FreeEffect

(* What becomes of the list: c without its p-th block.                     *)
Freed(h, c, p, h2, d) ==
  /\ List(h2, d) /\ Len(d) = Len(c) - 1
  /\ \A j \in 1 .. Len(c) : j # p => Kept(h, h2, c[j]) /\ \E k \in 1 .. Len(d) : d[k] = c[j]
  /\ \A k \in 1 .. Len(d) : \E j \in 1 .. Len(c) : j # p /\ d[k] = c[j]

LEMMA FreeList ==
  ASSUME NEW h, NEW c, List(h, c), NEW p \in 1 .. Len(c)
  PROVE  Freed(h, c, p, Strict!FreeBlock(h, c[p]), RemoveAt(c, p))
<1> DEFINE h2 == Strict!FreeBlock(h, c[p])
           d == RemoveAt(c, p)
           b == c[p]
           prev == At(c, p - 1)
           next == At(c, p + 1)
<1>1. c \in Seq(Blocks) /\ Len(c) \in Nat /\ DOMAIN c = 1 .. Len(c) /\ Shaped(h) /\ b \in Blocks
      /\ \A j, k \in 1 .. Len(c) : c[j] = c[k] => j = k
  <2>1. Shaped(h) /\ c \in Seq(Blocks) /\ \A j, k \in 1 .. Len(c) : c[j] = c[k] => j = k
    BY DEF List, Chain
  <2> QED
    BY <2>1
<1>2. d \in Seq(Blocks) /\ Len(d) = Len(c) - 1
      /\ \A i \in 1 .. Len(c) - 1 : d[i] = c[IF i < p THEN i ELSE i + 1]
  BY <1>1, RemovedAt
<1> HIDE DEF d
<1>3. \A j \in 1 .. Len(c) : c[j] \in Blocks /\ c[j] # 0 /\ c[j] \in Nat
  <2> TAKE j \in 1 .. Len(c)
  <2>1. c[j] \in Blocks
    BY <1>1
  <2> QED
    BY <2>1, BlockFacts
<1>4. /\ prev = 0 \/ prev \in Blocks \ {b}
      /\ next = 0 \/ next \in Blocks \ {b}
      /\ prev # next \/ prev = 0
  BY <1>1, <1>3 DEF At
<1> HIDE DEF b, prev, next, h2
<1>5. /\ Shaped(h2)
      /\ h2.os = h.os \ {Strict!SlotOf(b)}
      /\ h2.blocks = IF prev = 0 THEN next ELSE h.blocks
      /\ \A a \in Strict!Address :
           h2.mem[a] = IF a \in b .. b + SlotSize - 1 THEN Strict!Junk
                       ELSE IF next # 0 /\ a = next THEN [h.mem[next] EXCEPT !.prev = prev]
                       ELSE IF prev # 0 /\ a = prev THEN [h.mem[prev] EXCEPT !.next = next]
                       ELSE h.mem[a]
  <2>1. b = c[p] /\ prev = At(c, p - 1) /\ next = At(c, p + 1) /\ h2 = Strict!FreeBlock(h, b)
    BY DEF b, prev, next, h2
  <2> QED
    BY <2>1, FreeChanges
<1> USE DEF b
<1> HIDE DEF h2
<1>6. \A j \in Int : At(d, j) = IF j < p THEN At(c, j) ELSE At(c, j + 1)
  <2> TAKE j \in Int
  <2>1. CASE j \in 1 .. Len(d)
    <3>1. j \in 1 .. Len(c) - 1 /\ (IF j < p THEN j ELSE j + 1) \in 1 .. Len(c)
      BY <1>1, <1>2, <2>1
    <3> QED
      BY <1>2, <2>1, <3>1 DEF At
  <2>2. CASE j \notin 1 .. Len(d)
    <3>1. (IF j < p THEN j ELSE j + 1) \notin 1 .. Len(c)
      BY <1>1, <1>2, <2>2
    <3> QED
      BY <2>2, <3>1 DEF At
  <2> QED
    BY <2>1, <2>2
(* The places of blocks before and after.                                  *)
<1>7. \A k \in 1 .. Len(d) :
         LET j == IF k < p THEN k ELSE k + 1 IN j \in 1 .. Len(c) /\ j # p /\ d[k] = c[j]
  <2> TAKE k \in 1 .. Len(d)
  <2>1. k \in 1 .. Len(c) - 1
    BY <1>2
  <2>2. (IF k < p THEN k ELSE k + 1) \in 1 .. Len(c) /\ (IF k < p THEN k ELSE k + 1) # p
    BY <1>1, <2>1
  <2> QED
    BY <1>2, <2>1, <2>2
<1>8. \A j \in 1 .. Len(c) : j # p =>
         LET k == IF j < p THEN j ELSE j - 1
         IN  k \in 1 .. Len(d) /\ d[k] = c[j]
  <2> SUFFICES ASSUME NEW j \in 1 .. Len(c), j # p
               PROVE  LET k == IF j < p THEN j ELSE j - 1 IN k \in 1 .. Len(d) /\ d[k] = c[j]
    OBVIOUS
  <2> DEFINE k == IF j < p THEN j ELSE j - 1
  <2>1. k \in 1 .. Len(c) - 1 /\ (IF k < p THEN k ELSE k + 1) = j
    BY <1>1
  <2> HIDE DEF k
  <2>2. d[k] = c[j]
    BY <1>2, <2>1
  <2> QED
    BY <1>2, <2>1, <2>2 DEF k
<1>9. Chain(d)
  <2>1. ASSUME NEW i \in 1 .. Len(d), NEW k \in 1 .. Len(d), d[i] = d[k] PROVE i = k
    <3> DEFINE i1 == IF i < p THEN i ELSE i + 1
               k1 == IF k < p THEN k ELSE k + 1
    <3>1. i1 \in 1 .. Len(c) /\ k1 \in 1 .. Len(c) /\ d[i] = c[i1] /\ d[k] = c[k1]
      BY <1>7
    <3>2. i1 = k1
      <4> HIDE DEF i1, k1
      <4> QED
        BY <1>1, <2>1, <3>1
    <3> QED
      BY <3>2
  <2> QED
    BY <1>2, <2>1 DEF Chain
<1>10. \A j \in 1 .. Len(c) : j # p => c[j] # b /\ Kept(h, h2, c[j])
  <2> SUFFICES ASSUME NEW j \in 1 .. Len(c), j # p PROVE c[j] # b /\ Kept(h, h2, c[j])
    OBVIOUS
  <2> DEFINE e == c[j]
  <2>1. e \in Blocks /\ e # b /\ e \in Nat /\ h.mem[e].data_len \in Size
    BY <1>1, <1>3 DEF List
  <2>2. \A a \in Books(h, e) : a \in Strict!Address /\ a \notin b .. b + SlotSize - 1
    BY <1>1, <2>1, BooksInside, BooksApart
  <2>3. \A a \in Books(h, e) : a # e => (next # 0 => a # next) /\ (prev # 0 => a # prev)
    <3> SUFFICES ASSUME NEW a \in Books(h, e), a # e, NEW f \in Blocks PROVE a # f
      BY <1>4
    <3>1. CASE f = e
      BY <3>1
    <3>2. CASE f # e
      <4>1. a \notin f .. f + SlotSize - 1
        BY <2>1, <3>2, BooksApart
      <4> QED
        BY <4>1, BlockFacts, OsAssumption
    <3> QED
      BY <3>1, <3>2
  <2>4. Strict!Units(h.mem[e].data_len) \in Nat
    BY <2>1, UnitsFacts
  <2>5. h2.mem[e].data_len = h.mem[e].data_len
    <3>1. e \in Books(h, e)
      BY DEF Books
    <3>2. e \in Strict!Address /\ e \notin b .. b + SlotSize - 1
      BY <2>2, <3>1
    <3>3. h.mem[e] = Strict!Header(At(c, j - 1), At(c, j + 1), h.mem[e].data_len)
      BY DEF List
    <3> HIDE DEF e
    <3> QED
      BY <1>5, <3>2, <3>3 DEF Strict!Header
  <2>6. \A a \in Books(h, e) : a # e => h2.mem[a] = h.mem[a]
    BY <1>5, <2>2, <2>3
  <2>7. /\ e + 1 \in Books(h, e) /\ e + 1 # e
        /\ e + 2 + Strict!Units(h.mem[e].data_len) \in Books(h, e)
        /\ e + 2 + Strict!Units(h.mem[e].data_len) # e
    BY <2>1, <2>4 DEF Books
  <2> HIDE DEF e
  <2>8. Kept(h, h2, e)
    BY <2>5, <2>6, <2>7 DEF Kept
  <2> QED
    BY <2>1, <2>8 DEF e
<1>11. \A s \in Strict!Slot : s \in h2.os <=> \E k \in 1 .. Len(d) : Strict!SlotOf(d[k]) = s
  <2> TAKE s \in Strict!Slot
  <2>1. \A j \in 1 .. Len(c) : Strict!SlotOf(c[j]) = Strict!SlotOf(b) => j = p
    <3> SUFFICES ASSUME NEW j \in 1 .. Len(c), Strict!SlotOf(c[j]) = Strict!SlotOf(b) PROVE j = p
      OBVIOUS
    <3>1. c[j] = b
      BY <1>1, <1>3, BlockFacts
    <3> QED
      BY <1>1, <3>1
  <2>2. s \in h2.os <=> \E j \in 1 .. Len(c) : j # p /\ Strict!SlotOf(c[j]) = s
    <3>1. s \in h.os <=> \E j \in 1 .. Len(c) : Strict!SlotOf(c[j]) = s
      BY DEF List
    <3> QED
      BY <1>5, <2>1, <3>1
  <2> QED
    BY <1>7, <1>8, <2>2
<1>12. h2.blocks = At(d, 1)
  <2>1. h.blocks = At(c, 1)
    BY DEF List
  <2>2. CASE p = 1
    <3>1. prev = 0
      BY <2>2 DEF prev, At
    <3>2. next = At(c, 2)
      BY <2>2 DEF next
    <3> QED
      BY <1>5, <1>6, <2>2, <3>1, <3>2
  <2>3. CASE p # 1
    <3>1. prev # 0
      BY <1>1, <1>3, <2>3 DEF prev, At
    <3>2. 1 < p
      BY <2>3
    <3> QED
      BY <1>5, <1>6, <2>1, <3>1, <3>2
  <2> QED
    BY <2>2, <2>3
<1>13. ASSUME NEW k \in 1 .. Len(d)
       PROVE  /\ h2.mem[d[k]] = Strict!Header(At(d, k - 1), At(d, k + 1), h2.mem[d[k]].data_len)
              /\ h2.mem[d[k]].data_len \in Size
  <2> DEFINE j == IF k < p THEN k ELSE k + 1
             e == c[j]
  <2>1. j \in 1 .. Len(c) /\ j # p /\ d[k] = e
    BY <1>7
  <2>2. e # b /\ h2.mem[e].data_len = h.mem[e].data_len /\ h.mem[e].data_len \in Size
        /\ h.mem[e] = Strict!Header(At(c, j - 1), At(c, j + 1), h.mem[e].data_len)
    BY <1>10, <2>1 DEF List, Kept
  <2>3. e \in Strict!Address /\ e \notin b .. b + SlotSize - 1
    <3>1. e \in Blocks /\ e \in Books(h, e)
      BY <1>3, <2>1 DEF Books
    <3> QED
      BY <1>1, <2>2, <3>1, BooksInside, BooksApart
  <2>4. next # 0 /\ e = next <=> j = p + 1
    <3> HIDE DEF j
    <3> QED
      BY <1>1, <1>3, <2>1 DEF next, At
  <2>5. prev # 0 /\ e = prev <=> j = p - 1
    <3> HIDE DEF j
    <3> QED
      BY <1>1, <1>3, <2>1 DEF prev, At
  <2>6. At(d, k - 1) = IF j = p + 1 THEN prev ELSE At(c, j - 1)
    <3>1. At(d, k - 1) = IF k - 1 < p THEN At(c, k - 1) ELSE At(c, k)
      BY <1>6
    <3> QED
      BY <3>1 DEF prev
  <2>7. At(d, k + 1) = IF j = p - 1 THEN next ELSE At(c, j + 1)
    <3>1. At(d, k + 1) = IF k + 1 < p THEN At(c, k + 1) ELSE At(c, k + 2)
      BY <1>6
    <3> QED
      BY <3>1 DEF next
  <2> HIDE DEF e, j
  <2>8. h2.mem[e] = Strict!Header(At(d, k - 1), At(d, k + 1), h.mem[e].data_len)
    <3>1. CASE j = p + 1
      <4>1. h2.mem[e] = [h.mem[e] EXCEPT !.prev = prev]
        BY <1>5, <2>3, <2>4, <3>1
      <4>2. j # p - 1
        BY <3>1
      <4> QED
        BY <2>2, <2>6, <2>7, <3>1, <4>1, <4>2 DEF Strict!Header
    <3>2. CASE j = p - 1
      <4>1. j # p + 1
        BY <3>2
      <4>2. h2.mem[e] = [h.mem[e] EXCEPT !.next = next]
        BY <1>5, <2>3, <2>4, <2>5, <3>2, <4>1
      <4> QED
        BY <2>2, <2>6, <2>7, <3>2, <4>1, <4>2 DEF Strict!Header
    <3>3. CASE j # p + 1 /\ j # p - 1
      <4>1. h2.mem[e] = h.mem[e]
        BY <1>5, <2>3, <2>4, <2>5, <3>3
      <4> QED
        BY <2>2, <2>6, <2>7, <3>3, <4>1
    <3> QED
      BY <3>1, <3>2, <3>3
  <2> QED
    BY <2>1, <2>2, <2>8
<1>14. List(h2, d)
  BY <1>5, <1>9, <1>11, <1>12, <1>13 DEF List
<1> QED
  <2>1. Freed(h, c, p, h2, d)
    BY <1>2, <1>7, <1>8, <1>10, <1>14 DEF Freed
  <2> QED
    BY <2>1 DEF h2, d

(* The list's head, which free_all frees.                                  *)
LEMMA FreeFirst ==
  ASSUME NEW h, NEW c, List(h, c), 1 \in 1 .. Len(c)
  PROVE  LET h2 == Strict!FreeBlock(h, c[1])
             d == RemoveAt(c, 1)
         IN  /\ List(h2, d) /\ Len(d) = Len(c) - 1
             /\ \A j \in 1 .. Len(c) : j # 1 => Kept(h, h2, c[j]) /\ \E k \in 1 .. Len(d) : d[k] = c[j]
             /\ \A k \in 1 .. Len(d) : \E j \in 1 .. Len(c) : j # 1 /\ d[k] = c[j]
<1>1. Freed(h, c, 1, Strict!FreeBlock(h, c[1]), RemoveAt(c, 1))
  BY FreeList
<1> QED
  BY <1>1 DEF Freed

(* The OS has a slot for each block of a chain.                            *)
LEMMA ChainFits == ASSUME NEW c, Chain(c) PROVE Len(c) \in Nat /\ Len(c) <= NumSlots
<1> DEFINE f == [j \in 1 .. Len(c) |-> Strict!SlotOf(c[j])]
<1>1. Len(c) \in Nat /\ NumSlots \in Nat /\ c \in Seq(Blocks)
  BY OsAssumption DEF Chain
<1>2. \A j \in 1 .. Len(c) : c[j] \in Blocks
  BY <1>1
<1>3. f \in [1 .. Len(c) -> 1 .. NumSlots]
  BY <1>2, BlockFacts DEF Strict!Slot
<1>4. \A j, k \in 1 .. Len(c) : f[j] = f[k] => j = k
  <2> SUFFICES ASSUME NEW j \in 1 .. Len(c), NEW k \in 1 .. Len(c), f[j] = f[k] PROVE j = k
    OBVIOUS
  <2>1. c[j] = c[k]
    BY <1>2, BlockFacts
  <2> QED
    BY <2>1 DEF Chain
<1> HIDE DEF f
<1>5. f \in Injection(1 .. Len(c), 1 .. NumSlots)
  BY <1>3, <1>4 DEF Injection, IsInjective
<1>6. IsFiniteSet(1 .. NumSlots) /\ Cardinality(1 .. NumSlots) = NumSlots
      /\ Cardinality(1 .. Len(c)) = Len(c)
  <2>1. \A n \in Nat : IsFiniteSet(1 .. n) /\ Cardinality(1 .. n) = n
    BY FS_Interval
  <2> QED
    BY <1>1, <2>1
<1>7. Cardinality(1 .. Len(c)) <= Cardinality(1 .. NumSlots)
  BY <1>5, <1>6, FS_Injection
<1> QED
  BY <1>1, <1>6, <1>7

(* Memory m links the chain c, which begins at first. A walk from there    *)
(* along next sees its blocks.                                             *)
In(c) == {c[j] : j \in 1 .. Len(c)}
Linked(m, first, c) ==
  /\ Chain(c) /\ first = At(c, 1)
  /\ \A j \in 1 .. Len(c) : m[c[j]].next = At(c, j + 1)
Walked(m, first) ==
  LET visit[k \in 0 .. NumSlots] ==
        IF k = 0 THEN [seen |-> {}, at |-> first]
        ELSE LET w == visit[k - 1]
             IN  IF w.at \in w.seen \cup {0} THEN w
                 ELSE [seen |-> w.seen \cup {w.at}, at |-> m[w.at].next]
  IN  visit[NumSlots].seen

LEMMA WalkedIs ==
  ASSUME NEW m, NEW first, NEW c, Linked(m, first, c)
  PROVE  Walked(m, first) = In(c)
<1> DEFINE Step(w) == IF w.at \in w.seen \cup {0} THEN w
                      ELSE [seen |-> w.seen \cup {w.at}, at |-> m[w.at].next]
           P(g) == g = [k \in 0 .. NumSlots |->
                          IF k = 0 THEN [seen |-> {}, at |-> first] ELSE Step(g[k - 1])]
           visit == CHOOSE g : P(g)
           Seen(k) == {c[j] : j \in {i \in 1 .. Len(c) : i <= k}}
           f == [k \in 0 .. NumSlots |-> [seen |-> Seen(k), at |-> At(c, k + 1)]]
<1>1. Len(c) \in Nat /\ Len(c) <= NumSlots /\ NumSlots \in Nat
  BY ChainFits, OsAssumption DEF Linked
<1>2. \A j \in 1 .. Len(c) : c[j] # 0 /\ m[c[j]].next = At(c, j + 1)
  <2>1. \A j \in 1 .. Len(c) : c[j] \in Blocks
    BY DEF Linked, Chain
  <2> QED
    BY <2>1, BlockFacts DEF Linked
<1>3. \A j, k \in 1 .. Len(c) : c[j] = c[k] => j = k
  BY DEF Linked, Chain
<1>4. ASSUME NEW k \in 1 .. NumSlots PROVE f[k] = Step(f[k - 1])
  <2>1. /\ f[k] = [seen |-> Seen(k), at |-> At(c, k + 1)]
        /\ f[k - 1] = [seen |-> Seen(k - 1), at |-> At(c, k)]
    <3>1. k \in 0 .. NumSlots /\ k - 1 \in 0 .. NumSlots /\ k - 1 + 1 = k
      BY <1>1
    <3> HIDE DEF Seen
    <3> QED
      BY <3>1
  <2>2. CASE k <= Len(c)
    <3>1. k \in 1 .. Len(c) /\ At(c, k) = c[k]
      BY <1>1, <2>2 DEF At
    <3>2. c[k] \notin Seen(k - 1) /\ Seen(k) = Seen(k - 1) \cup {c[k]}
      <4>1. {i \in 1 .. Len(c) : i <= k} = {i \in 1 .. Len(c) : i <= k - 1} \cup {k}
        BY <1>1, <3>1
      <4>2. k \notin {i \in 1 .. Len(c) : i <= k - 1}
        BY <3>1
      <4> QED
        BY <1>3, <3>1, <4>1, <4>2
    <3> HIDE DEF Seen, f
    <3>3. f[k - 1].at = c[k] /\ f[k - 1].seen = Seen(k - 1)
      BY <2>1, <3>1
    <3>4. f[k - 1].at \notin f[k - 1].seen \cup {0}
      BY <1>1, <1>2, <3>1, <3>2, <3>3
    <3>5. Step(f[k - 1]) = [seen |-> Seen(k - 1) \cup {c[k]}, at |-> m[c[k]].next]
      BY <3>3, <3>4
    <3> HIDE DEF Step
    <3> QED
      BY <1>2, <2>1, <3>1, <3>2, <3>5
  <2>3. CASE ~(k <= Len(c))
    <3>1. At(c, k) = 0 /\ At(c, k + 1) = 0
      BY <1>1, <2>3 DEF At
    <3>2. {i \in 1 .. Len(c) : i <= k} = {i \in 1 .. Len(c) : i <= k - 1}
      BY <1>1, <2>3
    <3>3. Seen(k) = Seen(k - 1)
      BY <3>2
    <3> HIDE DEF Seen, f
    <3> QED
      BY <1>1, <2>1, <3>1, <3>3
  <2> QED
    BY <2>2, <2>3
<1>5. f[0] = [seen |-> {}, at |-> first]
  <2>1. Seen(0) = {} /\ 0 \in 0 .. NumSlots /\ first = At(c, 1)
    BY <1>1 DEF Linked
  <2> HIDE DEF Seen
  <2> QED
    BY <2>1
<1>6. P(f)
  <2>1. \A k \in 0 .. NumSlots : k = 0 \/ k \in 1 .. NumSlots
    BY <1>1
  <2>2. f = [k \in 0 .. NumSlots |-> f[k]]
    OBVIOUS
  <2> HIDE DEF f, Step
  <2> QED
    BY <1>4, <1>5, <2>1, <2>2
<1>7. P(visit)
  <2> HIDE DEF P, f
  <2> QED
    BY <1>6, Zenon
<1>8. Walked(m, first) = visit[NumSlots].seen
  BY Zenon DEF Walked
<1> HIDE DEF visit
<1>9. visit[0] = f[0] /\ \A k \in 1 .. NumSlots : visit[k] = Step(visit[k - 1])
  <2> HIDE DEF f, Step
  <2>1. \A k \in 1 .. NumSlots : k \in 0 .. NumSlots /\ k # 0
    BY <1>1
  <2>2. \A k \in 0 .. NumSlots :
          visit[k] = IF k = 0 THEN [seen |-> {}, at |-> first] ELSE Step(visit[k - 1])
    BY <1>7, Zenon
  <2>3. 0 \in 0 .. NumSlots
    BY <1>1
  <2> QED
    BY <1>5, <2>1, <2>2, <2>3
<1> DEFINE Wrong == {k \in 0 .. NumSlots : visit[k] # f[k]}
<1>10. Wrong = {}
  <2> SUFFICES ASSUME Wrong # {} PROVE FALSE
    OBVIOUS
  <2>1. Wrong \in SUBSET Nat
    BY <1>1
  <2> HIDE DEF f, Step
  <2>2. PICK k \in Wrong : \A n \in Wrong : k <= n
    <3> HIDE DEF Wrong
    <3> QED
      BY <2>1, Least
  <2>3. k \in 1 .. NumSlots /\ k - 1 \in 0 .. NumSlots /\ ~(k <= k - 1)
    BY <1>1, <1>9, <2>2
  <2>4. visit[k - 1] = f[k - 1]
    BY <2>2, <2>3
  <2> QED
    BY <1>4, <1>9, <2>2, <2>3, <2>4
<1>11. visit[NumSlots] = f[NumSlots] /\ NumSlots \in 0 .. NumSlots
  <2> HIDE DEF f
  <2> QED
    BY <1>1, <1>10
<1>12. {i \in 1 .. Len(c) : i <= NumSlots} = 1 .. Len(c)
  BY <1>1
<1>13. f[NumSlots].seen = Seen(NumSlots)
  <2> HIDE DEF Seen
  <2> QED
    BY <1>11
<1> QED
  BY <1>8, <1>11, <1>12, <1>13 DEF In

LEMMA BlockListIs ==
  ASSUME NEW h, NEW c, List(h, c)
  PROVE  Strict!BlockList(h) = In(c)
<1>1. Strict!BlockList(h) = Walked(h.mem, h.blocks)
  BY Zenon DEF Strict!BlockList, Strict!Walk, Strict!Null, Walked
<1>2. ASSUME NEW j \in 1 .. Len(c) PROVE h.mem[c[j]].next = At(c, j + 1)
  <2>1. h.mem[c[j]] = Strict!Header(At(c, j - 1), At(c, j + 1), h.mem[c[j]].data_len)
    BY DEF List
  <2> QED
    BY <2>1 DEF Strict!Header
<1>3. Linked(h.mem, h.blocks, c)
  BY <1>2 DEF List, Linked
<1> QED
  BY <1>1, <1>3, WalkedIs

(* The slot that g_malloc takes is a free one.                             *)
LEMMA NewSlotFree ==
  ASSUME NEW h, Strict!FreeSlots(h) # {} PROVE Strict!NewSlot(h) \in Strict!FreeSlots(h)
<1>1. Strict!FreeSlots(h) \in SUBSET Nat
  BY OsAssumption DEF Strict!FreeSlots, Strict!Slot
<1>2. \E s \in Strict!FreeSlots(h) : \A t \in Strict!FreeSlots(h) : s <= t
  BY <1>1, Least
<1> QED
  BY <1>2 DEF Strict!NewSlot

(* Three cells and a field set at once.                                    *)
LEMMA ThreeCells ==
  ASSUME NEW m, NEW os, NEW blocks, NEW a, NEW b, NEW c, NEW x, NEW y, NEW z, NEW d,
         NEW h, h = [mem |-> m, os |-> os, blocks |-> blocks]
  PROVE  [h EXCEPT !.mem[a] = x, !.mem[b] = y, !.mem[c] = z, !.blocks = d]
           = [mem |-> [m EXCEPT ![a] = x, ![b] = y, ![c] = z], os |-> os, blocks |-> d]
<1> DEFINE h1 == [h EXCEPT !.mem[a] = x]
           h2 == [h1 EXCEPT !.mem[b] = y]
           h3 == [h2 EXCEPT !.mem[c] = z]
           h4 == [h3 EXCEPT !.blocks = d]
<1>1. h1 = [mem |-> [m EXCEPT ![a] = x], os |-> os, blocks |-> blocks]
  <2>1. DOMAIN h = {"mem", "os", "blocks"} /\ h.mem = m /\ h.os = os /\ h.blocks = blocks
    OBVIOUS
  <2> QED
    BY <2>1
<1> HIDE DEF h1
<1>2. h2 = [mem |-> [m EXCEPT ![a] = x, ![b] = y], os |-> os, blocks |-> blocks]
  <2>1. /\ DOMAIN h1 = {"mem", "os", "blocks"} /\ h1.mem = [m EXCEPT ![a] = x]
        /\ h1.os = os /\ h1.blocks = blocks
    BY <1>1
  <2> QED
    BY <2>1
<1> HIDE DEF h2
<1>3. h3 = [mem |-> [m EXCEPT ![a] = x, ![b] = y, ![c] = z], os |-> os, blocks |-> blocks]
  <2>1. /\ DOMAIN h2 = {"mem", "os", "blocks"} /\ h2.mem = [m EXCEPT ![a] = x, ![b] = y]
        /\ h2.os = os /\ h2.blocks = blocks
    BY <1>2
  <2> QED
    BY <2>1
<1> HIDE DEF h3
<1>4. h4 = [mem |-> [m EXCEPT ![a] = x, ![b] = y, ![c] = z], os |-> os, blocks |-> d]
  <2>1. /\ DOMAIN h4 = {"mem", "os", "blocks"} /\ h4.mem = [m EXCEPT ![a] = x, ![b] = y, ![c] = z]
        /\ h4.os = os /\ h4.blocks = d
    BY <1>3
  <2> QED
    BY <2>1
<1> QED
  BY <1>4 DEF h4, h3, h2, h1

(* What a new block changes.                                               *)
LEMMA AllocEffect ==
  ASSUME NEW h, Shaped(h), NEW s \in Strict!Slot, s = Strict!NewSlot(h), NEW b, b = Strict!Base(s),
         NEW size \in Size, h.blocks = 0 \/ h.blocks \in Blocks
  PROVE  LET h2 == Strict!StrictAlloc(h, size).heap
         IN  /\ Shaped(h2) /\ h2.os = h.os \cup {s} /\ h2.blocks = b
             /\ \A a \in Strict!Address :
                  h2.mem[a] = IF a = b + 1 \/ a = b + 2 + Strict!Units(size) THEN Strict!Canary
                              ELSE IF a = b THEN Strict!Header(0, h.blocks, size)
                              ELSE IF h.blocks # 0 /\ a = h.blocks THEN [h.mem[a] EXCEPT !.prev = b]
                              ELSE h.mem[a]
<1> DEFINE h1 == IF h.blocks = 0 THEN h ELSE [h EXCEPT !.mem[h.blocks].prev = b]
           u == b + 2 + Strict!Units(size)
           m == [a \in Strict!Address |->
                   IF a = b + 1 \/ a = u THEN Strict!Canary
                   ELSE IF a = b THEN Strict!Header(0, h.blocks, size) ELSE h1.mem[a]]
           h2 == Strict!StrictAlloc(h, size).heap
<1>1. b \in Blocks /\ b \in Nat /\ SlotSize \in Nat \ {0}
  BY BlockFacts, OsAssumption DEF Blocks
<1>2. Strict!Units(size) \in Nat /\ Strict!Units(size) <= SlotSize - 3
  BY UnitsFacts
<1>3. b \in Strict!Address /\ b + 1 \in Strict!Address /\ u \in Strict!Address
  <2>1. b \in b .. b + SlotSize - 1 /\ b + 1 \in b .. b + SlotSize - 1 /\ u \in b .. b + SlotSize - 1
    BY <1>1, <1>2
  <2> QED
    BY <1>1, <2>1, BlockFacts
<1>4. h.blocks # 0 => h.blocks \in Strict!Address
  <2>1. \A d \in Blocks : d \in d .. d + SlotSize - 1
    BY <1>1, BlockFacts
  <2> QED
    BY <2>1, BlockFacts
<1>5. /\ h1 = [mem |-> h1.mem, os |-> h.os, blocks |-> h.blocks]
      /\ h1.mem = [a \in Strict!Address |-> h1.mem[a]]
      /\ h.blocks # 0 => h1.mem[h.blocks] = [h.mem[h.blocks] EXCEPT !.prev = b]
      /\ \A a \in Strict!Address : (h.blocks # 0 => a # h.blocks) => h1.mem[a] = h.mem[a]
  BY <1>4 DEF Shaped
<1> HIDE DEF u
<1>6. h2 = [Strict!OsTake(h1, s) EXCEPT !.mem[b] = Strict!Header(0, h.blocks, size),
                                       !.mem[b + 1] = Strict!Canary,
                                       !.mem[u] = Strict!Canary,
                                       !.blocks = b]
  BY DEF Strict!StrictAlloc, Strict!Null, u
<1> HIDE DEF h1, h2
<1>7. Strict!OsTake(h1, s) = [mem |-> h1.mem, os |-> h.os \cup {s}, blocks |-> h.blocks]
  BY <1>5 DEF Strict!OsTake
<1>8. h2 = [mem |-> m, os |-> h.os \cup {s}, blocks |-> b]
  <2> DEFINE m3 == [h1.mem EXCEPT ![b] = Strict!Header(0, h.blocks, size),
                                  ![b + 1] = Strict!Canary, ![u] = Strict!Canary]
  <2>1. h2 = [mem |-> m3, os |-> h.os \cup {s}, blocks |-> b]
    <3> DEFINE r == Strict!OsTake(h1, s)
               x == Strict!Header(0, h.blocks, size)
               b1 == b + 1
               os == h.os \cup {s}
    <3>1. h2 = [r EXCEPT !.mem[b] = x, !.mem[b1] = Strict!Canary, !.mem[u] = Strict!Canary,
                         !.blocks = b]
      BY <1>6
    <3>2. r = [mem |-> h1.mem, os |-> os, blocks |-> h.blocks]
      BY <1>7
    <3> HIDE DEF r, x, b1, os
    <3>3. h2 = [mem |-> [h1.mem EXCEPT ![b] = x, ![b1] = Strict!Canary, ![u] = Strict!Canary],
                os |-> os, blocks |-> b]
      BY <3>1, <3>2, ThreeCells
    <3> QED
      BY <3>3 DEF x, b1, os
  <2>2. b # b + 1
    BY <1>1
  <2>3. b # u
    BY <1>1, <1>2 DEF u
  <2>4. m3 = m
    BY <1>3, <1>5, <2>2, <2>3
  <2> HIDE DEF m, m3
  <2> QED
    BY <2>1, <2>4
<1>9. h2.mem = m /\ h2.os = h.os \cup {s} /\ h2.blocks = b
  <2> HIDE DEF m
  <2> QED
    BY <1>8
<1>10. Shaped(h2)
  <2>1. m = [a \in Strict!Address |-> m[a]]
    OBVIOUS
  <2>2. h.os \cup {s} \in SUBSET Strict!Slot
    BY DEF Shaped
  <2> HIDE DEF m
  <2> QED
    BY <1>8, <1>9, <2>1, <2>2 DEF Shaped
<1>11. ASSUME NEW a \in Strict!Address
       PROVE  m[a] = IF a = b + 1 \/ a = u THEN Strict!Canary
                     ELSE IF a = b THEN Strict!Header(0, h.blocks, size)
                     ELSE IF h.blocks # 0 /\ a = h.blocks THEN [h.mem[a] EXCEPT !.prev = b]
                     ELSE h.mem[a]
  BY <1>5
<1> HIDE DEF m
<1> QED
  BY <1>9, <1>10, <1>11 DEF h2, u

(* The new block is the first of the list.                                 *)
LEMMA AllocList ==
  ASSUME NEW h, NEW c, List(h, c), Strict!FreeSlots(h) # {}, NEW size \in Size,
         NEW b, b = Strict!Base(Strict!NewSlot(h)), NEW h2, h2 = Strict!StrictAlloc(h, size).heap
  PROVE  /\ b \in Blocks /\ \A j \in 1 .. Len(c) : c[j] # b /\ Kept(h, h2, c[j])
         /\ List(h2, <<b>> \o c) /\ Len(<<b>> \o c) = Len(c) + 1
         /\ (<<b>> \o c)[1] = b /\ \A j \in 1 .. Len(c) : (<<b>> \o c)[j + 1] = c[j]
         /\ h2.mem[b].data_len = size /\ Whole(h2, b)
<1> DEFINE s == Strict!NewSlot(h)
           d == <<b>> \o c
           head == h.blocks
<1>1. s \in Strict!Slot /\ s \notin h.os /\ b \in Blocks /\ b \in Nat /\ b # 0
  <2>1. s \in Strict!Slot /\ s \notin h.os
    BY NewSlotFree DEF Strict!FreeSlots
  <2> QED
    BY <2>1, BlockFacts DEF Blocks
<1>2. Shaped(h) /\ c \in Seq(Blocks) /\ Len(c) \in Nat /\ head = At(c, 1)
  BY DEF List, Chain
<1>3. \A j \in 1 .. Len(c) : c[j] \in Blocks /\ c[j] # 0 /\ c[j] # b
  <2> SUFFICES ASSUME NEW j \in 1 .. Len(c) PROVE c[j] \in Blocks /\ c[j] # 0 /\ c[j] # b
    OBVIOUS
  <2>1. c[j] \in Blocks
    BY <1>2
  <2>2. Strict!SlotOf(c[j]) \in h.os
    BY <2>1, BlockFacts DEF List
  <2>3. Strict!SlotOf(b) = s
    BY <1>1, SlotFacts
  <2> QED
    BY <1>1, <2>1, <2>2, <2>3, BlockFacts
<1>4. head = 0 \/ head \in Blocks
  BY <1>2, <1>3 DEF At
<1>5. /\ Shaped(h2) /\ h2.os = h.os \cup {s} /\ h2.blocks = b
      /\ \A a \in Strict!Address :
           h2.mem[a] = IF a = b + 1 \/ a = b + 2 + Strict!Units(size) THEN Strict!Canary
                       ELSE IF a = b THEN Strict!Header(0, head, size)
                       ELSE IF head # 0 /\ a = head THEN [h.mem[a] EXCEPT !.prev = b]
                       ELSE h.mem[a]
  BY <1>1, <1>2, <1>4, AllocEffect
<1>6. /\ d \in Seq(Blocks) /\ Len(d) = Len(c) + 1 /\ d[1] = b
      /\ \A j \in 1 .. Len(c) : d[j + 1] = c[j]
      /\ \A k \in 1 .. Len(d) : k = 1 \/ (k - 1 \in 1 .. Len(c) /\ d[k] = c[k - 1])
  <2>1. <<b>> \in Seq(Blocks) /\ Len(<<b>>) = 1
    BY <1>1
  <2>2. /\ d \in Seq(Blocks) /\ Len(d) = 1 + Len(c)
        /\ \A i \in 1 .. 1 : d[i] = <<b>>[i]
        /\ \A i \in 1 .. Len(c) : d[1 + i] = c[i]
    BY <1>2, <2>1, Joined
  <2> HIDE DEF d
  <2>3. ASSUME NEW j \in 1 .. Len(c) PROVE d[j + 1] = c[j]
    <3>1. j + 1 = 1 + j
      OBVIOUS
    <3> QED
      BY <2>2, <3>1
  <2>4. ASSUME NEW k \in 1 .. Len(d), k # 1 PROVE k - 1 \in 1 .. Len(c) /\ d[k] = c[k - 1]
    <3>1. k - 1 \in 1 .. Len(c) /\ k - 1 + 1 = k
      BY <1>2, <2>2, <2>4
    <3> QED
      BY <2>3, <3>1
  <2>5. Len(d) = Len(c) + 1 /\ d[1] = b
    BY <1>2, <2>2
  <2> QED
    BY <2>2, <2>3, <2>4, <2>5
<1> HIDE DEF d, s, head
<1>7. SlotSize \in Nat \ {0} /\ Strict!Units(size) \in Nat /\ Strict!Units(size) <= SlotSize - 3
  BY UnitsFacts, OsAssumption
<1>8. /\ b \in Strict!Address /\ b + 1 \in Strict!Address /\ b + 2 + Strict!Units(size) \in Strict!Address
  <2>1. b \in b .. b + SlotSize - 1 /\ b + 1 \in b .. b + SlotSize - 1
        /\ b + 2 + Strict!Units(size) \in b .. b + SlotSize - 1
    BY <1>1, <1>7
  <2> QED
    BY <1>1, <2>1, BlockFacts
<1>9. /\ h2.mem[b] = Strict!Header(0, head, size)
      /\ h2.mem[b + 1] = Strict!Canary /\ h2.mem[b + 2 + Strict!Units(size)] = Strict!Canary
  <2>1. b # b + 1 /\ b # b + 2 + Strict!Units(size)
    BY <1>1, <1>7
  <2> QED
    BY <1>5, <1>8, <2>1
<1>10. h2.mem[b].data_len = size /\ Whole(h2, b)
  <2>1. h2.mem[b].data_len = size
    BY <1>9 DEF Strict!Header
  <2> QED
    BY <1>9, <2>1 DEF Whole, Strict!CanariesWhole, Strict!PostCanary
(* The other blocks.                                                       *)
<1>11. ASSUME NEW j \in 1 .. Len(c)
       PROVE  /\ Kept(h, h2, c[j])
              /\ h2.mem[c[j]] = Strict!Header(IF j = 1 THEN b ELSE At(c, j - 1), At(c, j + 1),
                                              h.mem[c[j]].data_len)
  <2> DEFINE e == c[j]
  <2>1. e \in Blocks /\ e # b /\ e \in Nat /\ e # 0 /\ h.mem[e].data_len \in Size
        /\ h.mem[e] = Strict!Header(At(c, j - 1), At(c, j + 1), h.mem[e].data_len)
    BY <1>3, BlockFacts DEF List
  <2>2. head # 0 /\ e = head <=> j = 1
    <3>1. 1 \in 1 .. Len(c) /\ head = c[1]
      BY <1>2 DEF At
    <3>2. \A i, k \in 1 .. Len(c) : c[i] = c[k] => i = k
      BY DEF List, Chain
    <3> HIDE DEF e
    <3> QED
      BY <1>3, <3>1, <3>2 DEF e
  <2> HIDE DEF e
  <2>3. \A a \in Books(h, e) :
           a \in Strict!Address /\ a # b + 1 /\ a # b + 2 + Strict!Units(size) /\ a # b
    <3> TAKE a \in Books(h, e)
    <3>1. a \in Strict!Address /\ a \notin b .. b + SlotSize - 1
      BY <1>1, <2>1, BooksInside, BooksApart
    <3>2. b \in b .. b + SlotSize - 1 /\ b + 1 \in b .. b + SlotSize - 1
          /\ b + 2 + Strict!Units(size) \in b .. b + SlotSize - 1
      BY <1>1, <1>7
    <3> QED
      BY <3>1, <3>2
  <2>4. \A a \in Books(h, e) : a # e => (head # 0 => a # head)
    <3> SUFFICES ASSUME NEW a \in Books(h, e), a # e, NEW f \in Blocks PROVE a # f
      BY <1>4
    <3>1. CASE f = e
      BY <3>1
    <3>2. CASE f # e
      <4>1. a \notin f .. f + SlotSize - 1
        BY <2>1, <3>2, BooksApart
      <4> QED
        BY <4>1, BlockFacts, OsAssumption
    <3> QED
      BY <3>1, <3>2
  <2>5. h2.mem[e] = IF j = 1 THEN [h.mem[e] EXCEPT !.prev = b] ELSE h.mem[e]
    <3>1. e \in Books(h, e)
      BY DEF Books
    <3> QED
      BY <1>5, <2>2, <2>3, <3>1
  <2>6. h2.mem[e] = Strict!Header(IF j = 1 THEN b ELSE At(c, j - 1), At(c, j + 1), h.mem[e].data_len)
    BY <2>1, <2>5 DEF Strict!Header
  <2>7. h2.mem[e].data_len = h.mem[e].data_len
    BY <2>6 DEF Strict!Header
  <2>8. \A a \in Books(h, e) : a # e => h2.mem[a] = h.mem[a]
    BY <1>5, <2>3, <2>4
  <2>9. Strict!Units(h.mem[e].data_len) \in Nat
    BY <2>1, UnitsFacts
  <2>10. /\ e + 1 \in Books(h, e) /\ e + 1 # e
         /\ e + 2 + Strict!Units(h.mem[e].data_len) \in Books(h, e)
         /\ e + 2 + Strict!Units(h.mem[e].data_len) # e
    BY <2>1, <2>9 DEF Books
  <2>11. Kept(h, h2, e)
    BY <2>7, <2>8, <2>10 DEF Kept
  <2> QED
    BY <2>6, <2>11 DEF e
<1>12. \A k \in Int : At(d, k) = IF k = 1 THEN b ELSE At(c, k - 1)
  <2> TAKE k \in Int
  <2>1. k \in 1 .. Len(d) <=> k = 1 \/ k - 1 \in 1 .. Len(c)
    BY <1>2, <1>6
  <2> QED
    BY <1>6, <2>1 DEF At
<1>13. Chain(d)
  <2>1. \A i, k \in 1 .. Len(c) : c[i] = c[k] => i = k
    BY DEF List, Chain
  <2>2. ASSUME NEW i \in 1 .. Len(d), NEW k \in 1 .. Len(d), d[i] = d[k] PROVE i = k
    <3>1. i - 1 = k - 1 => i = k
      OBVIOUS
    <3> QED
      BY <1>3, <1>6, <2>1, <2>2, <3>1, SMTT(30)
  <2> QED
    BY <1>6, <2>2 DEF Chain
<1>14. \A t \in Strict!Slot : t \in h2.os <=> \E k \in 1 .. Len(d) : Strict!SlotOf(d[k]) = t
  <2> TAKE t \in Strict!Slot
  <2>1. t \in h.os <=> \E j \in 1 .. Len(c) : Strict!SlotOf(c[j]) = t
    BY DEF List
  <2>2. Strict!SlotOf(b) = s
    BY <1>1, SlotFacts DEF s
  <2>3. 1 \in 1 .. Len(d) /\ \A j \in 1 .. Len(c) : j + 1 \in 1 .. Len(d)
    BY <1>2, <1>6
  <2> QED
    BY <1>5, <1>6, <2>1, <2>2, <2>3
<1>15. ASSUME NEW k \in 1 .. Len(d)
       PROVE  /\ h2.mem[d[k]] = Strict!Header(At(d, k - 1), At(d, k + 1), h2.mem[d[k]].data_len)
              /\ h2.mem[d[k]].data_len \in Size
  <2>1. CASE k = 1
    <3>1. At(d, k - 1) = 0 /\ At(d, k + 1) = head
      <4>1. At(d, 0) = 0
        BY DEF At
      <4>2. At(d, 2) = At(c, 1)
        BY <1>12
      <4> QED
        BY <1>2, <2>1, <4>1, <4>2
    <3> QED
      BY <1>6, <1>9, <1>10, <2>1, <3>1
  <2>2. CASE k # 1
    <3> DEFINE j == k - 1
    <3>1. j \in 1 .. Len(c) /\ d[k] = c[j]
      BY <1>6, <2>2
    <3>2. At(d, k - 1) = IF j = 1 THEN b ELSE At(c, j - 1)
      BY <1>12
    <3>3. At(d, k + 1) = At(c, j + 1)
      <4>1. At(d, k + 1) = At(c, k) /\ j + 1 = k
        BY <1>12, <2>2
      <4> QED
        BY <4>1
    <3> HIDE DEF j
    <3>4. h2.mem[c[j]].data_len = h.mem[c[j]].data_len /\ h.mem[c[j]].data_len \in Size
      BY <1>11, <3>1 DEF Kept, List
    <3> QED
      BY <1>11, <3>1, <3>2, <3>3, <3>4
  <2> QED
    BY <2>1, <2>2
<1>16. List(h2, d)
  <2>1. At(d, 1) = b
    BY <1>12
  <2> QED
    BY <1>5, <1>13, <1>14, <1>15, <2>1 DEF List
<1> QED
  BY <1>1, <1>3, <1>6, <1>10, <1>11, <1>16 DEF d

(* A list is left as it is by what leaves its headers and canaries alone.  *)
LEMMA SameList ==
  ASSUME NEW h, NEW c, List(h, c), NEW h2,
         h2 = [mem |-> h2.mem, os |-> h.os, blocks |-> h.blocks],
         h2.mem = [a \in Strict!Address |-> h2.mem[a]],
         \A j \in 1 .. Len(c) : \A a \in Books(h, c[j]) : h2.mem[a] = h.mem[a]
  PROVE  List(h2, c) /\ \A j \in 1 .. Len(c) : Kept(h, h2, c[j])
<1>1. h2.os = h.os /\ h2.blocks = h.blocks
  OBVIOUS
<1>2. Shaped(h2)
  BY <1>1 DEF List, Shaped
<1>3. \A j \in 1 .. Len(c) : h2.mem[c[j]] = h.mem[c[j]] /\ Kept(h, h2, c[j])
  BY DEF Books, Kept
<1> QED
  BY <1>1, <1>2, <1>3 DEF List

(* The data of one block is not in the books of any.                       *)
LEMMA DataApart ==
  ASSUME NEW h, NEW c, List(h, c), NEW k \in 1 .. Len(c), NEW j \in 1 .. Len(c),
         NEW a \in c[k] + 2 .. c[k] + 2 + Strict!Units(h.mem[c[k]].data_len) - 1
  PROVE  a \notin Books(h, c[j])
<1> DEFINE b == c[k]
           d == c[j]
<1>1. b \in Blocks /\ d \in Blocks /\ h.mem[b].data_len \in Size /\ h.mem[d].data_len \in Size
  <2>1. \A i \in 1 .. Len(c) : c[i] \in Blocks /\ h.mem[c[i]].data_len \in Size
    BY DEF List, Chain
  <2> QED
    BY <2>1
<1> HIDE DEF b, d
<1>2. b \in Nat /\ d \in Nat /\ SlotSize \in Nat \ {0}
  BY <1>1, BlockFacts, OsAssumption
<1>3. /\ Strict!Units(h.mem[b].data_len) \in Nat /\ Strict!Units(h.mem[b].data_len) <= SlotSize - 3
      /\ Strict!Units(h.mem[d].data_len) \in Nat
  BY <1>1, UnitsFacts
<1>4. a \in b + 2 .. b + 2 + Strict!Units(h.mem[b].data_len) - 1
  BY DEF b
<1>5. CASE b = d
  BY <1>2, <1>3, <1>4, <1>5, SMTT(30) DEF Books, d
<1>6. CASE b # d
  <2>1. a \in b .. b + SlotSize - 1
    BY <1>2, <1>3, <1>4
  <2>2. \A e \in Books(h, d) : e \notin b .. b + SlotSize - 1
    BY <1>1, <1>6, BooksApart
  <2> QED
    BY <2>1, <2>2 DEF d
<1> QED
  BY <1>5, <1>6

(* The user writes to an allocation.                                       *)
LEMMA WriteList ==
  ASSUME NEW h, NEW c, List(h, c), NEW k \in 1 .. Len(c), NEW i, NEW r, NEW first,
         r.ptr = c[k] + 2, r.size = h.mem[c[k]].data_len,
         NEW h2, h2 = Strict!Write(h, i, r, first)
  PROVE  List(h2, c) /\ \A j \in 1 .. Len(c) : Kept(h, h2, c[j])
<1> DEFINE m == [a \in Strict!Address |->
                   IF a \in Strict!CellsOf(r) /\ a >= r.ptr + first THEN Strict!Data(i) ELSE h.mem[a]]
<1>1. Shaped(h)
  BY DEF List
<1>2. h2 = [h EXCEPT !.mem = m]
  BY DEF Strict!Write
<1>3. m = [a \in Strict!Address |-> m[a]]
  OBVIOUS
<1>4. ASSUME NEW j \in 1 .. Len(c), NEW a \in Books(h, c[j]) PROVE m[a] = h.mem[a]
  <2>1. a \notin Strict!CellsOf(r)
    BY DataApart DEF Strict!CellsOf
  <2>2. a \in Strict!Address
    <3>1. c[j] \in Blocks /\ h.mem[c[j]].data_len \in Size
      BY DEF List, Chain
    <3> QED
      BY <3>1, BooksInside
  <2> QED
    BY <2>1, <2>2
<1> HIDE DEF m
<1>5. h2.mem = m /\ h2 = [mem |-> m, os |-> h.os, blocks |-> h.blocks]
  <2>1. DOMAIN h = {"mem", "os", "blocks"}
    BY <1>1 DEF Shaped
  <2>2. DOMAIN h2 = {"mem", "os", "blocks"} /\ h2.mem = m /\ h2.os = h.os /\ h2.blocks = h.blocks
    BY <1>2, <2>1
  <2> QED
    BY <1>1, <1>2, <2>2 DEF Shaped
<1> QED
  BY <1>3, <1>4, <1>5, SameList

(* A realloc copies into the data of a block.                              *)
LEMMA CopyList ==
  ASSUME NEW h, NEW c, List(h, c), NEW k \in 1 .. Len(c), NEW from, NEW n \in Nat,
         n <= Strict!Units(h.mem[c[k]].data_len),
         NEW h2, h2 = Strict!CopyUnits(h, c[k] + 2, from, n)
  PROVE  List(h2, c) /\ \A j \in 1 .. Len(c) : Kept(h, h2, c[j])
<1> DEFINE to == c[k] + 2
           m == [a \in Strict!Address |->
                   IF a \in to .. to + n - 1 THEN h.mem[a - to + from] ELSE h.mem[a]]
<1>1. Shaped(h)
  BY DEF List
<1>2. h2 = [h EXCEPT !.mem = m]
  BY DEF Strict!CopyUnits
<1>3. m = [a \in Strict!Address |-> m[a]]
  OBVIOUS
<1>4. ASSUME NEW j \in 1 .. Len(c), NEW a \in Books(h, c[j]) PROVE m[a] = h.mem[a]
  <2>1. c[j] \in Blocks /\ h.mem[c[j]].data_len \in Size /\ c[k] \in Blocks
        /\ h.mem[c[k]].data_len \in Size
    BY DEF List, Chain
  <2>2. a \in Strict!Address
    BY <2>1, BooksInside
  <2>3. a \notin to .. to + n - 1
    <3>1. a \notin to .. to + Strict!Units(h.mem[c[k]].data_len) - 1
      BY DataApart
    <3>2. to \in Int /\ Strict!Units(h.mem[c[k]].data_len) \in Nat
      <4>1. c[k] \in Nat /\ h.mem[c[k]].data_len \in Nat
        BY <2>1, BlockFacts, UnitsFacts
      <4>2. Strict!Units(h.mem[c[k]].data_len) \in Nat
        BY <4>1, UnitsFacts
      <4> QED
        BY <4>1, <4>2
    <3> HIDE DEF to
    <3> QED
      BY <3>1, <3>2
  <2> HIDE DEF to
  <2> QED
    BY <2>2, <2>3
<1> HIDE DEF m
<1>5. h2.mem = m /\ h2 = [mem |-> m, os |-> h.os, blocks |-> h.blocks]
  <2>1. DOMAIN h = {"mem", "os", "blocks"}
    BY <1>1 DEF Shaped
  <2>2. DOMAIN h2 = {"mem", "os", "blocks"} /\ h2.mem = m /\ h2.os = h.os /\ h2.blocks = h.blocks
    BY <1>2, <2>1
  <2> QED
    BY <1>1, <1>2, <2>2 DEF Shaped
<1> QED
  BY <1>3, <1>4, <1>5, SameList

-----------------------------------------------------------------------------
(***************************************************************************)
(* free_all.                                                               *)
(***************************************************************************)

(* A round of free_all's loop, and the loop.                               *)
Round(w) ==
  IF w.asserted \/ w.heap.blocks = Strict!Null THEN w
  ELSE IF Strict!CanariesWhole(w.heap, w.heap.blocks)
       THEN [w EXCEPT !.heap = Strict!FreeBlock(w.heap, w.heap.blocks)]
       ELSE [w EXCEPT !.asserted = TRUE]
Rounds(g, h, n) ==
  g = [k \in 0 .. n |-> IF k = 0 THEN [heap |-> h, asserted |-> FALSE] ELSE Round(g[k - 1])]

(* There is a function with the loop's equation.                           *)
LEMMA RoundsThere == ASSUME NEW h, NEW n \in Nat PROVE \E g : Rounds(g, h, n)
<1> DEFINE Not == {k \in Nat : ~\E g : Rounds(g, h, k)}
           Start == [heap |-> h, asserted |-> FALSE]
<1>1. SUFFICES ASSUME Not # {} PROVE FALSE
  OBVIOUS
<1>2. PICK k \in Not : \A m \in Not : k <= m
  <2>1. Not \in SUBSET Nat
    OBVIOUS
  <2> HIDE DEF Not
  <2> QED
    BY <1>1, <2>1, Least
<1>3. k # 0
  <2> DEFINE g == [i \in 0 .. 0 |-> Start]
  <2>1. g = [i \in 0 .. 0 |-> IF i = 0 THEN Start ELSE Round(g[i - 1])]
    OBVIOUS
  <2>2. Rounds(g, h, 0)
    <3> HIDE DEF g
    <3> QED
      BY <2>1 DEF Rounds
  <2> QED
    BY <1>2, <2>2
<1>4. k \in Nat /\ k - 1 \in Nat /\ ~(k <= k - 1)
  BY <1>2, <1>3
<1>5. PICK g : Rounds(g, h, k - 1)
  BY <1>2, <1>4
<1> DEFINE f == [i \in 0 .. k |-> IF i = k THEN Round(g[k - 1]) ELSE g[i]]
<1>6. \A i \in 0 .. k - 1 : g[i] = IF i = 0 THEN Start ELSE Round(g[i - 1])
  BY <1>5, Zenon DEF Rounds
<1>7. \A i \in 0 .. k : f[i] = IF i = 0 THEN Start ELSE Round(f[i - 1])
  <2> TAKE i \in 0 .. k
  <2>1. CASE i = 0
    <3>1. 0 \in 0 .. k - 1 /\ i # k
      BY <1>4, <2>1
    <3> HIDE DEF Start
    <3> QED
      BY <1>6, <2>1, <3>1
  <2>2. CASE i # 0
    <3>1. i - 1 \in 0 .. k /\ i - 1 # k /\ i - 1 \in 0 .. k - 1
      BY <1>4, <2>2
    <3>2. f[i - 1] = g[i - 1]
      BY <3>1
    <3>3. f[i] = Round(g[i - 1])
      <4>1. i # k => i \in 0 .. k - 1
        BY <1>4
      <4> HIDE DEF Start
      <4> QED
        BY <1>6, <2>2, <4>1
    <3> HIDE DEF f, Start
    <3> QED
      BY <2>2, <3>2, <3>3
  <2> QED
    BY <2>1, <2>2
<1>8. f = [i \in 0 .. k |-> f[i]]
  OBVIOUS
<1> HIDE DEF f
<1>9. Rounds(f, h, k)
  BY <1>7, <1>8 DEF Rounds
<1> QED
  BY <1>2, <1>9

(* After k rounds, unless one has met a broken canary, that many blocks    *)
(* less are there, and no broken one has gone.                             *)
Remains(h2, d, h, c, k) ==
  /\ List(h2, d) /\ (Len(d) = 0 \/ Len(d) <= NumSlots - k)
  /\ \A i \in 1 .. Len(d) : \E j \in 1 .. Len(c) :
       d[i] = c[j] /\ (Whole(h2, d[i]) <=> Whole(h, c[j]))
  /\ \A j \in 1 .. Len(c) : ~Whole(h, c[j]) => \E i \in 1 .. Len(d) : d[i] = c[j]
After(w, h, c, k) ==
  /\ w = [heap |-> w.heap, asserted |-> w.asserted]
  /\ w.asserted \in BOOLEAN
  /\ w.asserted => \E j \in 1 .. Len(c) : ~Whole(h, c[j])
  /\ ~w.asserted => \E d : Remains(w.heap, d, h, c, k)

(* A round keeps that.                                                     *)
LEMMA RoundAfter ==
  ASSUME NEW w, NEW h, NEW c, NEW k \in 1 .. NumSlots, After(w, h, c, k - 1)
  PROVE  After(Round(w), h, c, k)
<1>1. NumSlots \in Nat
  BY OsAssumption
<1>2. CASE w.asserted
  BY <1>2 DEF After, Round
<1>3. CASE ~w.asserted
  <2>1. PICK d : /\ List(w.heap, d) /\ (Len(d) = 0 \/ Len(d) <= NumSlots - (k - 1))
                 /\ \A i \in 1 .. Len(d) : \E j \in 1 .. Len(c) :
                      d[i] = c[j] /\ (Whole(w.heap, d[i]) <=> Whole(h, c[j]))
                 /\ \A j \in 1 .. Len(c) : ~Whole(h, c[j]) => \E i \in 1 .. Len(d) : d[i] = c[j]
    BY <1>3 DEF After, Remains
  <2>2. Len(d) \in Nat /\ w.heap.blocks = At(d, 1) /\ \A i \in 1 .. Len(d) : d[i] # 0
    <3>1. d \in Seq(Blocks) /\ w.heap.blocks = At(d, 1)
      BY <2>1 DEF List, Chain
    <3>2. \A i \in 1 .. Len(d) : d[i] \in Blocks
      BY <3>1
    <3> QED
      BY <3>1, <3>2, BlockFacts
  <2>3. CASE Len(d) = 0
    <3>1. w.heap.blocks = 0
      BY <2>2, <2>3 DEF At
    <3>2. Round(w) = w
      BY <3>1 DEF Round, Strict!Null
    <3> QED
      BY <1>3, <2>1, <2>3, <3>2 DEF After, Remains
  <2>4. CASE Len(d) # 0
    <3> DEFINE b == w.heap.blocks
               h2 == Strict!FreeBlock(w.heap, b)
               e == RemoveAt(d, 1)
    <3>1. 1 \in 1 .. Len(d) /\ b = d[1] /\ b # Strict!Null
      BY <2>2, <2>4 DEF At, Strict!Null
    <3>2. CASE Whole(w.heap, b)
      <4>1. Round(w) = [w EXCEPT !.heap = h2]
        BY <1>3, <3>1, <3>2 DEF Round, Whole
      <4>2. /\ List(h2, e) /\ Len(e) = Len(d) - 1
            /\ \A j \in 1 .. Len(d) : j # 1 => Kept(w.heap, h2, d[j]) /\ \E i \in 1 .. Len(e) : e[i] = d[j]
            /\ \A i \in 1 .. Len(e) : \E j \in 1 .. Len(d) : j # 1 /\ e[i] = d[j]
        <5>1. LET f == Strict!FreeBlock(w.heap, d[1])
              IN  /\ List(f, e) /\ Len(e) = Len(d) - 1
                  /\ \A j \in 1 .. Len(d) : j # 1 => Kept(w.heap, f, d[j]) /\ \E i \in 1 .. Len(e) : e[i] = d[j]
                  /\ \A i \in 1 .. Len(e) : \E j \in 1 .. Len(d) : j # 1 /\ e[i] = d[j]
          BY <2>1, <3>1, FreeFirst
        <5> HIDE DEF e, b
        <5> QED
          BY <3>1, <5>1
      <4> HIDE DEF h2, e, b
      <4>3. Round(w) = [heap |-> h2, asserted |-> FALSE]
        <5>1. w = [heap |-> w.heap, asserted |-> FALSE]
          BY <1>3 DEF After
        <5>2. /\ DOMAIN Round(w) = {"heap", "asserted"} /\ Round(w).heap = h2
              /\ Round(w).asserted = FALSE
          BY <4>1, <5>1
        <5>3. Round(w) = [Round(w) EXCEPT !.heap = h2]
          BY <4>1, <5>1
        <5> QED
          BY <4>1, <5>1, <5>2
      <4>4. Len(e) = 0 \/ Len(e) <= NumSlots - k
        BY <1>1, <2>1, <2>2, <2>4, <4>2
      <4>5. ASSUME NEW i \in 1 .. Len(e)
            PROVE  \E j \in 1 .. Len(c) : e[i] = c[j] /\ (Whole(h2, e[i]) <=> Whole(h, c[j]))
        <5>1. PICK m \in 1 .. Len(d) : m # 1 /\ e[i] = d[m]
          BY <4>2
        <5>2. Whole(h2, d[m]) <=> Whole(w.heap, d[m])
          <6>1. Kept(w.heap, h2, d[m])
            BY <4>2, <5>1
          <6> QED
            BY <6>1, KeptWhole
        <5> QED
          BY <2>1, <5>1, <5>2
      <4>6. ASSUME NEW j \in 1 .. Len(c), ~Whole(h, c[j]) PROVE \E i \in 1 .. Len(e) : e[i] = c[j]
        <5>1. PICK m \in 1 .. Len(d) : d[m] = c[j]
          BY <2>1, <4>6
        <5>2. ~Whole(w.heap, d[m])
          <6>1. PICK n \in 1 .. Len(c) : d[m] = c[n] /\ (Whole(w.heap, d[m]) <=> Whole(h, c[n]))
            BY <2>1
          <6> QED
            BY <4>6, <5>1, <6>1
        <5>3. m # 1
          BY <3>1, <3>2, <5>2
        <5> QED
          BY <4>2, <5>1, <5>3
      <4> HIDE DEF Whole, List
      <4>7. Round(w).heap = h2 /\ Round(w).asserted = FALSE
            /\ Round(w) = [heap |-> Round(w).heap, asserted |-> Round(w).asserted]
        BY <4>3
      <4>8. Remains(h2, e, h, c, k)
        BY <4>2, <4>4, <4>5, <4>6 DEF Remains
      <4> QED
        BY <4>7, <4>8 DEF After
    <3>3. CASE ~Whole(w.heap, b)
      <4>1. Round(w) = [w EXCEPT !.asserted = TRUE]
        BY <1>3, <3>1, <3>3 DEF Round, Whole
      <4>2. Round(w) = [heap |-> w.heap, asserted |-> TRUE]
        <5>1. w = [heap |-> w.heap, asserted |-> FALSE]
          BY <1>3 DEF After
        <5> QED
          BY <4>1, <5>1
      <4>3. \E j \in 1 .. Len(c) : ~Whole(h, c[j])
        BY <2>1, <3>1, <3>3
      <4>4. Round(w).asserted = TRUE
            /\ Round(w) = [heap |-> Round(w).heap, asserted |-> Round(w).asserted]
        BY <4>2
      <4> QED
        BY <4>3, <4>4 DEF After
    <3> QED
      BY <3>2, <3>3
  <2> QED
    BY <2>3, <2>4
<1> QED
  BY <1>2, <1>3

(* wmem_strict_free_all stops at a broken canary, wherever it is, and else *)
(* leaves nothing.                                                         *)
LEMMA FreeAllIs ==
  ASSUME NEW h, NEW c, List(h, c)
  PROVE  LET done == Strict!FreeAllBlocks(h)
         IN  /\ done.asserted \in BOOLEAN
             /\ done.asserted <=> \E j \in 1 .. Len(c) : ~Whole(h, c[j])
             /\ ~done.asserted => List(done.heap, << >>)
<1> DEFINE done == Strict!FreeAllBlocks(h)
           P(g) == g = [k \in 0 .. NumSlots |->
                          IF k = 0 THEN [heap |-> h, asserted |-> FALSE] ELSE Round(g[k - 1])]
           after == CHOOSE g : P(g)
<1>1. NumSlots \in Nat
  BY OsAssumption
<1>2. done = after[NumSlots]
  BY Zenon DEF Strict!FreeAllBlocks, Round
<1>3. P(after)
  <2>1. \E g : P(g)
    BY <1>1, RoundsThere DEF Rounds
  <2> HIDE DEF P
  <2> QED
    BY <2>1, Zenon
<1> HIDE DEF after, done
<1>4. \A k \in 0 .. NumSlots :
         after[k] = IF k = 0 THEN [heap |-> h, asserted |-> FALSE] ELSE Round(after[k - 1])
  BY <1>3, Zenon
<1> DEFINE Not == {k \in 0 .. NumSlots : ~After(after[k], h, c, k)}
<1>5. Not = {}
  <2> SUFFICES ASSUME Not # {} PROVE FALSE
    OBVIOUS
  <2>1. PICK k \in Not : \A m \in Not : k <= m
    <3>1. Not \in SUBSET Nat
      BY <1>1
    <3> HIDE DEF Not
    <3> QED
      BY <3>1, Least
  <2>2. k \in 0 .. NumSlots /\ ~After(after[k], h, c, k)
    BY <2>1
  <2>3. CASE k = 0
    <3>1. after[k] = [heap |-> h, asserted |-> FALSE]
      BY <1>4, <2>2, <2>3
    <3>2. Len(c) <= NumSlots - 0
      <4>1. Len(c) <= NumSlots /\ Len(c) \in Nat
        BY ChainFits DEF List
      <4> QED
        BY <1>1, <4>1
    <3>3. after[k].heap = h /\ after[k].asserted = FALSE
      BY <3>1
    <3> QED
      BY <2>2, <2>3, <3>1, <3>2, <3>3 DEF After, Remains
  <2>4. CASE k # 0
    <3>1. k \in 1 .. NumSlots /\ k - 1 \in 0 .. NumSlots /\ ~(k <= k - 1)
      BY <1>1, <2>2, <2>4
    <3>2. After(after[k - 1], h, c, k - 1)
      BY <2>1, <3>1
    <3>3. after[k] = Round(after[k - 1])
      BY <1>4, <2>2, <2>4
    <3> QED
      BY <2>2, <3>1, <3>2, <3>3, RoundAfter
  <2> QED
    BY <2>3, <2>4
<1>6. After(done, h, c, NumSlots)
  <2>1. NumSlots \in 0 .. NumSlots
    BY <1>1
  <2> QED
    BY <1>2, <1>5, <2>1
<1>7. CASE done.asserted
  BY <1>6, <1>7 DEF After, done
<1>8. CASE ~done.asserted
  <2>1. PICK d : /\ List(done.heap, d) /\ (Len(d) = 0 \/ Len(d) <= NumSlots - NumSlots)
                 /\ \A j \in 1 .. Len(c) : ~Whole(h, c[j]) => \E i \in 1 .. Len(d) : d[i] = c[j]
    BY <1>6, <1>8 DEF After, Remains
  <2>2. d \in Seq(Blocks) /\ Len(d) \in Nat /\ Len(d) = 0
    <3>1. d \in Seq(Blocks)
      BY <2>1 DEF List, Chain
    <3>2. Len(d) \in Nat
      BY <3>1
    <3> QED
      BY <1>1, <2>1, <3>1, <3>2
  <2>3. d = << >>
    BY <2>2
  <2>4. ~\E j \in 1 .. Len(c) : ~Whole(h, c[j])
    BY <2>1, <2>2
  <2>5. done.asserted \in BOOLEAN
    BY <1>6 DEF After
  <2> QED
    BY <1>8, <2>1, <2>3, <2>4, <2>5 DEF done
<1> QED
  BY <1>7, <1>8

-----------------------------------------------------------------------------
(***************************************************************************)
(* The invariant.                                                          *)
(***************************************************************************)

(* The blocks of a list are those of the live allocations, and the broken  *)
(* ones those whose users wrote beside their data.                         *)
Owned(h, lv, c) ==
  /\ \A i \in DOMAIN lv : \E j \in 1 .. Len(c) : /\ lv[i].ptr = c[j] + 2
                                                 /\ lv[i].size = h.mem[c[j]].data_len
  /\ \A j \in 1 .. Len(c) : \E i \in DOMAIN lv : lv[i].ptr = c[j] + 2
  /\ \A i, k \in DOMAIN lv : lv[i].ptr = lv[k].ptr => i = k
Marks(h, lv, over) ==
  /\ over \subseteq DOMAIN lv
  /\ \A i \in DOMAIN lv : i \in over <=> ~Whole(h, lv[i].ptr - 2)

StrictSound(h, lv, over) == \E c : List(h, c) /\ Owned(h, lv, c) /\ Marks(h, lv, over)

StrictInv ==
  OfStrict =>
    /\ created \in BOOLEAN /\ asserted \in BOOLEAN
    /\ asserted => overrun # {}
    /\ StrictSound(heap, live, overrun)
    /\ ~created => heap.os = {}

(* What is in a list.                                                      *)
LEMMA InChain ==
  ASSUME NEW h, NEW c, List(h, c)
  PROVE  /\ \A j \in 1 .. Len(c) : c[j] \in Blocks /\ c[j] \in Nat /\ h.mem[c[j]].data_len \in Size
         /\ \A j, k \in 1 .. Len(c) : c[j] = c[k] => j = k
         /\ Len(c) \in Nat
<1>1. \A j \in 1 .. Len(c) : c[j] \in Blocks /\ h.mem[c[j]].data_len \in Size
  BY DEF List, Chain
<1>2. c \in Seq(Blocks) /\ \A j, k \in 1 .. Len(c) : c[j] = c[k] => j = k
  BY DEF List, Chain
<1> QED
  BY <1>1, <1>2, BlockFacts

(* Left alone twice is left alone.                                         *)
LEMMA KeptTwice ==
  ASSUME NEW h, NEW h1, NEW h2, NEW b, Kept(h, h1, b), Kept(h1, h2, b) PROVE Kept(h, h2, b)
BY DEF Kept

(* From the list c of h to the list e of h2 the block gone has gone and    *)
(* the block new has come, where they are blocks; others are left alone.   *)
Turned(h, c, h2, e, gone, new) ==
  /\ \A j \in 1 .. Len(c) : c[j] # gone => Kept(h, h2, c[j]) /\ \E m \in 1 .. Len(e) : e[m] = c[j]
  /\ \A m \in 1 .. Len(e) : e[m] # new => \E j \in 1 .. Len(c) : e[m] = c[j] /\ c[j] # gone

(* The list after a free.                                                  *)
LEMMA FreeTurned ==
  ASSUME NEW h, NEW c, List(h, c), NEW p \in 1 .. Len(c), \A j \in 1 .. Len(c) : c[j] = c[p] => j = p,
         NEW h2, h2 = Strict!FreeBlock(h, c[p])
  PROVE  \E e : List(h2, e) /\ Turned(h, c, h2, e, c[p], 0)
<1> DEFINE e == RemoveAt(c, p)
<1>1. Freed(h, c, p, h2, e)
  BY FreeList
<1> HIDE DEF e
<1>2. List(h2, e) /\ Turned(h, c, h2, e, c[p], 0)
  BY <1>1 DEF Turned, Freed
<1> QED
  BY <1>1, <1>2

(* An allocation's block, if it has one.                                   *)
Old(lv, i) == IF i \in DOMAIN lv THEN lv[i].ptr - 2 ELSE 0

(* It is a block of the list.                                              *)
LEMMA OldIs ==
  ASSUME NEW h, NEW lv, NEW c, List(h, c), Owned(h, lv, c), NEW i \in DOMAIN lv
  PROVE  \E p \in 1 .. Len(c) : /\ Old(lv, i) = c[p] /\ lv[i].ptr = c[p] + 2
                                /\ lv[i].size = h.mem[c[p]].data_len
                                /\ \A j \in 1 .. Len(c) : c[j] = c[p] => j = p
<1>1. PICK p \in 1 .. Len(c) : lv[i].ptr = c[p] + 2 /\ lv[i].size = h.mem[c[p]].data_len
  BY DEF Owned
<1>2. c[p] \in Nat /\ \A j \in 1 .. Len(c) : c[j] = c[p] => j = p
  BY InChain
<1> QED
  BY <1>1, <1>2 DEF Old

(* One allocation less.                                                    *)
LEMMA Dropped ==
  ASSUME NEW h, NEW lv, NEW over, NEW c, List(h, c), Owned(h, lv, c), Marks(h, lv, over),
         NEW i \in DOMAIN lv, i \notin over, NEW h2, NEW e, List(h2, e),
         Turned(h, c, h2, e, Old(lv, i), 0), NEW lv2, lv2 = Strict!Without(lv, {i})
  PROVE  Owned(h2, lv2, e) /\ Marks(h2, lv2, over)
<1>1. DOMAIN lv2 = DOMAIN lv \ {i} /\ \A k \in DOMAIN lv2 : lv2[k] = lv[k]
  BY DEF Strict!Without
<1>h. /\ \A j \in 1 .. Len(c) : lv[i].ptr # c[j] + 2 =>
            Kept(h, h2, c[j]) /\ \E m \in 1 .. Len(e) : e[m] = c[j]
      /\ \A m \in 1 .. Len(e) : \E j \in 1 .. Len(c) : e[m] = c[j] /\ lv[i].ptr # c[j] + 2
  <2>1. PICK p \in 1 .. Len(c) : Old(lv, i) = c[p] /\ lv[i].ptr = c[p] + 2
    BY OldIs
  <2>2. \A j \in 1 .. Len(c) : c[j] \in Nat /\ (c[j] # c[p] <=> lv[i].ptr # c[j] + 2)
    BY <2>1, InChain
  <2>3. \A m \in 1 .. Len(e) : e[m] # 0
    <3> TAKE m \in 1 .. Len(e)
    <3>1. e[m] \in Blocks
      BY InChain
    <3> QED
      BY <3>1, BlockFacts
  <2> QED
    BY <2>1, <2>2, <2>3 DEF Turned
<1>2. ASSUME NEW k \in DOMAIN lv2
      PROVE  \E m \in 1 .. Len(e) : /\ lv2[k].ptr = e[m] + 2 /\ lv2[k].size = h2.mem[e[m]].data_len
                                    /\ Whole(h2, e[m]) <=> Whole(h, lv[k].ptr - 2)
  <2>1. k \in DOMAIN lv /\ k # i /\ lv2[k] = lv[k]
    BY <1>1
  <2>2. PICK j \in 1 .. Len(c) : lv[k].ptr = c[j] + 2 /\ lv[k].size = h.mem[c[j]].data_len
    BY <2>1 DEF Owned
  <2>3. lv[i].ptr # c[j] + 2
    BY <2>1, <2>2 DEF Owned
  <2>4. PICK m \in 1 .. Len(e) : e[m] = c[j]
    BY <1>h, <2>3
  <2>5. Kept(h, h2, c[j])
    BY <1>h, <2>3
  <2>6. h2.mem[c[j]].data_len = h.mem[c[j]].data_len /\ (Whole(h2, c[j]) <=> Whole(h, c[j]))
    BY <2>5, KeptWhole DEF Kept
  <2>7. lv[k].ptr - 2 = c[j]
    BY <2>2, InChain
  <2> QED
    BY <2>1, <2>2, <2>4, <2>6, <2>7
<1>3. Owned(h2, lv2, e)
  <2>1. ASSUME NEW m \in 1 .. Len(e) PROVE \E k \in DOMAIN lv2 : lv2[k].ptr = e[m] + 2
    <3>1. PICK j \in 1 .. Len(c) : e[m] = c[j] /\ lv[i].ptr # c[j] + 2
      BY <1>h
    <3>2. PICK k \in DOMAIN lv : lv[k].ptr = c[j] + 2
      BY DEF Owned
    <3> QED
      BY <1>1, <3>1, <3>2
  <2>2. \A k, n \in DOMAIN lv2 : lv2[k].ptr = lv2[n].ptr => k = n
    BY <1>1 DEF Owned
  <2> QED
    BY <1>2, <2>1, <2>2 DEF Owned
<1>4. Marks(h2, lv2, over)
  <2>1. ASSUME NEW k \in DOMAIN lv2 PROVE k \in over <=> ~Whole(h2, lv2[k].ptr - 2)
    <3>1. PICK m \in 1 .. Len(e) : lv2[k].ptr = e[m] + 2 /\ (Whole(h2, e[m]) <=> Whole(h, lv[k].ptr - 2))
      BY <1>2
    <3>2. lv2[k].ptr - 2 = e[m]
      BY <3>1, InChain
    <3>3. k \in DOMAIN lv
      BY <1>1
    <3> QED
      BY <3>1, <3>2, <3>3 DEF Marks
  <2> QED
    BY <1>1, <2>1 DEF Marks
<1> QED
  BY <1>3, <1>4

(* One more, or another in its place, in a block that was not there.       *)
LEMMA Given ==
  ASSUME NEW h, NEW lv, NEW over, NEW c, List(h, c), Owned(h, lv, c), Marks(h, lv, over),
         NEW i, i \notin over, NEW b \in Blocks, NEW size, NEW r, r.ptr = b + 2, r.size = size,
         NEW h2, NEW e, List(h2, e), Turned(h, c, h2, e, Old(lv, i), b),
         \A j \in 1 .. Len(c) : c[j] # b,
         h2.mem[b].data_len = size, Whole(h2, b), \E m \in 1 .. Len(e) : e[m] = b,
         NEW lv2, lv2 = Strict!With(lv, i, r)
  PROVE  Owned(h2, lv2, e) /\ Marks(h2, lv2, over)
<1>h. /\ \A j \in 1 .. Len(c) : (i \in DOMAIN lv => lv[i].ptr # c[j] + 2) =>
            Kept(h, h2, c[j]) /\ \E m \in 1 .. Len(e) : e[m] = c[j]
      /\ \A m \in 1 .. Len(e) : e[m] # b =>
            \E j \in 1 .. Len(c) : e[m] = c[j] /\ (i \in DOMAIN lv => lv[i].ptr # c[j] + 2)
  <2>1. \A j \in 1 .. Len(c) : c[j] # Old(lv, i) <=> (i \in DOMAIN lv => lv[i].ptr # c[j] + 2)
    <3>1. CASE i \in DOMAIN lv
      <4>1. PICK p \in 1 .. Len(c) : Old(lv, i) = c[p] /\ lv[i].ptr = c[p] + 2
        BY <3>1, OldIs
      <4> QED
        BY <3>1, <4>1, InChain
    <3>2. CASE i \notin DOMAIN lv
      <4>1. \A j \in 1 .. Len(c) : c[j] \in Blocks
        BY InChain
      <4> QED
        BY <3>2, <4>1, BlockFacts DEF Old
    <3> QED
      BY <3>1, <3>2
  <2> QED
    BY <2>1 DEF Turned
<1>1. /\ DOMAIN lv2 = DOMAIN lv \cup {i} /\ lv2[i] = r
      /\ \A k \in DOMAIN lv2 : k # i => k \in DOMAIN lv /\ lv2[k] = lv[k]
  BY DEF Strict!With
<1>2. ASSUME NEW k \in DOMAIN lv2, k # i
      PROVE  \E m \in 1 .. Len(e) : /\ lv2[k].ptr = e[m] + 2 /\ lv2[k].size = h2.mem[e[m]].data_len
                                    /\ Whole(h2, e[m]) <=> Whole(h, lv[k].ptr - 2)
                                    /\ e[m] # b
  <2>1. k \in DOMAIN lv /\ lv2[k] = lv[k]
    BY <1>1, <1>2
  <2>2. PICK j \in 1 .. Len(c) : lv[k].ptr = c[j] + 2 /\ lv[k].size = h.mem[c[j]].data_len
    BY <2>1 DEF Owned
  <2>3. i \in DOMAIN lv => lv[i].ptr # c[j] + 2
    BY <1>2, <2>1, <2>2 DEF Owned
  <2>4. PICK m \in 1 .. Len(e) : e[m] = c[j]
    BY <1>h, <2>3
  <2>5. Kept(h, h2, c[j])
    BY <1>h, <2>3
  <2>6. h2.mem[c[j]].data_len = h.mem[c[j]].data_len /\ (Whole(h2, c[j]) <=> Whole(h, c[j]))
    BY <2>5, KeptWhole DEF Kept
  <2>7. lv[k].ptr - 2 = c[j]
    BY <2>2, InChain
  <2> QED
    BY <2>1, <2>2, <2>4, <2>6, <2>7
<1>3. b \in Nat /\ r.ptr - 2 = b
  BY BlockFacts
<1>4. \A m \in 1 .. Len(e) : e[m] \in Nat
  BY InChain
<1>5. Owned(h2, lv2, e)
  <2>1. ASSUME NEW m \in 1 .. Len(e) PROVE \E k \in DOMAIN lv2 : lv2[k].ptr = e[m] + 2
    <3>1. CASE e[m] = b
      BY <1>1, <3>1
    <3>2. CASE e[m] # b
      <4>1. PICK j \in 1 .. Len(c) : e[m] = c[j] /\ (i \in DOMAIN lv => lv[i].ptr # c[j] + 2)
        BY <1>h, <3>2
      <4>2. PICK k \in DOMAIN lv : lv[k].ptr = c[j] + 2
        BY DEF Owned
      <4>3. k # i /\ k \in DOMAIN lv2
        BY <1>1, <4>1, <4>2
      <4> QED
        BY <1>1, <4>1, <4>2, <4>3
    <3> QED
      BY <3>1, <3>2
  <2>2. ASSUME NEW k \in DOMAIN lv2, k # i PROVE lv2[k].ptr # lv2[i].ptr
    <3>1. PICK m \in 1 .. Len(e) : lv2[k].ptr = e[m] + 2 /\ e[m] # b
      BY <1>2, <2>2
    <3> QED
      BY <1>1, <1>3, <1>4, <3>1
  <2>3. ASSUME NEW k \in DOMAIN lv2, NEW n \in DOMAIN lv2, k # i, n # i, lv2[k].ptr = lv2[n].ptr
        PROVE  k = n
    BY <1>1, <2>3 DEF Owned
  <2>4. \A k, n \in DOMAIN lv2 : lv2[k].ptr = lv2[n].ptr => k = n
    BY <2>2, <2>3
  <2>5. ASSUME NEW k \in DOMAIN lv2
        PROVE  \E m \in 1 .. Len(e) : lv2[k].ptr = e[m] + 2 /\ lv2[k].size = h2.mem[e[m]].data_len
    <3>1. CASE k = i
      BY <1>1, <3>1
    <3>2. CASE k # i
      BY <1>2, <3>2
    <3> QED
      BY <3>1, <3>2
  <2> QED
    BY <2>1, <2>4, <2>5 DEF Owned
<1>6. Marks(h2, lv2, over)
  <2>1. ASSUME NEW k \in DOMAIN lv2 PROVE k \in over <=> ~Whole(h2, lv2[k].ptr - 2)
    <3>1. CASE k = i
      BY <1>1, <1>3, <3>1
    <3>2. CASE k # i
      <4>1. PICK m \in 1 .. Len(e) : lv2[k].ptr = e[m] + 2 /\ (Whole(h2, e[m]) <=> Whole(h, lv[k].ptr - 2))
        BY <1>2, <3>2
      <4>2. lv2[k].ptr - 2 = e[m]
        BY <1>4, <4>1
      <4>3. k \in DOMAIN lv
        BY <1>1, <3>2
      <4> QED
        BY <4>1, <4>2, <4>3 DEF Marks
    <3> QED
      BY <3>1, <3>2
  <2> QED
    BY <1>1, <2>1 DEF Marks
<1> QED
  BY <1>5, <1>6

(* The list after an alloc.                                                *)
LEMMA AllocTurned ==
  ASSUME NEW h, NEW c, List(h, c), Strict!FreeSlots(h) # {}, NEW size \in Size,
         NEW b, b = Strict!Base(Strict!NewSlot(h)), NEW h2, h2 = Strict!StrictAlloc(h, size).heap
  PROVE  /\ b \in Blocks /\ \A j \in 1 .. Len(c) : c[j] # b
         /\ h2.mem[b].data_len = size /\ Whole(h2, b)
         /\ \E e : /\ List(h2, e) /\ Turned(h, c, h2, e, 0, b)
                   /\ \E k \in 1 .. Len(e) : e[k] = b
<1> DEFINE e == <<b>> \o c
<1>1. /\ b \in Blocks /\ \A j \in 1 .. Len(c) : c[j] # b /\ Kept(h, h2, c[j])
      /\ List(h2, e) /\ Len(e) = Len(c) + 1
      /\ e[1] = b /\ \A j \in 1 .. Len(c) : e[j + 1] = c[j]
      /\ h2.mem[b].data_len = size /\ Whole(h2, b)
  BY AllocList
<1> HIDE DEF e
<1>2. Len(c) \in Nat /\ 1 \in 1 .. Len(e)
  BY <1>1, InChain
<1>3. \A j \in 1 .. Len(c) : Kept(h, h2, c[j]) /\ \E m \in 1 .. Len(e) : e[m] = c[j]
  <2> TAKE j \in 1 .. Len(c)
  <2>1. j + 1 \in 1 .. Len(e) /\ e[j + 1] = c[j]
    BY <1>1, <1>2
  <2> QED
    BY <1>1, <2>1
<1>4. \A m \in 1 .. Len(e) : e[m] # b => \E j \in 1 .. Len(c) : e[m] = c[j]
  <2> SUFFICES ASSUME NEW m \in 1 .. Len(e), e[m] # b PROVE \E j \in 1 .. Len(c) : e[m] = c[j]
    OBVIOUS
  <2>1. m # 1
    BY <1>1
  <2>2. m - 1 \in 1 .. Len(c) /\ (m - 1) + 1 = m
    BY <1>1, <1>2, <2>1
  <2> QED
    BY <1>1, <2>2
<1>5. \A j \in 1 .. Len(c) : c[j] # 0
  <2> TAKE j \in 1 .. Len(c)
  <2>1. c[j] \in Blocks
    BY InChain
  <2> QED
    BY <2>1, BlockFacts
<1>6. Turned(h, c, h2, e, 0, b)
  BY <1>3, <1>4, <1>5 DEF Turned
<1> QED
  BY <1>1, <1>2, <1>6

(* What an action hands out is as the invariant wants it.                  *)
LEMMA AllocKeeps ==
  ASSUME StrictSound(heap, live, overrun), NEW i, NEW size \in Size, Strict!Alloc(i, size)
  PROVE  StrictSound(heap', live', overrun')
<1>1. PICK c : List(heap, c) /\ Owned(heap, live, c) /\ Marks(heap, live, overrun)
  BY DEF StrictSound
<1> DEFINE b == Strict!Base(Strict!NewSlot(heap))
           h1 == Strict!StrictAlloc(heap, size).heap
           r == [ptr |-> b + 2, size |-> size]
           h2 == Strict!Write(h1, i, r, 0)
<1>2. /\ i \notin DOMAIN live /\ Strict!FreeSlots(heap) # {}
      /\ live' = Strict!With(live, i, r) /\ heap' = h2 /\ overrun' = overrun
  <2>1. Strict!StrictAlloc(heap, size).ptr = b + 2
    BY DEF Strict!StrictAlloc
  <2> QED
    BY <2>1 DEF Strict!Alloc, Strict!HandedOut
<1>3. r.ptr = b + 2 /\ r.size = size
  OBVIOUS
<1> HIDE DEF r, b, h1
<1>4. /\ b \in Blocks /\ \A j \in 1 .. Len(c) : c[j] # b
      /\ h1.mem[b].data_len = size /\ Whole(h1, b)
      /\ \E e : /\ List(h1, e) /\ Turned(heap, c, h1, e, 0, b)
                /\ \E k \in 1 .. Len(e) : e[k] = b
  BY <1>1, <1>2, AllocTurned DEF b, h1
<1>5. PICK e : /\ List(h1, e) /\ Turned(heap, c, h1, e, 0, b)
               /\ \E k \in 1 .. Len(e) : e[k] = b
  BY <1>4
<1>6. PICK k \in 1 .. Len(e) : e[k] = b
  BY <1>5
<1> HIDE DEF h2
<1>7. List(h2, e) /\ \A j \in 1 .. Len(e) : Kept(h1, h2, e[j])
  <2>1. r.ptr = e[k] + 2 /\ r.size = h1.mem[e[k]].data_len
    BY <1>3, <1>4, <1>6
  <2> QED
    BY <1>5, <2>1, WriteList DEF h2
<1>8. Turned(heap, c, h2, e, Old(live, i), b)
  <2>1. Old(live, i) = 0
    BY <1>2 DEF Old
  <2>2. ASSUME NEW j \in 1 .. Len(c), c[j] # 0
        PROVE  Kept(heap, h2, c[j]) /\ \E m \in 1 .. Len(e) : e[m] = c[j]
    <3>1. Kept(heap, h1, c[j]) /\ \E m \in 1 .. Len(e) : e[m] = c[j]
      BY <1>5, <2>2 DEF Turned
    <3>2. Kept(h1, h2, c[j])
      BY <1>7, <3>1
    <3> QED
      BY <3>1, <3>2, KeptTwice
  <2> QED
    BY <1>5, <2>1, <2>2 DEF Turned
<1>9. h2.mem[b].data_len = size /\ Whole(h2, b)
  <2>1. Kept(h1, h2, b)
    BY <1>6, <1>7
  <2>2. Whole(h2, b) <=> Whole(h1, b)
    BY <2>1, KeptWhole
  <2> QED
    BY <1>4, <2>1, <2>2 DEF Kept
<1>10. i \notin overrun
  BY <1>1, <1>2 DEF Marks
<1>11. Owned(h2, live', e) /\ Marks(h2, live', overrun)
  <2>1. \A j \in 1 .. Len(c) : c[j] # b
    BY <1>4
  <2>2. b \in Blocks /\ List(h2, e) /\ live' = Strict!With(live, i, r)
    BY <1>2, <1>4, <1>7
  <2>3. \E m \in 1 .. Len(e) : e[m] = b
    BY <1>6
  <2> QED
    BY <1>1, <1>3, <1>8, <1>9, <1>10, <2>1, <2>2, <2>3, Given
<1> QED
  BY <1>2, <1>7, <1>11 DEF StrictSound

(* wmem_strict_free takes one out.                                         *)
LEMMA FreeKeeps ==
  ASSUME StrictSound(heap, live, overrun), NEW i, Strict!Free(i)
  PROVE  StrictSound(heap', live', overrun')
<1>1. PICK c : List(heap, c) /\ Owned(heap, live, c) /\ Marks(heap, live, overrun)
  BY DEF StrictSound
<1>2. i \in DOMAIN live
  BY DEF Strict!Free
<1>3. PICK p \in 1 .. Len(c) : /\ Old(live, i) = c[p]
                               /\ \A j \in 1 .. Len(c) : c[j] = c[p] => j = p
  BY <1>1, <1>2, OldIs
<1>4. /\ live' = Strict!Without(live, {i}) /\ heap' = Strict!FreeBlock(heap, c[p])
      /\ overrun' = overrun /\ Whole(heap, live[i].ptr - 2)
  BY <1>2, <1>3 DEF Strict!Free, Strict!BlockOf, Whole, Old
<1>5. i \notin overrun
  BY <1>1, <1>2, <1>4 DEF Marks
<1>6. PICK e : List(heap', e) /\ Turned(heap, c, heap', e, c[p], 0)
  BY <1>1, <1>3, <1>4, FreeTurned
<1>7. Owned(heap', live', e) /\ Marks(heap', live', overrun)
  BY <1>1, <1>2, <1>3, <1>4, <1>5, <1>6, Dropped
<1> QED
  BY <1>4, <1>6, <1>7 DEF StrictSound

(* No more is copied than the new block holds.                             *)
LEMMA CopiedFits ==
  ASSUME NEW h, NEW b, h.mem[b].data_len \in Size, NEW size \in Size
  PROVE  Strict!Copied(h, b, size) \in Nat /\ Strict!Copied(h, b, size) <= Strict!Units(size)
<1>1. h.mem[b].data_len \in Nat /\ size \in Nat
  BY UnitsFacts
<1>2. PICK n \in Nat : n = (IF h.mem[b].data_len > size THEN size ELSE h.mem[b].data_len) /\ n <= size
  BY <1>1
<1>3. Strict!Copied(h, b, size) = Strict!Units(n)
  BY <1>2 DEF Strict!Copied
<1> QED
  BY <1>1, <1>2, <1>3, UnitsFacts

(* wmem_strict_realloc allocates, copies and frees.                        *)
LEMMA ReallocKeeps ==
  ASSUME StrictSound(heap, live, overrun), NEW i, NEW size \in Size, Strict!Realloc(i, size)
  PROVE  StrictSound(heap', live', overrun')
<1>1. PICK c : List(heap, c) /\ Owned(heap, live, c) /\ Marks(heap, live, overrun)
  BY DEF StrictSound
<1>2. /\ i \in DOMAIN live /\ Strict!FreeSlots(heap) # {} /\ overrun' = overrun
      /\ Whole(heap, live[i].ptr - 2)
  BY DEF Strict!Realloc, Strict!BlockOf, Whole
<1>3. PICK p \in 1 .. Len(c) : /\ Old(live, i) = c[p] /\ live[i].ptr = c[p] + 2
                               /\ \A j \in 1 .. Len(c) : c[j] = c[p] => j = p
  BY <1>1, <1>2, OldIs
<1> DEFINE b == Strict!Base(Strict!NewSlot(heap))
           d == c[p]
           h1 == Strict!StrictAlloc(heap, size).heap
           n == Strict!Copied(heap, d, size)
           h2 == Strict!CopyUnits(h1, b + 2, live[i].ptr, n)
           h3 == Strict!FreeBlock(h2, d)
           r == [ptr |-> b + 2, size |-> size]
           h4 == Strict!Write(h3, i, r, Strict!Units(live[i].size))
<1>4. live' = Strict!With(live, i, r) /\ heap' = h4
  <2>1. Strict!StrictAlloc(heap, size).ptr = b + 2
    BY DEF Strict!StrictAlloc
  <2>2. Strict!BlockOf(live[i].ptr) = d
    BY <1>2, <1>3 DEF Old, Strict!BlockOf
  <2> QED
    BY <2>1, <2>2 DEF Strict!Realloc, Strict!Moved, Strict!HandedOut
<1>5. r.ptr = b + 2 /\ r.size = size
  OBVIOUS
<1>6. d \in Nat /\ d \in Blocks /\ heap.mem[d].data_len \in Size /\ d # 0
  <2>1. c[p] \in Blocks /\ heap.mem[c[p]].data_len \in Size
    BY <1>1, InChain
  <2> QED
    BY <2>1, BlockFacts
<1>7. i \notin overrun
  BY <1>1, <1>2 DEF Marks
<1> HIDE DEF b, d, h1, n, h2, h3, r, h4
<1>8. n \in Nat /\ n <= Strict!Units(size)
  BY <1>6, CopiedFits DEF n
<1>9. /\ b \in Blocks /\ \A j \in 1 .. Len(c) : c[j] # b
      /\ h1.mem[b].data_len = size /\ Whole(h1, b)
      /\ \E e : /\ List(h1, e) /\ Turned(heap, c, h1, e, 0, b)
                /\ \E k \in 1 .. Len(e) : e[k] = b
  BY <1>1, <1>2, AllocTurned DEF b, h1
<1>10. PICK e : /\ List(h1, e) /\ Turned(heap, c, h1, e, 0, b)
                /\ \E k \in 1 .. Len(e) : e[k] = b
  BY <1>9
<1>11. PICK k \in 1 .. Len(e) : e[k] = b
  BY <1>10
<1>12. d # b
  BY <1>9 DEF d
<1>13. List(h2, e) /\ \A j \in 1 .. Len(e) : Kept(h1, h2, e[j])
  <2>1. n <= Strict!Units(h1.mem[e[k]].data_len) /\ h2 = Strict!CopyUnits(h1, e[k] + 2, live[i].ptr, n)
    BY <1>8, <1>9, <1>11 DEF h2
  <2> QED
    BY <1>8, <1>10, <2>1, CopyList
<1>14. PICK f : List(h3, f) /\ Turned(h2, e, h3, f, d, 0)
  <2>1. PICK q \in 1 .. Len(e) : e[q] = d
    BY <1>6, <1>10 DEF Turned, d
  <2>2. \A j \in 1 .. Len(e) : e[j] = e[q] => j = q
    BY <1>10, InChain
  <2>3. h3 = Strict!FreeBlock(h2, e[q])
    BY <2>1 DEF h3
  <2> QED
    BY <1>13, <2>1, <2>2, <2>3, FreeTurned
<1>15. PICK m \in 1 .. Len(f) : f[m] = b
  BY <1>11, <1>12, <1>14 DEF Turned
<1>16. Kept(h1, h3, b)
  <2>1. Kept(h1, h2, b)
    BY <1>11, <1>13
  <2>2. Kept(h2, h3, b)
    BY <1>11, <1>12, <1>14 DEF Turned
  <2> QED
    BY <2>1, <2>2, KeptTwice
<1>17. List(h4, f) /\ \A j \in 1 .. Len(f) : Kept(h3, h4, f[j])
  <2>1. h3.mem[b].data_len = size
    BY <1>9, <1>16 DEF Kept
  <2>2. r.ptr = f[m] + 2 /\ r.size = h3.mem[f[m]].data_len
    BY <1>5, <1>15, <2>1
  <2> QED
    BY <1>14, <2>2, WriteList DEF h4
<1>18. h4.mem[b].data_len = size /\ Whole(h4, b)
  <2>1. Kept(h3, h4, b)
    BY <1>15, <1>17
  <2>2. Kept(h1, h4, b)
    BY <1>16, <2>1, KeptTwice
  <2>3. Whole(h4, b) <=> Whole(h1, b)
    BY <2>2, KeptWhole
  <2> QED
    BY <1>9, <2>2, <2>3 DEF Kept
<1>19. Turned(heap, c, h4, f, Old(live, i), b)
  <2>1. Old(live, i) = d
    BY <1>3 DEF d
  <2>2. ASSUME NEW j \in 1 .. Len(c), c[j] # d
        PROVE  Kept(heap, h4, c[j]) /\ \E k1 \in 1 .. Len(f) : f[k1] = c[j]
    <3>1. c[j] # 0
      <4>1. c[j] \in Blocks
        BY <1>1, InChain
      <4> QED
        BY <4>1, BlockFacts
    <3>2. Kept(heap, h1, c[j]) /\ \E k1 \in 1 .. Len(e) : e[k1] = c[j]
      BY <1>10, <3>1 DEF Turned
    <3>3. Kept(h1, h2, c[j])
      BY <1>13, <3>2
    <3>4. Kept(h2, h3, c[j]) /\ \E k1 \in 1 .. Len(f) : f[k1] = c[j]
      BY <1>14, <2>2, <3>2 DEF Turned
    <3>5. Kept(h3, h4, c[j])
      BY <1>17, <3>4
    <3> QED
      BY <3>2, <3>3, <3>4, <3>5, KeptTwice
  <2>3. ASSUME NEW k1 \in 1 .. Len(f), f[k1] # b
        PROVE  \E j \in 1 .. Len(c) : f[k1] = c[j] /\ c[j] # d
    <3>1. f[k1] # 0
      <4>1. f[k1] \in Blocks
        BY <1>14, InChain
      <4> QED
        BY <4>1, BlockFacts
    <3>2. PICK j \in 1 .. Len(e) : f[k1] = e[j] /\ e[j] # d
      BY <1>14, <3>1 DEF Turned
    <3>3. PICK j1 \in 1 .. Len(c) : e[j] = c[j1]
      BY <1>10, <2>3, <3>2 DEF Turned
    <3> QED
      BY <3>2, <3>3
  <2> QED
    BY <2>1, <2>2, <2>3 DEF Turned
<1>20. Owned(h4, live', f) /\ Marks(h4, live', overrun)
  <2>1. \A j \in 1 .. Len(c) : c[j] # b
    BY <1>9
  <2>2. b \in Blocks /\ List(h4, f) /\ live' = Strict!With(live, i, r)
    BY <1>4, <1>9, <1>17
  <2>3. \E k1 \in 1 .. Len(f) : f[k1] = b
    BY <1>15
  <2> QED
    BY <1>1, <1>5, <1>7, <1>18, <1>19, <2>1, <2>2, <2>3, Given
<1> QED
  BY <1>2, <1>4, <1>17, <1>20 DEF StrictSound

(* What users write is no canary.                                          *)
LEMMA NoCanary == \A i : Strict!Data(i) # Strict!Canary
<1> TAKE i
<1>1. DOMAIN Strict!Data(i) = {"owner"} /\ DOMAIN Strict!Canary = {"canary"}
  BY DEF Strict!Data, Strict!Canary
<1> QED
  BY <1>1

(* A user's overrun breaks a canary of its own block and no other's.       *)
LEMMA OverrunKeeps ==
  ASSUME StrictSound(heap, live, overrun), NEW i, Strict!Overrun(i)
  PROVE  StrictSound(heap', live', overrun')
<1>1. PICK c : List(heap, c) /\ Owned(heap, live, c) /\ Marks(heap, live, overrun)
  BY DEF StrictSound
<1>2. i \in DOMAIN live /\ overrun' = overrun \cup {i} /\ live' = live
  BY DEF Strict!Overrun
<1>3. PICK p \in 1 .. Len(c) : /\ Old(live, i) = c[p] /\ live[i].ptr = c[p] + 2
                               /\ live[i].size = heap.mem[c[p]].data_len
                               /\ \A j \in 1 .. Len(c) : c[j] = c[p] => j = p
  BY <1>1, <1>2, OldIs
<1> DEFINE d == c[p]
           n == Strict!Units(heap.mem[c[p]].data_len)
<1>4. \A j \in 1 .. Len(c) : /\ c[j] \in Blocks /\ c[j] \in Nat /\ heap.mem[c[j]].data_len \in Size
                             /\ c[j] # 0
  <2> TAKE j \in 1 .. Len(c)
  <2>1. c[j] \in Blocks /\ c[j] \in Nat /\ heap.mem[c[j]].data_len \in Size
    BY <1>1, InChain
  <2> QED
    BY <2>1, BlockFacts
<1>5. d \in Blocks /\ d \in Nat /\ heap.mem[d].data_len \in Size
  BY <1>4
<1>6. n \in Nat
  BY <1>4, UnitsFacts
<1>7. PICK a \in {live[i].ptr - 1, live[i].ptr + Strict!Units(live[i].size)} :
         heap' = [heap EXCEPT !.mem[a] = Strict!Data(i)]
  BY DEF Strict!Overrun
<1>8. a \in {d + 1, d + 2 + n}
  BY <1>3, <1>5, <1>6, <1>7
<1> HIDE DEF d, n
<1>9. a \in Books(heap, d) /\ a # d
  BY <1>5, <1>6, <1>8 DEF Books, d, n
<1>10. a \in Strict!Address
  BY <1>5, <1>9, BooksInside
<1>11. Shaped(heap)
  BY <1>1 DEF List
<1>12. /\ Shaped(heap') /\ heap'.os = heap.os /\ heap'.blocks = heap.blocks
       /\ \A x \in Strict!Address : heap'.mem[x] = IF x = a THEN Strict!Data(i) ELSE heap.mem[x]
  BY <1>7, <1>10, <1>11 DEF Shaped
<1>13. \A j \in 1 .. Len(c) : j # p => \A x \in Books(heap, c[j]) : x # a /\ x \in Strict!Address
  <2> SUFFICES ASSUME NEW j \in 1 .. Len(c), j # p, NEW x \in Books(heap, c[j])
               PROVE  x # a /\ x \in Strict!Address
    OBVIOUS
  <2>1. c[j] # d /\ c[j] \in Blocks /\ heap.mem[c[j]].data_len \in Size
    BY <1>3, <1>4 DEF d
  <2>2. x \in c[j] .. c[j] + SlotSize - 1 /\ x \in Strict!Address
    BY <2>1, BooksInside
  <2>3. a \notin c[j] .. c[j] + SlotSize - 1
    BY <1>5, <1>9, <2>1, BooksApart
  <2> QED
    BY <2>2, <2>3
<1>14. \A j \in 1 .. Len(c) : heap'.mem[c[j]] = heap.mem[c[j]]
  <2> TAKE j \in 1 .. Len(c)
  <2>1. c[j] # a
    <3>1. CASE j = p
      BY <1>9, <3>1 DEF d
    <3>2. CASE j # p
      BY <1>13, <3>2 DEF Books
    <3> QED
      BY <3>1, <3>2
  <2>2. c[j] \in Strict!Address
    BY <1>4, BooksInside DEF Books
  <2> QED
    BY <1>12, <2>1, <2>2
<1>15. List(heap', c)
  <2>1. \A j \in 1 .. Len(c) :
           /\ heap'.mem[c[j]] = Strict!Header(At(c, j - 1), At(c, j + 1), heap'.mem[c[j]].data_len)
           /\ heap'.mem[c[j]].data_len \in Size
    <3> TAKE j \in 1 .. Len(c)
    <3>1. heap'.mem[c[j]] = heap.mem[c[j]]
      BY <1>14
    <3>2. /\ heap.mem[c[j]] = Strict!Header(At(c, j - 1), At(c, j + 1), heap.mem[c[j]].data_len)
          /\ heap.mem[c[j]].data_len \in Size
      BY <1>1 DEF List
    <3> QED
      BY <3>1, <3>2
  <2>2. /\ Chain(c) /\ heap.blocks = At(c, 1)
        /\ \A s \in Strict!Slot : s \in heap.os <=> \E j \in 1 .. Len(c) : Strict!SlotOf(c[j]) = s
    BY <1>1 DEF List
  <2> QED
    BY <1>12, <2>1, <2>2 DEF List
<1>16. ~Whole(heap', d)
  <2>1. heap'.mem[a] = Strict!Data(i) /\ heap'.mem[d].data_len = heap.mem[d].data_len
    BY <1>10, <1>12, <1>14 DEF d
  <2>2. a = d + 1 \/ a = Strict!PostCanary(heap', d)
    BY <1>8, <2>1 DEF Strict!PostCanary, n, d
  <2> QED
    BY <2>1, <2>2, NoCanary DEF Whole, Strict!CanariesWhole
<1>17. \A j \in 1 .. Len(c) : j # p => (Whole(heap', c[j]) <=> Whole(heap, c[j]))
  <2> SUFFICES ASSUME NEW j \in 1 .. Len(c), j # p PROVE Whole(heap', c[j]) <=> Whole(heap, c[j])
    OBVIOUS
  <2>1. Kept(heap, heap', c[j])
    BY <1>12, <1>13, <1>14 DEF Kept, Books
  <2> QED
    BY <2>1, KeptWhole
<1>18. Owned(heap', live', c)
  BY <1>1, <1>2, <1>14 DEF Owned
<1>19. Marks(heap', live', overrun')
  <2>1. ASSUME NEW k \in DOMAIN live PROVE k \in overrun' <=> ~Whole(heap', live[k].ptr - 2)
    <3>1. PICK j \in 1 .. Len(c) : live[k].ptr = c[j] + 2
      BY <1>1 DEF Owned
    <3>2. live[k].ptr - 2 = c[j]
      BY <1>4, <3>1
    <3>3. CASE j = p
      <4>1. k = i
        BY <1>1, <1>2, <1>3, <3>1, <3>3 DEF Owned
      <4> QED
        BY <1>2, <1>16, <3>2, <3>3, <4>1 DEF d
    <3>4. CASE j # p
      <4>1. k # i
        BY <1>3, <1>4, <3>1, <3>4
      <4>2. k \in overrun <=> ~Whole(heap, c[j])
        BY <1>1, <3>2 DEF Marks
      <4> QED
        BY <1>2, <1>17, <3>2, <3>4, <4>1, <4>2
    <3> QED
      BY <3>3, <3>4
  <2>2. overrun' \subseteq DOMAIN live
    BY <1>1, <1>2 DEF Marks
  <2> QED
    BY <1>2, <2>1, <2>2 DEF Marks
<1> QED
  BY <1>15, <1>18, <1>19 DEF StrictSound

(* A block of the list is broken just when somebody wrote beside its data. *)
LEMMA BrokenIs ==
  ASSUME NEW h, NEW lv, NEW over, NEW c, List(h, c), Owned(h, lv, c), Marks(h, lv, over)
  PROVE  /\ (\E j \in 1 .. Len(c) : ~Whole(h, c[j])) <=> over # {}
         /\ Strict!BrokenCanary(h) <=> over # {}
<1>1. \A j \in 1 .. Len(c) : c[j] \in Nat
  BY InChain
<1>2. ASSUME NEW j \in 1 .. Len(c), ~Whole(h, c[j]) PROVE over # {}
  <2>1. PICK i \in DOMAIN lv : lv[i].ptr = c[j] + 2
    BY DEF Owned
  <2>2. lv[i].ptr - 2 = c[j]
    BY <1>1, <2>1
  <2> QED
    BY <1>2, <2>1, <2>2 DEF Marks
<1>3. ASSUME NEW i \in over PROVE \E j \in 1 .. Len(c) : ~Whole(h, c[j])
  <2>1. i \in DOMAIN lv /\ ~Whole(h, lv[i].ptr - 2)
    BY DEF Marks
  <2>2. PICK j \in 1 .. Len(c) : lv[i].ptr = c[j] + 2
    BY <2>1 DEF Owned
  <2>3. lv[i].ptr - 2 = c[j]
    BY <1>1, <2>2
  <2> QED
    BY <2>1, <2>3
<1>4. Strict!BlockList(h) = {c[j] : j \in 1 .. Len(c)}
  BY BlockListIs DEF In
<1>5. Strict!BrokenCanary(h) <=> \E j \in 1 .. Len(c) : ~Whole(h, c[j])
  BY <1>4 DEF Strict!BrokenCanary, Whole
<1> QED
  BY <1>2, <1>3, <1>5

(* A free_all that no assertion stops leaves neither blocks nor overruns.  *)
LEMMA FreeAllKeeps ==
  ASSUME NEW h, NEW lv, NEW over, StrictSound(h, lv, over),
         NEW done, done = Strict!FreeAllBlocks(h)
  PROVE  /\ done.asserted \in BOOLEAN /\ (done.asserted <=> over # {})
         /\ ~done.asserted => StrictSound(done.heap, << >>, over) /\ done.heap.os = {}
<1>1. PICK c : List(h, c) /\ Owned(h, lv, c) /\ Marks(h, lv, over)
  BY DEF StrictSound
<1>2. /\ done.asserted \in BOOLEAN
      /\ done.asserted <=> \E j \in 1 .. Len(c) : ~Whole(h, c[j])
      /\ ~done.asserted => List(done.heap, << >>)
  BY <1>1, FreeAllIs
<1>3. done.asserted <=> over # {}
  BY <1>1, <1>2, BrokenIs
<1>4. ASSUME ~done.asserted PROVE StrictSound(done.heap, << >>, over) /\ done.heap.os = {}
  <2>1. List(done.heap, << >>) /\ over = {}
    BY <1>2, <1>3, <1>4
  <2>2. Owned(done.heap, << >>, << >>) /\ Marks(done.heap, << >>, over)
    BY <2>1 DEF Owned, Marks
  <2>3. done.heap.os = {}
    BY <2>1 DEF List, Shaped
  <2> QED
    BY <2>1, <2>2, <2>3 DEF StrictSound
<1> QED
  BY <1>2, <1>3, <1>4

(* With no blocks the list is empty.                                       *)
LEMMA EmptyList ==
  ASSUME NEW h, NEW c, List(h, c), h.os = {} PROVE c = << >> /\ h.blocks = 0
<1>1. c \in Seq(Blocks) /\ \A j \in 1 .. Len(c) : c[j] \in Blocks
  BY InChain DEF List, Chain
<1>2. \A j \in 1 .. Len(c) : Strict!SlotOf(c[j]) \in Strict!Slot
  BY <1>1, BlockFacts
<1>3. 1 \notin 1 .. Len(c)
  BY <1>2 DEF List
<1> QED
  BY <1>1, <1>3 DEF List, At

(* A new allocator has no blocks.                                          *)
LEMMA StartSound == Strict!Init => StrictSound(heap, live, overrun) /\ heap.os = {}
<1> SUFFICES ASSUME Strict!Init PROVE StrictSound(heap, live, overrun) /\ heap.os = {}
  OBVIOUS
<1>1. /\ heap = [mem |-> [a \in Strict!Address |-> Strict!Junk], os |-> {}, blocks |-> 0]
      /\ live = << >> /\ overrun = {}
  BY DEF Strict!Init, Strict!Null
<1>2. /\ heap.mem = [a \in Strict!Address |-> Strict!Junk] /\ heap.os = {} /\ heap.blocks = 0
  BY <1>1
<1>3. Shaped(heap)
  BY <1>1, <1>2 DEF Shaped
<1>4. List(heap, << >>)
  BY <1>2, <1>3 DEF List, Chain, At
<1>5. Owned(heap, live, << >>) /\ Marks(heap, live, overrun)
  BY <1>1 DEF Owned, Marks
<1> QED
  BY <1>2, <1>4, <1>5 DEF StrictSound

(* wmem_strict_allocator_init empties a list that is empty.                *)
LEMMA CreateKeeps ==
  ASSUME StrictSound(heap, live, overrun), heap.os = {}, Strict!Create
  PROVE  StrictSound(heap', live', overrun')
<1>1. PICK c : List(heap, c) /\ Owned(heap, live, c) /\ Marks(heap, live, overrun)
  BY DEF StrictSound
<1>2. heap.blocks = 0 /\ Shaped(heap)
  BY <1>1, EmptyList DEF List
<1>3. heap' = [heap EXCEPT !.blocks = 0] /\ live' = live /\ overrun' = overrun
  BY DEF Strict!Create, Strict!Null
<1>4. heap' = heap
  BY <1>2, <1>3 DEF Shaped
<1> QED
  BY <1>3, <1>4

(* The invariant holds at first,                                           *)
LEMMA InitStrict == Init => StrictInv
<1> SUFFICES ASSUME Init, OfStrict PROVE StrictInv
  BY DEF StrictInv
<1>1. Strict!Init
  BY DEF Init, OfBlock, OfFast, OfSimple, OfStrict
<1>2. created = TRUE /\ asserted = FALSE
  BY <1>1 DEF Strict!Init
<1> QED
  BY <1>1, <1>2, StartSound DEF StrictInv

(* and each step keeps it.                                                 *)
LEMMA StepStrict == StrictInv /\ [Next]_vars => StrictInv'
<1> SUFFICES ASSUME StrictInv, [Next]_vars, OfStrict' PROVE StrictInv'
  BY DEF StrictInv
<1>1. OfStrict /\ (Strict!Next \/ UNCHANGED vars)
  BY DEF Next, vars, OfBlock, OfFast, OfSimple, OfStrict
<1>2. /\ created \in BOOLEAN /\ asserted \in BOOLEAN /\ (asserted => overrun # {})
      /\ StrictSound(heap, live, overrun) /\ (~created => heap.os = {})
  BY <1>1 DEF StrictInv
<1> SUFFICES /\ created' \in BOOLEAN /\ asserted' \in BOOLEAN /\ (asserted' => overrun' # {})
             /\ StrictSound(heap', live', overrun') /\ (~created' => heap'.os = {})
  BY DEF StrictInv
<1>3. CASE UNCHANGED vars
  BY <1>2, <1>3 DEF vars
<1>4. ASSUME NEW i, NEW size \in Size, Strict!Alloc(i, size)
      PROVE  created' = TRUE /\ asserted' = asserted /\ overrun' = overrun
  BY <1>2, <1>4 DEF Strict!Alloc
<1>5. ASSUME NEW i, NEW size \in Size, Strict!Realloc(i, size)
      PROVE  created' = TRUE /\ asserted' = asserted /\ overrun' = overrun
  BY <1>2, <1>5 DEF Strict!Realloc
<1>6. ASSUME NEW i, Strict!Free(i)
      PROVE  created' = TRUE /\ asserted' = asserted /\ overrun' = overrun
  BY <1>2, <1>6 DEF Strict!Free
<1>7. ASSUME NEW i, Strict!Overrun(i)
      PROVE  created' = TRUE /\ asserted' = asserted /\ overrun' # {}
  BY <1>2, <1>7 DEF Strict!Overrun
(* An assertion that fails at a free finds what an overrun left.           *)
<1>8. ASSUME NEW i, Strict!FreeAsserts(i)
      PROVE  created' = TRUE /\ asserted' = TRUE /\ overrun' # {} /\ UNCHANGED <<heap, live, overrun>>
  <2>1. i \in DOMAIN live /\ ~Whole(heap, live[i].ptr - 2)
    BY <1>8 DEF Strict!FreeAsserts, Strict!BlockOf, Whole
  <2>2. PICK c : Marks(heap, live, overrun)
    BY <1>2 DEF StrictSound
  <2>3. i \in overrun
    BY <2>1, <2>2 DEF Marks
  <2> QED
    BY <1>2, <1>8, <2>3 DEF Strict!FreeAsserts
<1>9. CASE Strict!CheckCanaries
  <2>1. /\ created /\ created' = created /\ asserted' = Strict!BrokenCanary(heap)
        /\ UNCHANGED <<heap, live, overrun>>
    BY <1>9 DEF Strict!CheckCanaries
  <2>2. PICK c : List(heap, c) /\ Owned(heap, live, c) /\ Marks(heap, live, overrun)
    BY <1>2 DEF StrictSound
  <2>3. Strict!BrokenCanary(heap) <=> overrun # {}
    BY <2>2, BrokenIs
  <2>4. Strict!BrokenCanary(heap) \in BOOLEAN
    BY DEF Strict!BrokenCanary
  <2> QED
    BY <1>2, <2>1, <2>3, <2>4
<1> DEFINE done == Strict!FreeAllBlocks(heap)
<1>10. /\ done.asserted \in BOOLEAN /\ (done.asserted <=> overrun # {})
       /\ ~done.asserted => StrictSound(done.heap, << >>, overrun) /\ done.heap.os = {}
  BY <1>2, FreeAllKeeps
<1>11. CASE Strict!FreeAll
  <2>1. /\ heap' = (IF done.asserted THEN heap ELSE done.heap)
        /\ live' = (IF done.asserted THEN live ELSE << >>)
        /\ asserted' = done.asserted /\ created /\ created' = created /\ overrun' = overrun
    BY <1>11 DEF Strict!FreeAll
  <2> HIDE DEF done
  <2> QED
    BY <1>2, <1>10, <2>1
<1>12. CASE Strict!Destroy
  <2>1. /\ heap' = (IF done.asserted THEN heap ELSE done.heap)
        /\ live' = (IF done.asserted THEN live ELSE << >>)
        /\ asserted' = done.asserted /\ created' = done.asserted /\ overrun' = overrun
    BY <1>12 DEF Strict!Destroy
  <2> HIDE DEF done
  <2> QED
    BY <1>2, <1>10, <2>1
<1>13. CASE Strict!Create
  <2>1. ~created /\ created' = TRUE /\ asserted' = asserted /\ overrun' = overrun
    BY <1>13 DEF Strict!Create
  <2> QED
    BY <1>2, <1>13, <2>1, CreateKeeps
<1> HIDE DEF done
<1> QED
  <2>1. \/ UNCHANGED vars
        \/ \E i \in Id, size \in Size : Strict!Alloc(i, size)
        \/ \E i \in Id, size \in Size : Strict!Realloc(i, size)
        \/ \E i \in Id : Strict!Free(i)
        \/ \E i \in Id : Strict!FreeAsserts(i)
        \/ \E i \in Id : Strict!Overrun(i)
        \/ Strict!CheckCanaries \/ Strict!FreeAll \/ Strict!Destroy \/ Strict!Create
    BY <1>1 DEF Strict!Next
  <2>2. CASE \E i \in Id, size \in Size : Strict!Alloc(i, size)
    BY <1>2, <1>4, <2>2, AllocKeeps
  <2>3. CASE \E i \in Id, size \in Size : Strict!Realloc(i, size)
    BY <1>2, <1>5, <2>3, ReallocKeeps
  <2>4. CASE \E i \in Id : Strict!Free(i)
    BY <1>2, <1>6, <2>4, FreeKeeps
  <2>5. CASE \E i \in Id : Strict!FreeAsserts(i)
    BY <1>2, <1>8, <2>5
  <2>6. CASE \E i \in Id : Strict!Overrun(i)
    BY <1>2, <1>7, <2>6, OverrunKeeps
  <2> QED
    BY <1>3, <1>9, <1>11, <1>12, <1>13, <2>1, <2>2, <2>3, <2>4, <2>5, <2>6

(* Whatever is allocated, moved, freed and overrun, in any order, the      *)
(* strict allocator's list is that of the live allocations.                *)
THEOREM StrictHolds == Spec => []StrictInv
<1>1. Init => StrictInv
  BY InitStrict
<1>2. StrictInv /\ [Next]_vars => StrictInv'
  BY StepStrict
<1> QED
  BY <1>1, <1>2, PTL DEF Spec

(* OverrunsCaught: no overrun gets past a check of all canaries, a         *)
(* free_all or a destroy.                                                  *)
THEOREM OverrunsAlwaysCaught == Spec => OverrunsCaught
<1>1. StrictInv => (OfStrict /\ overrun # {} => Strict!BrokenCanary(heap))
  <2> SUFFICES ASSUME StrictInv, OfStrict, overrun # {} PROVE Strict!BrokenCanary(heap)
    OBVIOUS
  <2>1. PICK c : List(heap, c) /\ Owned(heap, live, c) /\ Marks(heap, live, overrun)
    BY DEF StrictInv, StrictSound
  <2> QED
    BY <2>1, BrokenIs
<1>2. StrictInv /\ [Next]_vars =>
         [OfStrict /\ (Strict!FreeAll \/ Strict!Destroy) => (overrun # {} => asserted')]_vars
  <2> SUFFICES ASSUME StrictInv, OfStrict, Strict!FreeAll \/ Strict!Destroy, overrun # {}
               PROVE  asserted'
    OBVIOUS
  <2>1. StrictSound(heap, live, overrun)
    BY DEF StrictInv
  <2>2. PICK done : done = Strict!FreeAllBlocks(heap)
    OBVIOUS
  <2>3. done.asserted <=> overrun # {}
    BY <2>1, <2>2, FreeAllKeeps
  <2>4. asserted' = done.asserted
    BY <2>2 DEF Strict!FreeAll, Strict!Destroy
  <2> QED
    BY <2>3, <2>4
<1> QED
  BY StrictHolds, <1>1, <1>2, PTL DEF Spec, OverrunsCaught

(* The strict allocator's part of BooksExact and DestroyReturnsAll.        *)
THEOREM StrictBooks ==
  Spec => [](OfStrict => Strict!ListExact /\ Strict!NoFalseAlarm /\ (~created => heap.os = {}))
<1>1. StrictInv => (OfStrict => Strict!ListExact /\ Strict!NoFalseAlarm /\ (~created => heap.os = {}))
  <2> SUFFICES ASSUME StrictInv, OfStrict
               PROVE  Strict!ListExact /\ Strict!NoFalseAlarm /\ (~created => heap.os = {})
    OBVIOUS
  <2>1. /\ asserted => overrun # {}
        /\ ~created => heap.os = {}
    BY DEF StrictInv
  <2>2. PICK c : List(heap, c) /\ Owned(heap, live, c) /\ Marks(heap, live, overrun)
    BY DEF StrictInv, StrictSound
  <2>3. Strict!BrokenCanary(heap) <=> overrun # {}
    BY <2>2, BrokenIs
  <2>4. Strict!BlockList(heap) = {c[j] : j \in 1 .. Len(c)}
    BY <2>2, BlockListIs DEF In
  <2>5. \A j \in 1 .. Len(c) : c[j] \in Blocks /\ c[j] \in Nat
    BY <2>2, InChain
  <2>6. \A j \in 1 .. Len(c) : c[j] = Strict!Base(Strict!SlotOf(c[j])) /\ Strict!SlotOf(c[j]) \in Strict!Slot
    BY <2>5, BlockFacts
  <2>7. heap.os \subseteq Strict!Slot
    BY <2>2 DEF List, Shaped
  <2>8. {c[j] : j \in 1 .. Len(c)} = {Strict!Base(s) : s \in heap.os}
    <3>1. ASSUME NEW j \in 1 .. Len(c) PROVE c[j] \in {Strict!Base(s) : s \in heap.os}
      BY <2>2, <2>6 DEF List
    <3>2. ASSUME NEW s \in heap.os PROVE \E j \in 1 .. Len(c) : c[j] = Strict!Base(s)
      <4>1. PICK j \in 1 .. Len(c) : Strict!SlotOf(c[j]) = s
        BY <2>2, <2>7 DEF List
      <4> QED
        BY <2>6, <4>1
    <3> QED
      BY <3>1, <3>2
  <2>9. {c[j] : j \in 1 .. Len(c)} = {Strict!BlockOf(live[i].ptr) : i \in DOMAIN live}
    <3>1. ASSUME NEW j \in 1 .. Len(c) PROVE \E i \in DOMAIN live : c[j] = live[i].ptr - 2
      BY <2>2, <2>5 DEF Owned
    <3>2. ASSUME NEW i \in DOMAIN live PROVE \E j \in 1 .. Len(c) : c[j] = live[i].ptr - 2
      <4>1. PICK j \in 1 .. Len(c) : live[i].ptr = c[j] + 2
        BY <2>2 DEF Owned
      <4>2. c[j] \in Nat
        BY <2>5
      <4> QED
        BY <4>1, <4>2
    <3> QED
      BY <3>1, <3>2 DEF Strict!BlockOf
  <2>10. ASSUME NEW j \in 1 .. Len(c), heap.mem[c[j]].next # 0
         PROVE  heap.mem[heap.mem[c[j]].next].prev = c[j]
    <3>1. heap.mem[c[j]] = Strict!Header(At(c, j - 1), At(c, j + 1), heap.mem[c[j]].data_len)
      BY <2>2 DEF List
    <3>2. heap.mem[c[j]].next = At(c, j + 1)
      BY <3>1 DEF Strict!Header
    <3>3. j + 1 \in 1 .. Len(c) /\ heap.mem[c[j]].next = c[j + 1]
      BY <2>10, <3>2 DEF At
    <3>4. heap.mem[c[j + 1]] =
             Strict!Header(At(c, (j + 1) - 1), At(c, (j + 1) + 1), heap.mem[c[j + 1]].data_len)
      BY <2>2, <3>3 DEF List
    <3>5. heap.mem[c[j + 1]].prev = At(c, (j + 1) - 1)
      BY <3>4 DEF Strict!Header
    <3>6. (j + 1) - 1 = j
      OBVIOUS
    <3> QED
      BY <3>3, <3>5, <3>6 DEF At
  <2>11. Strict!ListExact
    BY <2>4, <2>8, <2>9, <2>10 DEF Strict!ListExact, Strict!Null
  <2> QED
    BY <2>1, <2>3, <2>11 DEF Strict!NoFalseAlarm
<1> QED
  BY StrictHolds, <1>1, PTL

-----------------------------------------------------------------------------
(***************************************************************************)
(* What is stored in the blocks, and what wmem promises.                   *)
(***************************************************************************)

(* The data of a block, left as it is.                                     *)
DataCells(h, b) == b + 2 .. b + 2 + Strict!Units(h.mem[b].data_len) - 1
SameData(h, h2, b) == \A a \in DataCells(h, b) : h2.mem[a] = h.mem[a]

(* That of all blocks of c but one.                                        *)
SameBut(h, c, h2, gone) == \A j \in 1 .. Len(c) : c[j] # gone => SameData(h, h2, c[j])

(* n units at b's data that were copied.                                   *)
CopyOf(h, h2, b, from, n) == \A a \in b + 2 .. b + 2 + n - 1 : h2.mem[a] = h.mem[a - (b + 2) + from]

(* The data of a block is in its slot, where no other block is.            *)
LEMMA DataPlace ==
  ASSUME NEW h, NEW c, List(h, c), NEW k \in 1 .. Len(c), NEW a \in DataCells(h, c[k])
  PROVE  /\ a \in Strict!Address /\ a \in c[k] .. c[k] + SlotSize - 1
         /\ \A j \in 1 .. Len(c) : a \notin Books(h, c[j]) /\ a # c[j]
         /\ \A b \in Blocks : b # c[k] => a \notin b .. b + SlotSize - 1
<1>1. c[k] \in Blocks /\ c[k] \in Nat /\ h.mem[c[k]].data_len \in Size /\ SlotSize \in Nat
  BY InChain, OsAssumption
<1>2. Strict!Units(h.mem[c[k]].data_len) \in Nat /\ Strict!Units(h.mem[c[k]].data_len) <= SlotSize - 3
  BY <1>1, UnitsFacts
<1>3. a \in c[k] .. c[k] + SlotSize - 1
  BY <1>1, <1>2 DEF DataCells
<1>4. a \in Strict!Address
  BY <1>1, <1>3, BlockFacts
<1>5. ASSUME NEW j \in 1 .. Len(c) PROVE a \notin Books(h, c[j]) /\ a # c[j]
  <2>1. a \notin Books(h, c[j])
    BY DataApart DEF DataCells
  <2> QED
    BY <2>1 DEF Books
<1>6. ASSUME NEW b \in Blocks, b # c[k] PROVE a \notin b .. b + SlotSize - 1
  <2>1. b + SlotSize <= c[k] \/ c[k] + SlotSize <= b
    BY <1>1, <1>6, BlockFacts
  <2>2. b \in Nat
    BY BlockFacts
  <2> QED
    BY <1>1, <1>3, <2>1, <2>2
<1> QED
  BY <1>3, <1>4, <1>5, <1>6

(* A free leaves the data of other blocks alone,                           *)
LEMMA FreeData ==
  ASSUME NEW h, NEW c, List(h, c), NEW p \in 1 .. Len(c), NEW h2, h2 = Strict!FreeBlock(h, c[p]),
         NEW j \in 1 .. Len(c), c[j] # c[p]
  PROVE  SameData(h, h2, c[j])
<1> SUFFICES ASSUME NEW a \in DataCells(h, c[j]) PROVE h2.mem[a] = h.mem[a]
  BY DEF SameData
<1> DEFINE prev == At(c, p - 1)
           next == At(c, p + 1)
           b == c[p]
<1>1. /\ a \in Strict!Address /\ \A k \in 1 .. Len(c) : a # c[k]
      /\ \A e \in Blocks : e # c[j] => a \notin e .. e + SlotSize - 1
  BY DataPlace
<1>2. c[p] \in Blocks
  BY InChain
<1>3. (prev # 0 => a # prev) /\ (next # 0 => a # next)
  BY <1>1 DEF At
<1> HIDE DEF prev, next, b
<1>4. h2.mem[a] = IF a \in b .. b + SlotSize - 1 THEN Strict!Junk
                  ELSE IF next # 0 /\ a = next THEN [h.mem[next] EXCEPT !.prev = prev]
                  ELSE IF prev # 0 /\ a = prev THEN [h.mem[prev] EXCEPT !.next = next]
                  ELSE h.mem[a]
  <2>1. b = c[p] /\ prev = At(c, p - 1) /\ next = At(c, p + 1) /\ h2 = Strict!FreeBlock(h, b)
    BY DEF b, prev, next
  <2> QED
    BY <1>1, <2>1, FreeChanges
<1>5. a \notin b .. b + SlotSize - 1
  BY <1>1, <1>2 DEF b
<1> QED
  BY <1>3, <1>4, <1>5

(* an alloc too,                                                           *)
LEMMA AllocData ==
  ASSUME NEW h, NEW c, List(h, c), Strict!FreeSlots(h) # {}, NEW size \in Size,
         NEW h2, h2 = Strict!StrictAlloc(h, size).heap, NEW j \in 1 .. Len(c)
  PROVE  SameData(h, h2, c[j])
<1> SUFFICES ASSUME NEW a \in DataCells(h, c[j]) PROVE h2.mem[a] = h.mem[a]
  BY DEF SameData
<1> DEFINE s == Strict!NewSlot(h)
           b == Strict!Base(s)
           n == Strict!Units(size)
<1>1. /\ a \in Strict!Address /\ \A k \in 1 .. Len(c) : a # c[k]
      /\ \A e \in Blocks : e # c[j] => a \notin e .. e + SlotSize - 1
  BY DataPlace
<1>2. s \in Strict!Slot /\ s \notin h.os
  BY NewSlotFree DEF Strict!FreeSlots
<1>3. b \in Blocks /\ c[j] # b
  <2> HIDE DEF b
  <2>1. b = Strict!Base(Strict!NewSlot(h))
    BY DEF b
  <2>2. b \in Blocks /\ \A k \in 1 .. Len(c) : c[k] # b
    BY <2>1, AllocTurned
  <2> QED
    BY <2>2
<1>4. a \notin b .. b + SlotSize - 1
  BY <1>1, <1>3
<1>5. n \in Nat /\ n <= SlotSize - 3 /\ SlotSize \in Nat /\ b \in Nat
  BY <1>3, UnitsFacts, BlockFacts, OsAssumption
<1>6. b \in b .. b + SlotSize - 1 /\ b + 1 \in b .. b + SlotSize - 1 /\ b + 2 + n \in b .. b + SlotSize - 1
  <2> HIDE DEF b, n
  <2> QED
    BY <1>5
<1>7. a # b /\ a # b + 1 /\ a # b + 2 + n
  <2> HIDE DEF b, n
  <2> QED
    BY <1>4, <1>6
<1>8. h.blocks = 0 \/ h.blocks \in Blocks
  <2>1. h.blocks = At(c, 1)
    BY DEF List
  <2> QED
    BY <2>1, InChain DEF At
<1>9. h.blocks # 0 => a # h.blocks
  <2>1. h.blocks = At(c, 1)
    BY DEF List
  <2> QED
    BY <1>1, <2>1 DEF At
<1>10. h2.mem[a] = IF a = b + 1 \/ a = b + 2 + n THEN Strict!Canary
                   ELSE IF a = b THEN Strict!Header(0, h.blocks, size)
                   ELSE IF h.blocks # 0 /\ a = h.blocks THEN [h.mem[a] EXCEPT !.prev = b]
                   ELSE h.mem[a]
  <2>1. Shaped(h)
    BY DEF List
  <2> HIDE DEF s, b
  <2>2. s = Strict!NewSlot(h) /\ b = Strict!Base(s)
    BY DEF s, b
  <2> QED
    BY <1>1, <1>2, <1>8, <2>1, <2>2, AllocEffect
<1> HIDE DEF b, n
<1> QED
  BY <1>7, <1>9, <1>10

(* and what is written or copied into a block.                             *)
LEMMA WriteData ==
  ASSUME NEW h, NEW c, List(h, c), NEW k \in 1 .. Len(c), NEW i, NEW r, NEW first,
         r.ptr = c[k] + 2, r.size = h.mem[c[k]].data_len,
         NEW h2, h2 = Strict!Write(h, i, r, first)
  PROVE  /\ \A j \in 1 .. Len(c) : c[j] # c[k] => SameData(h, h2, c[j])
         /\ \A a \in DataCells(h, c[k]) :
              h2.mem[a] = IF a >= c[k] + 2 + first THEN Strict!Data(i) ELSE h.mem[a]
<1>1. Shaped(h) /\ Strict!CellsOf(r) = DataCells(h, c[k])
  BY DEF List, Strict!CellsOf, DataCells
<1>2. \A a \in Strict!Address :
         h2.mem[a] = IF a \in DataCells(h, c[k]) /\ a >= c[k] + 2 + first THEN Strict!Data(i)
                     ELSE h.mem[a]
  BY <1>1 DEF Strict!Write, Shaped
<1>3. \A j \in 1 .. Len(c) : \A a \in DataCells(h, c[j]) :
         a \in Strict!Address /\ (c[j] # c[k] => a \notin DataCells(h, c[k]))
  <2> SUFFICES ASSUME NEW j \in 1 .. Len(c), NEW a \in DataCells(h, c[j])
               PROVE  a \in Strict!Address /\ (c[j] # c[k] => a \notin DataCells(h, c[k]))
    OBVIOUS
  <2>1. a \in Strict!Address /\ (c[k] # c[j] => a \notin c[k] .. c[k] + SlotSize - 1)
    BY DataPlace, InChain
  <2>2. a \in DataCells(h, c[k]) => a \in c[k] .. c[k] + SlotSize - 1
    BY DataPlace
  <2> QED
    BY <2>1, <2>2
<1> QED
  BY <1>2, <1>3 DEF SameData

(* what is copied is the same there.                                       *)
LEMMA CopyData ==
  ASSUME NEW h, NEW c, List(h, c), NEW k \in 1 .. Len(c), NEW from, NEW n \in Nat,
         n <= Strict!Units(h.mem[c[k]].data_len),
         NEW h2, h2 = Strict!CopyUnits(h, c[k] + 2, from, n)
  PROVE  SameBut(h, c, h2, c[k]) /\ CopyOf(h, h2, c[k], from, n)
<1>1. /\ Shaped(h) /\ c[k] \in Nat
  BY InChain DEF List
<1>2. h.mem[c[k]].data_len \in Size
  BY InChain
<1>3. Strict!Units(h.mem[c[k]].data_len) \in Nat
  BY <1>2, UnitsFacts
<1>4. \A a \in c[k] + 2 .. c[k] + 2 + n - 1 : a \in DataCells(h, c[k])
  BY <1>1, <1>3 DEF DataCells
<1>5. \A a \in Strict!Address :
         h2.mem[a] = IF a \in c[k] + 2 .. c[k] + 2 + n - 1 THEN h.mem[a - (c[k] + 2) + from]
                     ELSE h.mem[a]
  BY <1>1 DEF Strict!CopyUnits, Shaped
<1>6. \A j \in 1 .. Len(c) : \A a \in DataCells(h, c[j]) :
         a \in Strict!Address /\ (c[j] # c[k] => a \notin DataCells(h, c[k]))
  <2> SUFFICES ASSUME NEW j \in 1 .. Len(c), NEW a \in DataCells(h, c[j])
               PROVE  a \in Strict!Address /\ (c[j] # c[k] => a \notin DataCells(h, c[k]))
    OBVIOUS
  <2>1. a \in Strict!Address /\ (c[k] # c[j] => a \notin c[k] .. c[k] + SlotSize - 1)
    BY DataPlace, InChain
  <2>2. a \in DataCells(h, c[k]) => a \in c[k] .. c[k] + SlotSize - 1
    BY DataPlace
  <2> QED
    BY <2>1, <2>2
<1>7. ASSUME NEW j \in 1 .. Len(c), c[j] # c[k] PROVE SameData(h, h2, c[j])
  BY <1>4, <1>5, <1>6, <1>7 DEF SameData
<1>8. ASSUME NEW a \in c[k] + 2 .. c[k] + 2 + n - 1 PROVE h2.mem[a] = h.mem[a - (c[k] + 2) + from]
  BY <1>4, <1>5, <1>6, <1>8
<1> QED
  BY <1>7, <1>8 DEF SameBut, CopyOf

(* Each allocation holds what its user wrote there.                        *)
Holds(h, r, i) == \A a \in Strict!CellsOf(r) : h.mem[a] = Strict!Data(i)
Mine(h, lv) == \A i \in DOMAIN lv : Holds(h, lv[i], i)

(* Where it is: in the data of its block.                                  *)
LEMMA CellsAre ==
  ASSUME NEW h, NEW lv, NEW c, List(h, c), Owned(h, lv, c), NEW i \in DOMAIN lv
  PROVE  \E p \in 1 .. Len(c) : /\ Old(lv, i) = c[p] /\ Strict!CellsOf(lv[i]) = DataCells(h, c[p])
                                /\ lv[i].ptr = c[p] + 2 /\ lv[i].size = h.mem[c[p]].data_len
<1>1. PICK p \in 1 .. Len(c) : /\ Old(lv, i) = c[p] /\ lv[i].ptr = c[p] + 2
                               /\ lv[i].size = h.mem[c[p]].data_len
  BY OldIs
<1> QED
  BY <1>1 DEF DataCells, Strict!CellsOf

(* An allocation that is left alone keeps that.                            *)
LEMMA StillMine ==
  ASSUME NEW h, NEW lv, NEW c, List(h, c), Owned(h, lv, c), Mine(h, lv),
         NEW h2, NEW gone, SameBut(h, c, h2, gone),
         NEW i \in DOMAIN lv, Old(lv, i) # gone
  PROVE  Holds(h2, lv[i], i)
<1>1. PICK p \in 1 .. Len(c) : Old(lv, i) = c[p] /\ Strict!CellsOf(lv[i]) = DataCells(h, c[p])
  BY CellsAre
<1> QED
  BY <1>1 DEF SameData, SameBut, Mine, Holds

(* No two allocations have a block.                                        *)
LEMMA OldApart ==
  ASSUME NEW h, NEW lv, NEW c, List(h, c), Owned(h, lv, c), NEW i \in DOMAIN lv, NEW k, k # i
  PROVE  Old(lv, i) # Old(lv, k)
<1>1. PICK p \in 1 .. Len(c) : Old(lv, i) = c[p] /\ lv[i].ptr = c[p] + 2
  BY OldIs
<1>2. c[p] \in Nat /\ c[p] # 0
  <2>1. c[p] \in Blocks
    BY InChain
  <2> QED
    BY <2>1, BlockFacts
<1>3. CASE k \in DOMAIN lv
  <2>1. PICK q \in 1 .. Len(c) : Old(lv, k) = c[q] /\ lv[k].ptr = c[q] + 2
    BY <1>3, OldIs
  <2>2. lv[i].ptr # lv[k].ptr
    BY <1>3 DEF Owned
  <2> QED
    BY <1>1, <2>1, <2>2
<1>4. CASE k \notin DOMAIN lv
  BY <1>1, <1>2, <1>4 DEF Old
<1> QED
  BY <1>3, <1>4

(* What is stored, after a free                                            *)
LEMMA MineDropped ==
  ASSUME NEW h, NEW lv, NEW c, List(h, c), Owned(h, lv, c), Mine(h, lv),
         NEW i \in DOMAIN lv, NEW h2,
         SameBut(h, c, h2, Old(lv, i)),
         NEW lv2, lv2 = Strict!Without(lv, {i})
  PROVE  Mine(h2, lv2)
<1> SUFFICES ASSUME NEW k \in DOMAIN lv2 PROVE Holds(h2, lv2[k], k)
  BY DEF Mine
<1>1. k \in DOMAIN lv /\ k # i /\ lv2[k] = lv[k]
  BY DEF Strict!Without
<1>2. Old(lv, k) # Old(lv, i)
  BY <1>1, OldApart
<1>3. Holds(h2, lv[k], k)
  BY <1>1, <1>2, StillMine
<1> QED
  BY <1>1, <1>3

(* and after an allocation was given.                                      *)
LEMMA MineGiven ==
  ASSUME NEW h, NEW lv, NEW c, List(h, c), Owned(h, lv, c), Mine(h, lv),
         NEW i, NEW h2, SameBut(h, c, h2, Old(lv, i)),
         NEW r, Holds(h2, r, i),
         NEW lv2, lv2 = Strict!With(lv, i, r)
  PROVE  Mine(h2, lv2)
<1> SUFFICES ASSUME NEW k \in DOMAIN lv2 PROVE Holds(h2, lv2[k], k)
  BY DEF Mine
<1>1. CASE k = i
  <2>1. lv2[k] = r
    BY <1>1 DEF Strict!With
  <2> QED
    BY <1>1, <2>1
<1>2. CASE k # i
  <2>1. k \in DOMAIN lv /\ lv2[k] = lv[k]
    BY <1>2 DEF Strict!With
  <2>2. Old(lv, k) # Old(lv, i)
    BY <1>2, <2>1, OldApart
  <2>3. Holds(h2, lv[k], k)
    BY <2>1, <2>2, StillMine
  <2> QED
    BY <2>1, <2>3
<1> QED
  BY <1>1, <1>2

(* The calls keep it.                                                      *)
LEMMA AllocMine ==
  ASSUME StrictSound(heap, live, overrun), Mine(heap, live), NEW i, NEW size \in Size,
         Strict!Alloc(i, size)
  PROVE  Mine(heap', live')
<1>1. PICK c : List(heap, c) /\ Owned(heap, live, c)
  BY DEF StrictSound
<1> DEFINE b == Strict!Base(Strict!NewSlot(heap))
           h1 == Strict!StrictAlloc(heap, size).heap
           r == [ptr |-> b + 2, size |-> size]
           h2 == Strict!Write(h1, i, r, 0)
<1>2. /\ Strict!FreeSlots(heap) # {} /\ live' = Strict!With(live, i, r) /\ heap' = h2
  <2>1. Strict!StrictAlloc(heap, size).ptr = b + 2
    BY DEF Strict!StrictAlloc
  <2> QED
    BY <2>1 DEF Strict!Alloc, Strict!HandedOut
<1>3. r.ptr = b + 2 /\ r.size = size
  OBVIOUS
<1> HIDE DEF r, b, h1
<1>4. /\ b \in Blocks /\ \A j \in 1 .. Len(c) : c[j] # b
      /\ h1.mem[b].data_len = size
      /\ \E e : /\ List(h1, e) /\ Turned(heap, c, h1, e, 0, b)
                /\ \E k \in 1 .. Len(e) : e[k] = b
  BY <1>1, <1>2, AllocTurned DEF b, h1
<1>5. PICK e : /\ List(h1, e) /\ Turned(heap, c, h1, e, 0, b)
               /\ \E k \in 1 .. Len(e) : e[k] = b
  BY <1>4
<1>6. PICK k \in 1 .. Len(e) : e[k] = b
  BY <1>5
<1> HIDE DEF h2
<1>7. /\ \A j \in 1 .. Len(e) : e[j] # b => SameData(h1, h2, e[j])
      /\ \A a \in DataCells(h1, b) : h2.mem[a] = IF a >= b + 2 + 0 THEN Strict!Data(i) ELSE h1.mem[a]
  <2>1. r.ptr = e[k] + 2 /\ r.size = h1.mem[e[k]].data_len
    BY <1>3, <1>4, <1>6
  <2>2. h2 = Strict!Write(h1, i, r, 0)
    BY DEF h2
  <2> QED
    BY <1>5, <1>6, <2>1, <2>2, WriteData
<1>8. \A j \in 1 .. Len(c) : SameData(heap, h2, c[j])
  <2> TAKE j \in 1 .. Len(c)
  <2>1. c[j] # 0
    <3>1. c[j] \in Blocks
      BY <1>1, InChain
    <3> QED
      BY <3>1, BlockFacts
  <2>2. SameData(heap, h1, c[j])
    BY <1>1, <1>2, AllocData DEF h1
  <2>3. Kept(heap, h1, c[j]) /\ \E m \in 1 .. Len(e) : e[m] = c[j]
    BY <1>5, <2>1 DEF Turned
  <2>4. SameData(h1, h2, c[j])
    BY <1>4, <1>7, <2>3
  <2> QED
    BY <2>2, <2>3, <2>4 DEF SameData, DataCells, Kept
<1>9. Holds(h2, r, i)
  <2>1. Strict!CellsOf(r) = DataCells(h1, b)
    BY <1>3, <1>4 DEF Strict!CellsOf, DataCells
  <2>2. b \in Nat
    BY <1>4, BlockFacts
  <2>3. \A a \in DataCells(h1, b) : a >= b + 2 + 0
    BY <2>2 DEF DataCells
  <2> QED
    BY <1>7, <2>1, <2>3 DEF Holds
<1>10. SameBut(heap, c, h2, Old(live, i))
  BY <1>8 DEF SameBut
<1> QED
  BY <1>1, <1>2, <1>9, <1>10, MineGiven

LEMMA FreeMine ==
  ASSUME StrictSound(heap, live, overrun), Mine(heap, live), NEW i, Strict!Free(i)
  PROVE  Mine(heap', live')
<1>1. PICK c : List(heap, c) /\ Owned(heap, live, c)
  BY DEF StrictSound
<1>2. i \in DOMAIN live
  BY DEF Strict!Free
<1>3. PICK p \in 1 .. Len(c) : Old(live, i) = c[p]
  BY <1>1, <1>2, OldIs
<1>4. live' = Strict!Without(live, {i}) /\ heap' = Strict!FreeBlock(heap, c[p])
  BY <1>2, <1>3 DEF Strict!Free, Strict!BlockOf, Old
<1>5. SameBut(heap, c, heap', c[p])
  <2> SUFFICES ASSUME NEW j \in 1 .. Len(c), c[j] # c[p] PROVE SameData(heap, heap', c[j])
    BY DEF SameBut
  <2> QED
    BY <1>1, <1>4, FreeData
<1> QED
  BY <1>1, <1>2, <1>3, <1>4, <1>5, MineDropped

(* All that fits is copied.                                                *)
LEMMA CopiedIs ==
  ASSUME NEW h, NEW b, h.mem[b].data_len \in Size, NEW size \in Size
  PROVE  \/ Strict!Copied(h, b, size) = Strict!Units(size)
         \/ Strict!Copied(h, b, size) = Strict!Units(h.mem[b].data_len)
BY DEF Strict!Copied

LEMMA ReallocMine ==
  ASSUME StrictSound(heap, live, overrun), Mine(heap, live), NEW i, NEW size \in Size,
         Strict!Realloc(i, size)
  PROVE  Mine(heap', live')
<1>1. PICK c : List(heap, c) /\ Owned(heap, live, c)
  BY DEF StrictSound
<1>2. i \in DOMAIN live /\ Strict!FreeSlots(heap) # {}
  BY DEF Strict!Realloc
<1>3. PICK p \in 1 .. Len(c) : /\ Old(live, i) = c[p] /\ live[i].ptr = c[p] + 2
                               /\ Strict!CellsOf(live[i]) = DataCells(heap, c[p])
                               /\ live[i].size = heap.mem[c[p]].data_len
  BY <1>1, <1>2, CellsAre
<1> DEFINE b == Strict!Base(Strict!NewSlot(heap))
           d == c[p]
           h1 == Strict!StrictAlloc(heap, size).heap
           n == Strict!Copied(heap, d, size)
           h2 == Strict!CopyUnits(h1, b + 2, live[i].ptr, n)
           h3 == Strict!FreeBlock(h2, d)
           r == [ptr |-> b + 2, size |-> size]
           old == Strict!Units(live[i].size)
           h4 == Strict!Write(h3, i, r, old)
<1>4. live' = Strict!With(live, i, r) /\ heap' = h4
  <2>1. Strict!StrictAlloc(heap, size).ptr = b + 2
    BY DEF Strict!StrictAlloc
  <2>2. Strict!BlockOf(live[i].ptr) = d
    BY <1>2, <1>3 DEF Old, Strict!BlockOf
  <2> QED
    BY <2>1, <2>2 DEF Strict!Realloc, Strict!Moved, Strict!HandedOut
<1>5. r.ptr = b + 2 /\ r.size = size
  OBVIOUS
<1>6. d \in Nat /\ d \in Blocks /\ heap.mem[d].data_len \in Size /\ d # 0
  <2>1. c[p] \in Blocks /\ heap.mem[c[p]].data_len \in Size
    BY <1>1, InChain
  <2> QED
    BY <2>1, BlockFacts
<1>7. n = Strict!Units(size) \/ n = old
  BY <1>3, <1>6, CopiedIs
<1> HIDE DEF b, d, h1, n, h2, h3, r, h4, old
<1>8. n \in Nat /\ n <= Strict!Units(size)
  BY <1>6, CopiedFits DEF n
<1>9. /\ b \in Blocks /\ \A j \in 1 .. Len(c) : c[j] # b
      /\ h1.mem[b].data_len = size
      /\ \E e : /\ List(h1, e) /\ Turned(heap, c, h1, e, 0, b)
                /\ \E k \in 1 .. Len(e) : e[k] = b
  BY <1>1, <1>2, AllocTurned DEF b, h1
<1>10. PICK e : /\ List(h1, e) /\ Turned(heap, c, h1, e, 0, b)
                /\ \E k \in 1 .. Len(e) : e[k] = b
  BY <1>9
<1>11. PICK k \in 1 .. Len(e) : e[k] = b
  BY <1>10
<1>12. d # b /\ b \in Nat
  BY <1>9, BlockFacts DEF d
<1>13. n <= Strict!Units(h1.mem[e[k]].data_len) /\ h2 = Strict!CopyUnits(h1, e[k] + 2, live[i].ptr, n)
  BY <1>8, <1>9, <1>11 DEF h2
<1>14. List(h2, e) /\ \A j \in 1 .. Len(e) : Kept(h1, h2, e[j])
  BY <1>8, <1>10, <1>13, CopyList
<1>15. PICK q \in 1 .. Len(e) : e[q] = d
  BY <1>6, <1>10 DEF Turned, d
<1>16. h3 = Strict!FreeBlock(h2, e[q])
  BY <1>15 DEF h3
<1>17. PICK f : List(h3, f) /\ Turned(h2, e, h3, f, d, 0)
  <2>1. \A j \in 1 .. Len(e) : e[j] = e[q] => j = q
    BY <1>10, InChain
  <2> QED
    BY <1>14, <1>15, <1>16, <2>1, FreeTurned
<1>18. PICK m \in 1 .. Len(f) : f[m] = b
  BY <1>11, <1>12, <1>17 DEF Turned
<1>19. /\ \A j \in 1 .. Len(e) : e[j] # b => SameData(h1, h2, e[j])
       /\ \A a \in b + 2 .. b + 2 + n - 1 : h2.mem[a] = h1.mem[a - (b + 2) + live[i].ptr]
  <2> DEFINE from == live[i].ptr
  <2> HIDE DEF from
  <2>1. h2 = Strict!CopyUnits(h1, e[k] + 2, from, n)
    BY <1>13 DEF from
  <2>2. SameBut(h1, e, h2, e[k]) /\ CopyOf(h1, h2, e[k], from, n)
    BY <1>8, <1>10, <1>11, <1>13, <2>1, CopyData
  <2> QED
    BY <1>11, <2>2 DEF from, SameBut, CopyOf
<1>20. \A j \in 1 .. Len(e) : e[j] # d => SameData(h2, h3, e[j])
  <2> SUFFICES ASSUME NEW j \in 1 .. Len(e), e[j] # d PROVE SameData(h2, h3, e[j])
    OBVIOUS
  <2> QED
    BY <1>14, <1>15, <1>16, FreeData
<1>21. h2.mem[b].data_len = size /\ h3.mem[b].data_len = size
  <2>1. Kept(h1, h2, b)
    BY <1>11, <1>14
  <2>2. Kept(h2, h3, b)
    BY <1>11, <1>12, <1>17 DEF Turned
  <2> QED
    BY <1>9, <2>1, <2>2 DEF Kept
<1>22. /\ \A j \in 1 .. Len(f) : f[j] # b => SameData(h3, h4, f[j])
       /\ \A a \in DataCells(h3, b) : h4.mem[a] = IF a >= b + 2 + old THEN Strict!Data(i) ELSE h3.mem[a]
  <2>1. r.ptr = f[m] + 2 /\ r.size = h3.mem[f[m]].data_len
    BY <1>5, <1>18, <1>21
  <2>2. h4 = Strict!Write(h3, i, r, old)
    BY DEF h4
  <2> QED
    BY <1>17, <1>18, <2>1, <2>2, WriteData
<1>23. SameBut(heap, c, h4, Old(live, i))
  <2> SUFFICES ASSUME NEW j \in 1 .. Len(c), c[j] # d PROVE SameData(heap, h4, c[j])
    BY <1>3 DEF SameBut, d
  <2>1. c[j] # 0 /\ c[j] # b
    <3>1. c[j] \in Blocks
      BY <1>1, InChain
    <3> QED
      BY <1>9, <3>1, BlockFacts
  <2>2. SameData(heap, h1, c[j])
    BY <1>1, <1>2, AllocData DEF h1
  <2>3. Kept(heap, h1, c[j]) /\ \E k1 \in 1 .. Len(e) : e[k1] = c[j]
    BY <1>10, <2>1 DEF Turned
  <2>4. SameData(h1, h2, c[j]) /\ Kept(h1, h2, c[j])
    BY <1>14, <1>19, <2>1, <2>3
  <2>5. SameData(h2, h3, c[j]) /\ Kept(h2, h3, c[j]) /\ \E k1 \in 1 .. Len(f) : f[k1] = c[j]
    BY <1>17, <1>20, <2>3 DEF Turned
  <2>6. SameData(h3, h4, c[j])
    BY <1>22, <2>1, <2>5
  <2>7. DataCells(h1, c[j]) = DataCells(heap, c[j]) /\ DataCells(h2, c[j]) = DataCells(h1, c[j])
        /\ DataCells(h3, c[j]) = DataCells(h2, c[j])
    BY <2>3, <2>4, <2>5 DEF Kept, DataCells
  <2> QED
    BY <2>2, <2>4, <2>5, <2>6, <2>7 DEF SameData
<1>24. Holds(h4, r, i)
  <2> SUFFICES ASSUME NEW a \in b + 2 .. b + 2 + Strict!Units(size) - 1 PROVE h4.mem[a] = Strict!Data(i)
    BY <1>5 DEF Holds, Strict!CellsOf
  <2>1. Strict!Units(size) \in Nat /\ old \in Nat
    BY <1>3, <1>6, UnitsFacts DEF old, d
  <2>2. a \in DataCells(h2, b) /\ a \in DataCells(h3, b)
    BY <1>21 DEF DataCells
  <2>3. CASE a >= b + 2 + old
    BY <1>22, <2>2, <2>3
  <2>4. CASE ~(a >= b + 2 + old)
    <3>1. h4.mem[a] = h3.mem[a]
      BY <1>22, <2>2, <2>4
    <3>2. SameData(h2, h3, b)
      BY <1>11, <1>12, <1>20
    <3>3. h3.mem[a] = h2.mem[a]
      BY <2>2, <3>2 DEF SameData
    <3>4. a \in b + 2 .. b + 2 + n - 1
      BY <1>7, <1>8, <1>12, <2>1, <2>4
    <3>5. h2.mem[a] = h1.mem[a - (b + 2) + live[i].ptr]
      BY <1>19, <3>4
    <3> DEFINE x == a - (b + 2) + live[i].ptr
    <3>6. live[i].ptr = d + 2
      BY <1>3 DEF d
    <3>7. x \in d + 2 .. d + 2 + old - 1
      <4> DEFINE u == a - (b + 2)
      <4>1. u \in Int /\ u >= 0 /\ u < old
        BY <1>12, <2>1, <2>4
      <4>2. x = u + (d + 2)
        BY <3>6
      <4>3. d \in Int /\ old \in Int
        BY <1>6, <2>1
      <4> HIDE DEF u, x, d, old
      <4> QED
        BY <4>1, <4>2, <4>3
    <3> HIDE DEF x
    <3>8. x \in DataCells(heap, d)
      BY <1>3, <3>7 DEF DataCells, old, d
    <3>9. SameData(heap, h1, c[p])
      BY <1>1, <1>2, AllocData DEF h1
    <3>10. h1.mem[x] = heap.mem[x]
      BY <3>8, <3>9 DEF SameData, d
    <3>11. heap.mem[x] = Strict!Data(i)
      BY <1>2, <1>3, <3>8 DEF Mine, Holds, d
    <3> QED
      BY <3>1, <3>3, <3>5, <3>10, <3>11 DEF x
  <2> QED
    BY <2>3, <2>4
<1> QED
  BY <1>1, <1>4, <1>23, <1>24, MineGiven

(* What is written beside the data is in no data.                          *)
LEMMA OverrunMine ==
  ASSUME StrictSound(heap, live, overrun), Mine(heap, live), NEW i, Strict!Overrun(i)
  PROVE  Mine(heap', live')
<1>1. PICK c : List(heap, c) /\ Owned(heap, live, c)
  BY DEF StrictSound
<1>2. i \in DOMAIN live /\ live' = live
  BY DEF Strict!Overrun
<1>3. PICK p \in 1 .. Len(c) : live[i].ptr = c[p] + 2 /\ live[i].size = heap.mem[c[p]].data_len
  BY <1>1, <1>2, OldIs
<1>4. PICK a \in {live[i].ptr - 1, live[i].ptr + Strict!Units(live[i].size)} :
         heap' = [heap EXCEPT !.mem[a] = Strict!Data(i)]
  BY DEF Strict!Overrun
<1>5. c[p] \in Nat
  BY <1>1, InChain
<1>6. a \in Books(heap, c[p])
  BY <1>3, <1>4, <1>5 DEF Books
<1>7. Shaped(heap)
  BY <1>1 DEF List
<1>8. \A x \in Strict!Address : x # a => heap'.mem[x] = heap.mem[x]
  BY <1>4, <1>7 DEF Shaped
<1> SUFFICES ASSUME NEW k \in DOMAIN live, NEW x \in Strict!CellsOf(live[k])
             PROVE  heap'.mem[x] = Strict!Data(k)
  BY <1>2 DEF Mine, Holds
<1>9. PICK q \in 1 .. Len(c) : Strict!CellsOf(live[k]) = DataCells(heap, c[q])
  BY <1>1, CellsAre
<1>10. x \in DataCells(heap, c[q])
  BY <1>9
<1>11. x \in Strict!Address /\ x \notin Books(heap, c[p])
  BY <1>1, <1>10, DataPlace
<1>12. heap.mem[x] = Strict!Data(k)
  BY DEF Mine, Holds
<1> QED
  BY <1>6, <1>8, <1>11, <1>12

(* So each allocation holds its own mark, all over.                        *)
Full(lv) == [i \in DOMAIN lv |-> [u \in 0 .. Units(lv[i].size) - 1 |-> i]]
Content(h, lv) == [i \in DOMAIN lv |-> Held(h, lv[i], 0)]

(* Allocations that are apart from each other, as WmemAlloc wants them.    *)
Placed(lv) ==
  \A i \in DOMAIN lv :
    /\ lv[i].ptr \in Address /\ lv[i].size \in Size
    /\ \A j \in DOMAIN lv \ {i} : Promise!Cells(lv[i]) \cap Promise!Cells(lv[j]) = {}

(* That is all the users of WmemAlloc see.                                 *)
LEMMA ContentIs ==
  ASSUME NEW h, NEW lv, Placed(lv), Mine(h, lv)
  PROVE  Content(h, lv) = Full(lv)
<1>1. ASSUME NEW i \in DOMAIN lv PROVE Held(h, lv[i], 0) = [u \in 0 .. Units(lv[i].size) - 1 |-> i]
  <2>1. lv[i].ptr \in Nat /\ lv[i].size \in Size
    <3>1. NumSlots * SlotSize \in Nat
      BY OsAssumption
    <3> QED
      BY <3>1 DEF Placed, Address
  <2>2. Units(lv[i].size) = Strict!Units(lv[i].size) /\ Strict!Units(lv[i].size) \in Nat
    BY <2>1, UnitsFacts DEF Units, Strict!Units
  <2>3. ASSUME NEW u \in 0 .. Units(lv[i].size) - 1
        PROVE  /\ "owner" \in DOMAIN h.mem[lv[i].ptr + u]
               /\ h.mem[lv[i].ptr + u].owner = i
    <3>1. lv[i].ptr + u \in Strict!CellsOf(lv[i])
      BY <2>1, <2>2 DEF Strict!CellsOf
    <3>2. h.mem[lv[i].ptr + u] = [owner |-> i]
      BY <3>1 DEF Mine, Holds, Strict!Data
    <3> QED
      BY <3>2
  <2> QED
    BY <2>3 DEF Held
<1> QED
  BY <1>1 DEF Content, Full

(* Two allocations have no memory in common.                               *)
LEMMA CellsApart ==
  ASSUME NEW h, NEW lv, NEW over, StrictSound(h, lv, over), NEW i \in DOMAIN lv
  PROVE  /\ lv[i].ptr \in Address /\ lv[i].size \in Size
         /\ \A j \in DOMAIN lv \ {i} : Promise!Cells(lv[i]) \cap Promise!Cells(lv[j]) = {}
<1>1. PICK c : List(h, c) /\ Owned(h, lv, c)
  BY DEF StrictSound
<1>2. PICK p \in 1 .. Len(c) : /\ Old(lv, i) = c[p] /\ lv[i].ptr = c[p] + 2
                               /\ Strict!CellsOf(lv[i]) = DataCells(h, c[p])
                               /\ lv[i].size = h.mem[c[p]].data_len
  BY <1>1, CellsAre
<1>3. lv[i].ptr \in Address /\ lv[i].size \in Size
  <2>1. c[p] \in Blocks /\ c[p] \in Nat /\ h.mem[c[p]].data_len \in Size
    BY <1>1, InChain
  <2>2. SlotSize >= 3 /\ SlotSize \in Nat
    <3>1. Strict!Units(h.mem[c[p]].data_len) \in Nat
          /\ Strict!Units(h.mem[c[p]].data_len) <= SlotSize - 3
      BY <2>1, UnitsFacts
    <3> QED
      BY <3>1, OsAssumption
  <2>3. c[p] + 2 \in c[p] .. c[p] + SlotSize - 1
    BY <2>1, <2>2
  <2>4. c[p] + 2 \in Strict!Address
    BY <2>1, <2>3, BlockFacts
  <2> QED
    BY <1>2, <2>1, <2>4 DEF Strict!Address, Address
<1>4. \A k \in DOMAIN lv : Promise!Cells(lv[k]) = Strict!CellsOf(lv[k])
  BY DEF Promise!Cells, Promise!Units, Strict!CellsOf, Strict!Units
<1>5. ASSUME NEW j \in DOMAIN lv, j # i, NEW a \in Strict!CellsOf(lv[i]), a \in Strict!CellsOf(lv[j])
      PROVE  FALSE
  <2>1. PICK q \in 1 .. Len(c) : Old(lv, j) = c[q] /\ Strict!CellsOf(lv[j]) = DataCells(h, c[q])
    BY <1>1, <1>5, CellsAre
  <2>2. c[p] # c[q]
    BY <1>1, <1>2, <1>5, <2>1, OldApart
  <2>3. c[p] \in Blocks /\ a \in DataCells(h, c[p]) /\ a \in DataCells(h, c[q])
    BY <1>1, <1>2, <1>5, <2>1, InChain
  <2>4. a \in c[p] .. c[p] + SlotSize - 1
    BY <1>1, <2>3, DataPlace
  <2>5. a \notin c[p] .. c[p] + SlotSize - 1
    BY <1>1, <2>2, <2>3, DataPlace
  <2> QED
    BY <2>4, <2>5
<1> QED
  BY <1>3, <1>4, <1>5

(* An allocation given is one that WmemAlloc allows.                       *)
LEMMA GivenApart ==
  ASSUME NEW lv, NEW lv2, Placed(lv2), NEW i, NEW r, lv2 = Strict!With(lv, i, r)
  PROVE  /\ r.ptr \in Address
         /\ \A j \in DOMAIN lv \ {i} : Promise!Cells(r) \cap Promise!Cells(lv[j]) = {}
<1>1. /\ i \in DOMAIN lv2 /\ lv2[i] = r
      /\ \A j \in DOMAIN lv \ {i} : j \in DOMAIN lv2 /\ lv2[j] = lv[j]
  BY DEF Strict!With
<1>2. /\ lv2[i].ptr \in Address
      /\ \A j \in DOMAIN lv2 \ {i} : Promise!Cells(lv2[i]) \cap Promise!Cells(lv2[j]) = {}
  BY <1>1 DEF Placed
<1> QED
  BY <1>1, <1>2

(* What they see of one more, one less and none.                           *)
LEMMA FullPut ==
  ASSUME NEW lv, NEW i, NEW r, NEW old, \A u \in DOMAIN old : old[u] = i
  PROVE  Full(Strict!With(lv, i, r)) = Promise!Put(Full(lv), i, Promise!Written(i, r.size, old))
<1> DEFINE lv2 == Strict!With(lv, i, r)
           w == [u \in 0 .. Units(r.size) - 1 |-> i]
<1>1. Promise!Written(i, r.size, old) = w
  BY DEF Promise!Written, Promise!Units, Units
<1>2. /\ DOMAIN lv2 = DOMAIN lv \cup {i} /\ lv2[i] = r
      /\ \A k \in DOMAIN lv2 : k # i => k \in DOMAIN lv /\ lv2[k] = lv[k]
  BY DEF Strict!With
<1> HIDE DEF lv2
<1>3. Full(lv2) = [k \in DOMAIN lv \cup {i} |-> IF k = i THEN w ELSE Full(lv)[k]]
  BY <1>2 DEF Full
<1> HIDE DEF w
<1>4. DOMAIN Full(lv) = DOMAIN lv
  BY DEF Full
<1> QED
  BY <1>1, <1>3, <1>4 DEF Promise!Put, lv2

LEMMA FullDrop ==
  ASSUME NEW lv, NEW i
  PROVE  Full(Strict!Without(lv, {i})) = Promise!Drop(Full(lv), {i})
<1> DEFINE lv2 == Strict!Without(lv, {i})
<1>1. DOMAIN lv2 = DOMAIN lv \ {i} /\ \A k \in DOMAIN lv2 : lv2[k] = lv[k]
  BY DEF Strict!Without
<1>2. DOMAIN Full(lv) = DOMAIN lv
  BY DEF Full
<1> HIDE DEF lv2
<1>3. Full(lv2) = [k \in DOMAIN lv \ {i} |-> Full(lv)[k]]
  BY <1>1 DEF Full
<1> QED
  BY <1>2, <1>3 DEF Promise!Drop, lv2

LEMMA FullNone == Full(<< >>) = << >>
BY DEF Full

(* What hands out an allocation, moves or drops one is a step of WmemAlloc *)
(* when each allocation, before and after it, holds its own mark.          *)
Seen == Placed(live') /\ Content(heap, live) = Full(live) /\ Content(heap', live') = Full(live')

LEMMA AllocPromised ==
  ASSUME Seen, NEW i, i \notin DOMAIN live, NEW size \in Size,
         NEW r, r = [ptr |-> r.ptr, size |-> size], live' = Strict!With(live, i, r)
  PROVE  Promise!Alloc(i, size)
<1>1. r.size = size
  OBVIOUS
<1>2. /\ r.ptr \in Address
      /\ \A j \in DOMAIN live \ {i} : Promise!Cells(r) \cap Promise!Cells(live[j]) = {}
  BY GivenApart DEF Seen
<1>3. live' = Promise!Put(live, i, r)
  BY DEF Strict!With, Promise!Put
<1>4. \A u \in DOMAIN << >> : << >>[u] = i
  OBVIOUS
<1>5. Full(live') = Promise!Put(Full(live), i, Promise!Written(i, size, << >>))
  BY <1>1, <1>4, FullPut
<1>6. Content(heap', live') = Promise!Put(Content(heap, live), i, Promise!Written(i, size, << >>))
  BY <1>5 DEF Seen
<1> QED
  BY <1>2, <1>3, <1>6 DEF Promise!Alloc, Promise!Live, Promise!ApartFrom, Content

LEMMA ReallocPromised ==
  ASSUME Seen, NEW i \in DOMAIN live, NEW size \in Size,
         NEW r, r = [ptr |-> r.ptr, size |-> size], live' = Strict!With(live, i, r)
  PROVE  Promise!Realloc(i, size)
<1>1. r.size = size
  OBVIOUS
<1>2. /\ r.ptr \in Address
      /\ \A j \in DOMAIN live \ {i} : Promise!Cells(r) \cap Promise!Cells(live[j]) = {}
  BY GivenApart DEF Seen
<1>3. live' = Promise!Put(live, i, r)
  BY DEF Strict!With, Promise!Put
<1>4. \A u \in DOMAIN Full(live)[i] : Full(live)[i][u] = i
  BY DEF Full
<1>5. Full(live') = Promise!Put(Full(live), i, Promise!Written(i, size, Full(live)[i]))
  BY <1>1, <1>4, FullPut
<1>6. Content(heap', live')
        = Promise!Put(Content(heap, live), i, Promise!Written(i, size, Content(heap, live)[i]))
  BY <1>5 DEF Seen
<1> QED
  BY <1>2, <1>3, <1>6 DEF Promise!Realloc, Promise!Live, Promise!ApartFrom, Content

LEMMA FreePromised ==
  ASSUME Seen, NEW i \in DOMAIN live, live' = Strict!Without(live, {i})
  PROVE  Promise!Free(i)
<1>1. live' = Promise!Drop(live, {i})
  BY DEF Strict!Without, Promise!Drop
<1>2. Content(heap', live') = Promise!Drop(Content(heap, live), {i})
  BY FullDrop DEF Seen
<1> QED
  BY <1>1, <1>2 DEF Promise!Free, Promise!Live, Content

LEMMA FreeAllPromised ==
  ASSUME Seen, live' = << >> PROVE Promise!FreeAll
<1>1. Content(heap', live') = << >>
  BY FullNone DEF Seen
<1> QED
  BY <1>1 DEF Promise!FreeAll, Content

(* What changes no allocation changes nothing that users see.              *)
LEMMA NothingPromised ==
  ASSUME Seen, live' = live PROVE UNCHANGED Promise!vars
<1>1. Content(heap', live') = Content(heap, live)
  BY DEF Seen
<1> QED
  BY <1>1 DEF Promise!vars, Content

(* What is stored is part of the invariant.                                *)
StrictHolding == OfStrict => StrictInv /\ Mine(heap, live)

(* It holds at first, and each step keeps it and is one of WmemAlloc.      *)
LEMMA InitHolding == Init => StrictHolding
<1> SUFFICES ASSUME Init, OfStrict PROVE StrictHolding
  BY DEF StrictHolding
<1>1. Strict!Init
  BY DEF Init, OfBlock, OfFast, OfSimple, OfStrict
<1>2. live = << >>
  BY <1>1 DEF Strict!Init
<1> QED
  BY <1>2, InitStrict DEF StrictHolding, Mine

LEMMA StepHolding ==
  StrictHolding /\ [Next]_vars => /\ StrictHolding'
                                  /\ OfStrict => [Promise!Next]_(Promise!vars)
<1> SUFFICES ASSUME StrictHolding, [Next]_vars, OfStrict
             PROVE  /\ StrictInv' /\ Mine(heap', live')
                    /\ [Promise!Next]_(Promise!vars)
  BY DEF StrictHolding, Next, vars, OfBlock, OfFast, OfSimple, OfStrict
<1>1. OfStrict' /\ (Strict!Next \/ UNCHANGED vars)
  BY DEF Next, vars, OfBlock, OfFast, OfSimple, OfStrict
<1>2. StrictInv /\ Mine(heap, live) /\ StrictInv'
  BY StepStrict DEF StrictHolding
<1>3. StrictSound(heap, live, overrun) /\ StrictSound(heap', live', overrun')
  BY <1>1, <1>2 DEF StrictInv
<1>4. Placed(live) /\ Placed(live')
  BY <1>3, CellsApart DEF Placed
<1>5. Mine(heap', live') => Seen
  BY <1>2, <1>4, ContentIs DEF Seen
<1>6. ASSUME live' = live, Mine(heap', live') PROVE [Promise!Next]_(Promise!vars)
  BY <1>5, <1>6, NothingPromised
<1>7. ASSUME live' = << >> PROVE Mine(heap', live') /\ [Promise!Next]_(Promise!vars)
  <2>1. Mine(heap', live')
    BY <1>7 DEF Mine
  <2>2. Promise!FreeAll
    BY <1>5, <1>7, <2>1, FreeAllPromised
  <2> QED
    BY <2>1, <2>2 DEF Promise!Next
<1>8. ASSUME heap' = heap, live' = live PROVE Mine(heap', live') /\ [Promise!Next]_(Promise!vars)
  BY <1>2, <1>6, <1>8
<1>9. CASE UNCHANGED vars
  BY <1>2, <1>8, <1>9 DEF vars
<1>10. ASSUME NEW i \in Id, NEW size \in Size, Strict!Alloc(i, size)
       PROVE  Mine(heap', live') /\ [Promise!Next]_(Promise!vars)
  <2>1. Mine(heap', live')
    BY <1>2, <1>3, <1>10, AllocMine
  <2>2. Promise!Alloc(i, size)
    <3> DEFINE r == [ptr |-> Strict!StrictAlloc(heap, size).ptr, size |-> size]
    <3>1. i \notin DOMAIN live /\ live' = Strict!With(live, i, r)
      BY <1>10 DEF Strict!Alloc, Strict!HandedOut
    <3>2. r = [ptr |-> r.ptr, size |-> size]
      OBVIOUS
    <3> HIDE DEF r
    <3> QED
      BY <1>5, <2>1, <3>1, <3>2, AllocPromised
  <2> QED
    BY <2>1, <2>2 DEF Promise!Next
<1>11. ASSUME NEW i \in Id, NEW size \in Size, Strict!Realloc(i, size)
       PROVE  Mine(heap', live') /\ [Promise!Next]_(Promise!vars)
  <2>1. Mine(heap', live')
    BY <1>2, <1>3, <1>11, ReallocMine
  <2>2. Promise!Realloc(i, size)
    <3> DEFINE r == [ptr |-> Strict!StrictAlloc(heap, size).ptr, size |-> size]
    <3>1. i \in DOMAIN live /\ live' = Strict!With(live, i, r)
      BY <1>11 DEF Strict!Realloc, Strict!HandedOut, Strict!Moved
    <3>2. r = [ptr |-> r.ptr, size |-> size]
      OBVIOUS
    <3> HIDE DEF r
    <3> QED
      BY <1>5, <2>1, <3>1, <3>2, ReallocPromised
  <2> QED
    BY <2>1, <2>2 DEF Promise!Next
<1>12. ASSUME NEW i \in Id, Strict!Free(i)
       PROVE  Mine(heap', live') /\ [Promise!Next]_(Promise!vars)
  <2>1. Mine(heap', live')
    BY <1>2, <1>3, <1>12, FreeMine
  <2>2. Promise!Free(i)
    BY <1>5, <1>12, <2>1, FreePromised DEF Strict!Free
  <2> QED
    BY <2>1, <2>2 DEF Promise!Next
<1>13. ASSUME NEW i \in Id, Strict!Overrun(i)
       PROVE  Mine(heap', live') /\ [Promise!Next]_(Promise!vars)
  <2>1. Mine(heap', live')
    BY <1>2, <1>3, <1>13, OverrunMine
  <2>2. live' = live
    BY <1>13 DEF Strict!Overrun
  <2> QED
    BY <1>6, <2>1, <2>2
<1>14. ASSUME NEW i \in Id, Strict!FreeAsserts(i)
       PROVE  Mine(heap', live') /\ [Promise!Next]_(Promise!vars)
  BY <1>8, <1>14 DEF Strict!FreeAsserts
<1>15. CASE Strict!CheckCanaries
  BY <1>2, <1>8, <1>15 DEF Strict!CheckCanaries
<1>16. CASE Strict!FreeAll \/ Strict!Destroy
  <2>1. PICK done : done = Strict!FreeAllBlocks(heap)
    OBVIOUS
  <2>2. /\ heap' = (IF done.asserted THEN heap ELSE done.heap)
        /\ live' = (IF done.asserted THEN live ELSE << >>)
    BY <1>16, <2>1 DEF Strict!FreeAll, Strict!Destroy
  <2> QED
    BY <1>2, <1>7, <1>8, <2>2
<1>17. CASE Strict!Create
  <2>1. live' = live /\ ~created /\ heap' = [heap EXCEPT !.blocks = 0]
    BY <1>17 DEF Strict!Create, Strict!Null
  <2>2. PICK c : List(heap, c)
    BY <1>3 DEF StrictSound
  <2>3. heap.os = {}
    BY <1>2, <2>1 DEF StrictInv
  <2>4. heap.blocks = 0 /\ Shaped(heap)
    BY <2>2, <2>3, EmptyList DEF List
  <2>5. heap' = heap
    BY <2>1, <2>4 DEF Shaped
  <2> QED
    BY <1>2, <1>8, <2>1, <2>5
<1> QED
  <2>1. \/ UNCHANGED vars
        \/ \E i \in Id, size \in Size : Strict!Alloc(i, size)
        \/ \E i \in Id, size \in Size : Strict!Realloc(i, size)
        \/ \E i \in Id : Strict!Free(i)
        \/ \E i \in Id : Strict!FreeAsserts(i)
        \/ \E i \in Id : Strict!Overrun(i)
        \/ Strict!CheckCanaries \/ Strict!FreeAll \/ Strict!Destroy \/ Strict!Create
    BY <1>1 DEF Strict!Next
  <2>2. Mine(heap', live') /\ [Promise!Next]_(Promise!vars)
    BY <1>9, <1>10, <1>11, <1>12, <1>13, <1>14, <1>15, <1>16, <1>17, <2>1
  <2> QED
    BY <1>2, <2>2

(* The strict allocator implements WmemAlloc, as KeepsPromise maps it,     *)
(* whatever is written beside the data of allocations: what it hands out   *)
(* overlaps nothing, and what users stored stays, through every realloc.   *)
THEOREM StrictKeepsPromise == OfStrict /\ Spec => KeepsPromise
<1>1. Init => StrictHolding
  BY InitHolding
<1>2. StrictHolding /\ [Next]_vars => StrictHolding'
  BY StepHolding
<1>3. StrictHolding /\ [Next]_vars /\ OfStrict => [Promise!Next]_(Promise!vars)
  BY StepHolding
<1>4. OfStrict /\ [Next]_vars => OfStrict'
  BY DEF Next, vars, OfBlock, OfFast, OfSimple, OfStrict
<1>5. OfStrict /\ Init => Promise!Init
  <2> SUFFICES ASSUME OfStrict, Init PROVE Promise!Init
    OBVIOUS
  <2>1. Strict!Init
    BY DEF Init, OfBlock, OfFast, OfSimple, OfStrict
  <2>2. live = << >>
    BY <2>1 DEF Strict!Init
  <2>3. [i \in DOMAIN live |-> Held(heap, live[i], 0)] = << >>
    BY <2>2
  <2> QED
    BY <2>2, <2>3 DEF Promise!Init
<1> QED
  BY <1>1, <1>2, <1>3, <1>4, <1>5, PTL DEF Spec, KeepsPromise, Promise!Spec

-----------------------------------------------------------------------------
(***************************************************************************)
(* The simple allocator: its array and what is stored.                     *)
(***************************************************************************)

(* Both allocators stand on the same memory.                               *)
LEMMA SameOs ==
  /\ Simple!Slot = Strict!Slot /\ Simple!Address = Strict!Address
  /\ \A s : Simple!Base(s) = Strict!Base(s)
  /\ \A b : Simple!SlotOf(b) = Strict!SlotOf(b)
  /\ \A s : Simple!SlotCells(s) = Strict!SlotCells(s)
  /\ \A n : Simple!Units(n) = Strict!Units(n)
  /\ \A r : Simple!CellsOf(r) = Strict!CellsOf(r)
  /\ \A i : Simple!Data(i) = Strict!Data(i)
BY DEF Simple!Slot, Strict!Slot, Simple!Address, Strict!Address, Simple!Base, Strict!Base,
       Simple!SlotOf, Strict!SlotOf, Simple!SlotCells, Strict!SlotCells, Simple!Units, Strict!Units,
       Simple!CellsOf, Strict!CellsOf, Simple!Data, Strict!Data

(* The simple allocator's state, the entries of its array that are in use, *)
(* and that they are the blocks the OS gave out, once each.                *)
Array(h) ==
  /\ h = [mem |-> h.mem, os |-> h.os, ptrs |-> h.ptrs, count |-> h.count, size |-> h.size]
  /\ h.mem = [a \in Strict!Address |-> h.mem[a]]
  /\ h.os \in SUBSET Strict!Slot
  /\ h.size \in Nat \ {0} /\ h.count \in 0 .. h.size
  /\ h.ptrs \in [0 .. h.size - 1 -> Strict!Address \cup {0}]
InUse(h) == 0 .. h.count - 1
Listed(h) ==
  /\ Array(h)
  /\ \A k \in InUse(h) : h.ptrs[k] \in Blocks
  /\ \A j, k \in InUse(h) : h.ptrs[j] = h.ptrs[k] => j = k
  /\ \A s \in Strict!Slot : s \in h.os <=> \E k \in InUse(h) : h.ptrs[k] = Strict!Base(s)

(* They are the pointers of the live allocations.                          *)
Named(h, lv) ==
  /\ DOMAIN lv \subseteq Id /\ IsFiniteSet(DOMAIN lv) /\ h.count = Cardinality(DOMAIN lv)
  /\ \A i \in DOMAIN lv : /\ lv[i] = [ptr |-> lv[i].ptr, size |-> lv[i].size]
                          /\ lv[i].size \in Size
                          /\ \E k \in InUse(h) : lv[i].ptr = h.ptrs[k]
  /\ \A k \in InUse(h) : \E i \in DOMAIN lv : lv[i].ptr = h.ptrs[k]
  /\ \A i, j \in DOMAIN lv : lv[i].ptr = lv[j].ptr => i = j

(* What only writes to memory keeps both.                                  *)
LEMMA MemOnly ==
  ASSUME NEW h, Listed(h), NEW m, m = [a \in Strict!Address |-> m[a]], NEW lv
  PROVE  LET h2 == [h EXCEPT !.mem = m]
         IN  /\ Listed(h2) /\ h2.mem = m /\ h2.count = h.count /\ h2.ptrs = h.ptrs
             /\ Named(h, lv) => Named(h2, lv)
<1> DEFINE h2 == [h EXCEPT !.mem = m]
<1>1. Array(h)
  BY DEF Listed
<1>2. h2 = [mem |-> m, os |-> h.os, ptrs |-> h.ptrs, count |-> h.count, size |-> h.size]
  BY <1>1 DEF Array
<1> HIDE DEF h2
<1>3. /\ h2.mem = m /\ h2.os = h.os /\ h2.ptrs = h.ptrs /\ h2.count = h.count /\ h2.size = h.size
      /\ h2 = [mem |-> h2.mem, os |-> h2.os, ptrs |-> h2.ptrs, count |-> h2.count, size |-> h2.size]
  BY <1>2
<1>4. Array(h2)
  BY <1>1, <1>3 DEF Array
<1>5. Listed(h2)
  BY <1>3, <1>4 DEF Listed, InUse
<1>6. Named(h, lv) => Named(h2, lv)
  BY <1>3 DEF Named, InUse
<1> QED
  BY <1>3, <1>5, <1>6 DEF h2

(* A free slot is none of theirs.                                          *)
LEMMA NotListed ==
  ASSUME NEW h, Listed(h), NEW s \in Strict!Slot, s \notin h.os
  PROVE  Strict!Base(s) \in Blocks /\ \A k \in InUse(h) : h.ptrs[k] # Strict!Base(s)
BY DEF Listed, Blocks

(* The array has a place free after WithRoom.                              *)
LEMMA RoomIs ==
  ASSUME NEW h, Array(h)
  PROVE  LET g == Simple!WithRoom(h)
         IN  /\ Array(g) /\ g.mem = h.mem /\ g.os = h.os /\ g.count = h.count /\ g.count < g.size
             /\ \A k \in InUse(h) : g.ptrs[k] = h.ptrs[k]
<1> DEFINE g == Simple!WithRoom(h)
<1>1. CASE h.count # h.size
  <2>1. g = h
    BY <1>1 DEF Simple!WithRoom
  <2> HIDE DEF g
  <2>2. h.count < h.size
    BY <1>1 DEF Array
  <2> QED
    BY <2>1, <2>2 DEF g
<1>2. CASE h.count = h.size
  <2> DEFINE p == [k \in 0 .. 2 * h.size - 1 |-> IF k < h.size THEN h.ptrs[k] ELSE 0]
  <2>1. g = [h EXCEPT !.size = 2 * h.size, !.ptrs = p]
    BY <1>2 DEF Simple!WithRoom, Simple!Null, Array
  <2>2. g = [mem |-> h.mem, os |-> h.os, ptrs |-> p, count |-> h.count, size |-> 2 * h.size]
    <3> HIDE DEF g, p
    <3> QED
      BY <2>1 DEF Array
  <2>3. h.size \in Nat \ {0} /\ 2 * h.size \in Nat \ {0} /\ h.count = h.size /\ h.size < 2 * h.size
    BY <1>2 DEF Array
  <2>4. p \in [0 .. 2 * h.size - 1 -> Strict!Address \cup {0}]
    <3>1. ASSUME NEW k \in 0 .. 2 * h.size - 1, k < h.size PROVE h.ptrs[k] \in Strict!Address \cup {0}
      <4>1. k \in 0 .. h.size - 1
        BY <2>3, <3>1
      <4> QED
        BY <4>1 DEF Array
    <3> QED
      BY <3>1
  <2>5. ASSUME NEW k \in InUse(h) PROVE p[k] = h.ptrs[k]
    <3>1. k \in 0 .. 2 * h.size - 1 /\ k < h.size
      BY <2>3 DEF InUse
    <3> QED
      BY <3>1
  <2> HIDE DEF g, p
  <2>6. /\ g.mem = h.mem /\ g.os = h.os /\ g.ptrs = p /\ g.count = h.count /\ g.size = 2 * h.size
        /\ g = [mem |-> g.mem, os |-> g.os, ptrs |-> g.ptrs, count |-> g.count, size |-> g.size]
    BY <2>2
  <2>7. h.count \in 0 .. 2 * h.size
    BY <2>3
  <2>8. Array(g)
    BY <2>3, <2>4, <2>6, <2>7 DEF Array
  <2>9. \A k \in InUse(h) : g.ptrs[k] = h.ptrs[k]
    BY <2>5, <2>6
  <2> QED
    BY <2>3, <2>6, <2>8, <2>9 DEF g
<1> QED
  BY <1>1, <1>2

(* An alloc puts a block of its own behind the others.                     *)
LEMMA SimpleAllocIs ==
  ASSUME NEW h, Listed(h), NEW size, Simple!FreeSlots(h) # {}
  PROVE  LET n == Simple!SimpleAlloc(h, size)
         IN  /\ Listed(n.heap) /\ n.heap.mem = h.mem /\ n.heap.count = h.count + 1
             /\ n.ptr \in Blocks /\ n.heap.ptrs[h.count] = n.ptr
             /\ \A k \in InUse(h) : n.heap.ptrs[k] = h.ptrs[k] /\ h.ptrs[k] # n.ptr
<1> DEFINE g == Simple!WithRoom(h)
           s == Simple!NewSlot(g)
           b == Strict!Base(s)
           q == [g.ptrs EXCEPT ![g.count] = b]
           n == Simple!SimpleAlloc(h, size)
           h2 == n.heap
<1>1. Array(h)
  BY DEF Listed
<1>2. /\ Array(g) /\ g.mem = h.mem /\ g.os = h.os /\ g.count = h.count /\ g.count < g.size
      /\ \A k \in InUse(h) : g.ptrs[k] = h.ptrs[k]
  BY <1>1, RoomIs
<1>3. s \in Strict!Slot /\ s \notin h.os
  <2>1. Simple!FreeSlots(g) = Strict!FreeSlots(h) /\ Simple!FreeSlots(h) = Strict!FreeSlots(h)
    BY <1>2, SameOs DEF Simple!FreeSlots, Strict!FreeSlots
  <2>2. s = Strict!NewSlot(h)
    BY <2>1 DEF Simple!NewSlot, Strict!NewSlot
  <2>3. s \in Strict!FreeSlots(h)
    BY <2>1, <2>2, NewSlotFree
  <2> QED
    BY <2>3 DEF Strict!FreeSlots
<1> HIDE DEF g, s
<1>4. n = [heap |-> [Simple!OsTake(g, s) EXCEPT !.ptrs[g.count] = b, !.count = @ + 1], ptr |-> b]
  BY SameOs, Zenon DEF Simple!SimpleAlloc, g, s
<1>5. Simple!OsTake(g, s) = [mem |-> g.mem, os |-> g.os \cup {s}, ptrs |-> g.ptrs, count |-> g.count, size |-> g.size]
  <2>1. g = [mem |-> g.mem, os |-> g.os, ptrs |-> g.ptrs, count |-> g.count, size |-> g.size]
    BY <1>2 DEF Array
  <2> QED
    BY <2>1 DEF Simple!OsTake
<1>6. h2 = [mem |-> g.mem, os |-> g.os \cup {s}, ptrs |-> q, count |-> g.count + 1, size |-> g.size]
  <2> DEFINE o == Simple!OsTake(g, s)
  <2>1. n.heap = [o EXCEPT !.ptrs[g.count] = b, !.count = @ + 1]
    BY <1>4
  <2> HIDE DEF n, o, b
  <2>2. n.heap = [o EXCEPT !.ptrs = [o.ptrs EXCEPT ![g.count] = b], !.count = o.count + 1]
    BY <1>5, <2>1 DEF o
  <2>3. o.ptrs = g.ptrs /\ o.count = g.count
    BY <1>5 DEF o
  <2>4. n.heap = [o EXCEPT !.ptrs = q, !.count = g.count + 1]
    BY <2>2, <2>3
  <2>5. o = [mem |-> g.mem, os |-> g.os \cup {s}, ptrs |-> g.ptrs, count |-> g.count, size |-> g.size]
    BY <1>5 DEF o
  <2> HIDE DEF q
  <2> QED
    BY <2>4, <2>5
<1>7. n.ptr = b
  BY <1>4
<1>8. b \in Blocks /\ \A k \in InUse(h) : h.ptrs[k] # b
  BY <1>3, NotListed
<1>9. b \in Strict!Address
  <2>1. b \in Nat /\ SlotSize \in Nat \ {0}
    BY <1>8, BlockFacts, OsAssumption
  <2>2. b \in b .. b + SlotSize - 1
    BY <2>1
  <2> QED
    BY <1>8, <2>2, BlockFacts
<1>10. /\ g.count \in Nat /\ g.size \in Nat \ {0} /\ g.count \in 0 .. g.size - 1 /\ g.count + 1 \in 0 .. g.size
       /\ g.ptrs \in [0 .. g.size - 1 -> Strict!Address \cup {0}]
  BY <1>2 DEF Array
<1>11. /\ q \in [0 .. g.size - 1 -> Strict!Address \cup {0}] /\ q[g.count] = b
       /\ \A k \in 0 .. g.count - 1 : q[k] = g.ptrs[k]
  <2> HIDE DEF b
  <2> QED
    BY <1>9, <1>10
<1> HIDE DEF q, h2, n
<1>12. /\ h2.mem = g.mem /\ h2.os = g.os \cup {s} /\ h2.ptrs = q /\ h2.count = g.count + 1 /\ h2.size = g.size
       /\ h2 = [mem |-> h2.mem, os |-> h2.os, ptrs |-> h2.ptrs, count |-> h2.count, size |-> h2.size]
  BY <1>6
<1>13. Array(h2)
  <2>1. h2.os \in SUBSET Strict!Slot
    BY <1>2, <1>3, <1>12 DEF Array
  <2>2. h2.mem = [a \in Strict!Address |-> h2.mem[a]]
    BY <1>2, <1>12 DEF Array
  <2> QED
    BY <1>10, <1>11, <1>12, <2>1, <2>2 DEF Array
<1>14. /\ \A k \in InUse(h2) : k = h.count \/ k \in InUse(h)
       /\ h.count \in InUse(h2) /\ InUse(h) \subseteq InUse(h2) /\ h.count \notin InUse(h)
  BY <1>2, <1>10, <1>12 DEF InUse
<1>15. h2.ptrs[h.count] = b /\ \A k \in InUse(h) : h2.ptrs[k] = h.ptrs[k]
  BY <1>2, <1>11, <1>12 DEF InUse
<1>16. \A k \in InUse(h2) : h2.ptrs[k] \in Blocks
  BY <1>8, <1>14, <1>15 DEF Listed
<1>17. \A j, k \in InUse(h2) : h2.ptrs[j] = h2.ptrs[k] => j = k
  BY <1>8, <1>14, <1>15 DEF Listed
<1>18. ASSUME NEW t \in Strict!Slot PROVE t \in h2.os <=> \E k \in InUse(h2) : h2.ptrs[k] = Strict!Base(t)
  <2>1. t \in h2.os <=> t = s \/ t \in h.os
    BY <1>2, <1>12
  <2>2. t = s <=> Strict!Base(t) = b
    BY <1>3, SlotFacts
  <2>3. t \in h.os <=> \E k \in InUse(h) : h.ptrs[k] = Strict!Base(t)
    BY DEF Listed
  <2> HIDE DEF b
  <2> QED
    BY <1>14, <1>15, <2>1, <2>2, <2>3
<1>19. Listed(h2)
  BY <1>13, <1>16, <1>17, <1>18 DEF Listed
<1> QED
  BY <1>2, <1>7, <1>8, <1>12, <1>15, <1>19 DEF h2, n

(* Free and realloc find what they are given.                              *)
LEMMA PlaceIs ==
  ASSUME NEW h, Listed(h), NEW k \in InUse(h)
  PROVE  Simple!Max(Simple!Places(h, h.ptrs[k], h.count)) = k
<1>1. h.count \in Nat /\ k \in Nat
  BY DEF Listed, Array, InUse
<1>2. Simple!Places(h, h.ptrs[k], h.count) = {k}
  BY DEF Simple!Places, Listed, InUse
<1>3. \A x \in {k} : k >= x
  BY <1>1
<1> QED
  BY <1>2, <1>3 DEF Simple!Max

(* A free takes one of them away, and its block.                           *)
LEMMA SimpleFreeIs ==
  ASSUME NEW h, Listed(h), NEW k \in InUse(h)
  PROVE  LET b == h.ptrs[k]
             h2 == Simple!SimpleFree(h, b)
         IN  /\ Listed(h2) /\ h2.count = h.count - 1
             /\ \A j \in InUse(h2) : h2.ptrs[j] # b /\ \E i \in InUse(h) : h2.ptrs[j] = h.ptrs[i]
             /\ \A i \in InUse(h) : i # k => \E j \in InUse(h2) : h2.ptrs[j] = h.ptrs[i]
             /\ \A a \in Strict!Address : a \notin b .. b + SlotSize - 1 => h2.mem[a] = h.mem[a]
<1> DEFINE b == h.ptrs[k]
           h2 == Simple!SimpleFree(h, b)
           last == h.count - 1
           q == [h.ptrs EXCEPT ![k] = h.ptrs[last]]
           t == Strict!SlotOf(b)
           m == [a \in Strict!Address |-> IF a \in Strict!SlotCells(t) THEN Simple!Junk ELSE h.mem[a]]
           o == Simple!OsFree(h, b)
<1>1. Array(h) /\ b \in Blocks
  BY DEF Listed
<1>2. /\ h.count \in Nat /\ h.count >= 1 /\ h.size \in Nat \ {0} /\ h.count <= h.size
      /\ k \in 0 .. h.count - 1 /\ last \in 0 .. h.count - 1 /\ last \in Nat /\ h.count = last + 1
      /\ InUse(h) = 0 .. last
      /\ h.ptrs \in [0 .. h.size - 1 -> Strict!Address \cup {0}]
  BY <1>1 DEF Array, InUse
<1>3. o = [mem |-> m, os |-> h.os \ {t}, ptrs |-> h.ptrs, count |-> h.count, size |-> h.size]
  <2>1. o = [h EXCEPT !.os = @ \ {t}, !.mem = m]
    <3>1. Simple!SlotOf(b) = t /\ Simple!Address = Strict!Address
          /\ Simple!SlotCells(t) = Strict!SlotCells(t)
      BY SameOs
    <3> HIDE DEF t, b
    <3> QED
      BY <1>1, <3>1 DEF Simple!OsFree, Array
  <2>2. h = [mem |-> h.mem, os |-> h.os, ptrs |-> h.ptrs, count |-> h.count, size |-> h.size]
    BY <1>1 DEF Array
  <2> HIDE DEF o, m, t
  <2> QED
    BY <2>1, <2>2
<1>4. h2 = [mem |-> m, os |-> h.os \ {t}, ptrs |-> q, count |-> last, size |-> h.size]
  <2>1. h2 = [o EXCEPT !.count = @ - 1, !.ptrs[k] = h.ptrs[last]]
    <3>1. Simple!Max(Simple!Places(h, b, h.count)) = k
      BY PlaceIs
    <3> HIDE DEF b
    <3> QED
      BY <3>1, Zenon DEF Simple!SimpleFree
  <2> HIDE DEF h2, o, b, m
  <2>2. h2 = [o EXCEPT !.count = o.count - 1, !.ptrs = [o.ptrs EXCEPT ![k] = h.ptrs[last]]]
    BY <1>3, <2>1
  <2>3. o.ptrs = h.ptrs /\ o.count = h.count
    BY <1>3
  <2>4. h2 = [o EXCEPT !.count = last, !.ptrs = q]
    BY <2>2, <2>3
  <2> HIDE DEF q, last
  <2> QED
    BY <1>3, <2>4
<1>5. /\ q \in [0 .. h.size - 1 -> Strict!Address \cup {0}]
      /\ \A j \in 0 .. h.size - 1 : q[j] = h.ptrs[IF j = k THEN last ELSE j]
  <2>1. last \in 0 .. h.size - 1 /\ k \in 0 .. h.size - 1
    BY <1>2
  <2> HIDE DEF last
  <2> QED
    BY <1>2, <2>1
<1>6. \A a \in Strict!Address : a \notin b .. b + SlotSize - 1 => m[a] = h.mem[a]
  <2>1. Strict!SlotCells(t) = b .. b + SlotSize - 1
    BY <1>1, BlockFacts
  <2> HIDE DEF t, b
  <2> QED
    BY <2>1
<1>7. m = [a \in Strict!Address |-> m[a]]
  OBVIOUS
<1>8. t \in Strict!Slot /\ Strict!Base(t) = b
  BY <1>1, BlockFacts
<1> HIDE DEF h2, q, m, o, b, t
<1>9. /\ h2.mem = m /\ h2.os = h.os \ {t} /\ h2.ptrs = q /\ h2.count = last /\ h2.size = h.size
      /\ h2 = [mem |-> h2.mem, os |-> h2.os, ptrs |-> h2.ptrs, count |-> h2.count, size |-> h2.size]
  BY <1>4
<1>10. Array(h2)
  <2>1. h2.os \in SUBSET Strict!Slot
    BY <1>1, <1>9 DEF Array
  <2>2. h2.count \in 0 .. h2.size
    BY <1>2, <1>9
  <2> QED
    BY <1>2, <1>5, <1>7, <1>9, <2>1, <2>2 DEF Array
<1>11. \A j \in InUse(h2) : /\ j \in 0 .. h.size - 1 /\ j # last
                            /\ (IF j = k THEN last ELSE j) \in InUse(h)
                            /\ (IF j = k THEN last ELSE j) # k
  BY <1>2, <1>9 DEF InUse
<1>12. \A j \in InUse(h2) : h2.ptrs[j] = h.ptrs[IF j = k THEN last ELSE j]
  BY <1>5, <1>9, <1>11
<1>13. \A i \in InUse(h) : i # k => \E j \in InUse(h2) : h2.ptrs[j] = h.ptrs[i]
  <2> SUFFICES ASSUME NEW i \in InUse(h), i # k PROVE \E j \in InUse(h2) : h2.ptrs[j] = h.ptrs[i]
    OBVIOUS
  <2>1. CASE i = last
    <3>1. k \in InUse(h2)
      BY <1>2, <1>9, <2>1 DEF InUse
    <3> QED
      BY <1>12, <2>1, <3>1
  <2>2. CASE i # last
    <3>1. i \in InUse(h2)
      BY <1>2, <1>9, <2>2 DEF InUse
    <3> QED
      BY <1>12, <3>1
  <2> QED
    BY <2>1, <2>2
<1> HIDE DEF last
<1>14. \A i, j \in InUse(h) : h.ptrs[i] = h.ptrs[j] => i = j
  BY DEF Listed
<1>15. \A j \in InUse(h2) : h2.ptrs[j] # b /\ \E i \in InUse(h) : h2.ptrs[j] = h.ptrs[i]
  BY <1>11, <1>12, <1>14 DEF b
<1>16. \A j \in InUse(h2) : h2.ptrs[j] \in Blocks
  BY <1>15 DEF Listed
<1>17. \A i, j \in InUse(h2) : h2.ptrs[i] = h2.ptrs[j] => i = j
  <2> SUFFICES ASSUME NEW i \in InUse(h2), NEW j \in InUse(h2), h2.ptrs[i] = h2.ptrs[j] PROVE i = j
    OBVIOUS
  <2>1. (IF i = k THEN last ELSE i) = (IF j = k THEN last ELSE j)
    BY <1>11, <1>12, <1>14
  <2> QED
    BY <1>11, <2>1
<1>18. ASSUME NEW s \in Strict!Slot PROVE s \in h2.os <=> \E j \in InUse(h2) : h2.ptrs[j] = Strict!Base(s)
  <2>1. s \in h2.os <=> s \in h.os /\ s # t
    BY <1>9
  <2>2. s = t <=> Strict!Base(s) = b
    BY <1>8, SlotFacts
  <2>3. s \in h.os <=> \E j \in InUse(h) : h.ptrs[j] = Strict!Base(s)
    BY DEF Listed
  <2>4. b = h.ptrs[k]
    BY DEF b
  <2> QED
    BY <1>13, <1>15, <2>1, <2>2, <2>3, <2>4
<1>19. Listed(h2)
  BY <1>10, <1>16, <1>17, <1>18 DEF Listed
<1> QED
  BY <1>6, <1>9, <1>13, <1>15, <1>19 DEF h2, b, last

(* A realloc puts another block in the place of one, or the same.          *)
LEMMA SimpleReallocIs ==
  ASSUME NEW h, Listed(h), NEW k \in InUse(h), NEW size \in Nat,
         NEW t \in Simple!FreeSlots(h) \cup {Simple!SlotOf(h.ptrs[k])}
  PROVE  LET b == h.ptrs[k]
             d == Simple!Base(t)
             h2 == Simple!SimpleRealloc(h, b, size, t)
         IN  /\ Listed(h2) /\ h2.count = h.count
             /\ d \in Blocks /\ h2.ptrs[k] = d
             /\ \A j \in InUse(h) : j # k => h2.ptrs[j] = h.ptrs[j] /\ h.ptrs[j] # d
             /\ \A a \in Strict!Address :
                  /\ a \in d .. d + SlotSize - 1 /\ a - d < Strict!Units(size) => h2.mem[a] = h.mem[a - d + b]
                  /\ a \notin d .. d + SlotSize - 1 /\ a \notin b .. b + SlotSize - 1 => h2.mem[a] = h.mem[a]
<1> DEFINE b == h.ptrs[k]
           d == Strict!Base(t)
           u == Strict!Units(size)
           s == Strict!SlotOf(b)
           q == [h.ptrs EXCEPT ![k] = d]
           m == [a \in Strict!Address |->
                   IF a \in Strict!SlotCells(t) THEN IF a - d < u THEN h.mem[a - d + b] ELSE Simple!Junk
                   ELSE IF a \in Strict!SlotCells(s) THEN Simple!Junk ELSE h.mem[a]]
           os == (h.os \ {s}) \cup {t}
           o == Simple!OsRealloc(h, b, t, Simple!Units(size))
           h2 == Simple!SimpleRealloc(h, b, size, t)
<1>1. Array(h) /\ b \in Blocks
  BY DEF Listed
<1>2. s \in Strict!Slot /\ Strict!Base(s) = b /\ Strict!SlotCells(s) = b .. b + SlotSize - 1
  BY <1>1, BlockFacts
<1>3. t \in Strict!Slot /\ (t = s \/ t \notin h.os)
  BY <1>2, SameOs DEF Simple!FreeSlots
<1>4. d \in Blocks /\ Strict!SlotCells(t) = d .. d + SlotSize - 1 /\ Strict!SlotOf(d) = t
  <2>1. d \in Blocks /\ Strict!SlotOf(d) = t
    BY <1>3, SlotFacts DEF Blocks
  <2> HIDE DEF d
  <2> QED
    BY <2>1, BlockFacts
<1>5. o = [mem |-> m, os |-> os, ptrs |-> h.ptrs, count |-> h.count, size |-> h.size]
  <2>1. o = [h EXCEPT !.os = os, !.mem = m]
    <3>1. /\ Simple!SlotOf(b) = s /\ Simple!Address = Strict!Address /\ Simple!Units(size) = u
          /\ Simple!SlotCells(t) = Strict!SlotCells(t) /\ Simple!SlotCells(s) = Strict!SlotCells(s)
          /\ Simple!Base(t) = d
      BY SameOs
    <3> HIDE DEF s, b, d, u
    <3> QED
      BY <1>1, <3>1 DEF Simple!OsRealloc, Array
  <2>2. h = [mem |-> h.mem, os |-> h.os, ptrs |-> h.ptrs, count |-> h.count, size |-> h.size]
    BY <1>1 DEF Array
  <2> HIDE DEF o, m, os
  <2> QED
    BY <2>1, <2>2
<1>6. h2 = [mem |-> m, os |-> os, ptrs |-> q, count |-> h.count, size |-> h.size]
  <2>1. h2 = [o EXCEPT !.ptrs[k] = d]
    <3>1. Simple!Max(Simple!Places(h, b, h.count)) = k /\ Simple!Base(t) = d
      BY PlaceIs, SameOs
    <3> HIDE DEF b, d
    <3> QED
      BY <3>1, Zenon DEF Simple!SimpleRealloc
  <2> HIDE DEF h2, o, b, m, d, os
  <2>2. h2 = [o EXCEPT !.ptrs = [o.ptrs EXCEPT ![k] = d]]
    BY <1>5, <2>1
  <2>3. o.ptrs = h.ptrs
    BY <1>5
  <2>4. h2 = [o EXCEPT !.ptrs = q]
    BY <2>2, <2>3
  <2> HIDE DEF q
  <2> QED
    BY <1>5, <2>4
<1>7. h.count \in Nat /\ h.count <= h.size /\ h.size \in Nat \ {0} /\ k \in 0 .. h.size - 1
      /\ InUse(h) \subseteq 0 .. h.size - 1 /\ h.ptrs \in [0 .. h.size - 1 -> Strict!Address \cup {0}]
  BY <1>1 DEF Array, InUse
<1>8. d \in Strict!Address
  <2>1. d \in Nat /\ SlotSize \in Nat \ {0}
    BY <1>4, BlockFacts, OsAssumption
  <2>2. d \in d .. d + SlotSize - 1
    BY <2>1
  <2> HIDE DEF d
  <2> QED
    BY <1>4, <2>2, BlockFacts
<1>9. /\ q \in [0 .. h.size - 1 -> Strict!Address \cup {0}] /\ q[k] = d
      /\ \A j \in InUse(h) : j # k => q[j] = h.ptrs[j]
  <2> HIDE DEF d
  <2> QED
    BY <1>7, <1>8
<1>10. m = [a \in Strict!Address |-> m[a]]
  OBVIOUS
<1>11. \A a \in Strict!Address :
          /\ a \in d .. d + SlotSize - 1 /\ a - d < u => m[a] = h.mem[a - d + b]
          /\ a \notin d .. d + SlotSize - 1 /\ a \notin b .. b + SlotSize - 1 => m[a] = h.mem[a]
  <2> HIDE DEF b, d, u, s
  <2> QED
    BY <1>2, <1>4
<1> HIDE DEF h2, q, m, o, b, d, u, s
<1>12. /\ h2.mem = m /\ h2.os = os /\ h2.ptrs = q /\ h2.count = h.count /\ h2.size = h.size
       /\ h2 = [mem |-> h2.mem, os |-> h2.os, ptrs |-> h2.ptrs, count |-> h2.count, size |-> h2.size]
  BY <1>6
<1>13. InUse(h2) = InUse(h)
  BY <1>12 DEF InUse
<1>14. Array(h2)
  <2>1. h2.os \in SUBSET Strict!Slot
    BY <1>1, <1>3, <1>12 DEF Array
  <2>2. h2.count \in 0 .. h2.size
    BY <1>7, <1>12
  <2> QED
    BY <1>7, <1>9, <1>10, <1>12, <2>1, <2>2 DEF Array
<1>15. ASSUME NEW j \in InUse(h), j # k PROVE h.ptrs[j] # d
  <2>1. h.ptrs[j] # b
    BY <1>15 DEF Listed, b
  <2>2. CASE t = s
    <3>1. d = b
      BY <1>2, <2>2 DEF d
    <3> QED
      BY <2>1, <3>1
  <2>3. CASE t \notin h.os
    BY <1>3, <2>3, NotListed DEF d
  <2> QED
    BY <1>3, <2>2, <2>3
<1>16. \A j \in InUse(h2) : h2.ptrs[j] = IF j = k THEN d ELSE h.ptrs[j]
  BY <1>9, <1>12, <1>13
<1>17. \A j \in InUse(h2) : h2.ptrs[j] \in Blocks
  BY <1>4, <1>13, <1>16 DEF Listed
<1>18. \A i, j \in InUse(h2) : h2.ptrs[i] = h2.ptrs[j] => i = j
  <2>1. \A i, j \in InUse(h) : h.ptrs[i] = h.ptrs[j] => i = j
    BY DEF Listed
  <2> QED
    BY <1>13, <1>15, <1>16, <2>1
<1>19. ASSUME NEW x \in Strict!Slot PROVE x \in h2.os <=> \E j \in InUse(h2) : h2.ptrs[j] = Strict!Base(x)
  <2>1. x \in h2.os <=> (x \in h.os /\ x # s) \/ x = t
    BY <1>12
  <2>2. (x = t <=> Strict!Base(x) = d) /\ (x = s <=> Strict!Base(x) = b)
    <3>1. \A y \in Strict!Slot : x = y <=> Strict!Base(x) = Strict!Base(y)
      BY SlotFacts
    <3> QED
      BY <1>2, <1>3, <3>1 DEF d
  <2>3. x \in h.os <=> \E j \in InUse(h) : h.ptrs[j] = Strict!Base(x)
    BY DEF Listed
  <2>4. b = h.ptrs[k] /\ \A j \in InUse(h) : h.ptrs[j] = b => j = k
    BY DEF b, Listed
  <2>5. ASSUME x \in h2.os PROVE \E j \in InUse(h2) : h2.ptrs[j] = Strict!Base(x)
    <3>1. CASE x = t
      BY <1>13, <1>16, <2>2, <3>1
    <3>2. CASE x # t
      <4>1. PICK j \in InUse(h) : h.ptrs[j] = Strict!Base(x)
        BY <2>1, <2>3, <2>5, <3>2
      <4>2. j # k
        BY <2>1, <2>2, <2>4, <2>5, <3>2, <4>1
      <4> QED
        BY <1>13, <1>16, <4>1, <4>2
    <3> QED
      BY <3>1, <3>2
  <2>6. ASSUME NEW j \in InUse(h2), h2.ptrs[j] = Strict!Base(x) PROVE x \in h2.os
    <3>1. CASE j = k
      BY <1>16, <2>1, <2>2, <2>6, <3>1
    <3>2. CASE j # k
      <4>1. h.ptrs[j] = Strict!Base(x) /\ j \in InUse(h)
        BY <1>13, <1>16, <2>6, <3>2
      <4>2. x # s
        BY <2>2, <2>4, <3>2, <4>1
      <4> QED
        BY <2>1, <2>3, <4>1, <4>2
    <3> QED
      BY <3>1, <3>2
  <2> QED
    BY <2>5, <2>6
<1>20. Listed(h2)
  BY <1>14, <1>17, <1>18, <1>19 DEF Listed
<1>21. d = Simple!Base(t)
  BY SameOs DEF d
<1> QED
  BY <1>4, <1>9, <1>11, <1>12, <1>15, <1>20, <1>21 DEF h2, b, u

(* free_all, after k entries.                                              *)
Returned(h, k) ==
  [h EXCEPT !.os = @ \ {Simple!SlotOf(h.ptrs[j]) : j \in 0 .. k - 1},
            !.mem = [a \in Simple!Address |->
                       IF \E j \in 0 .. k - 1 : a \in Simple!SlotCells(Simple!SlotOf(h.ptrs[j]))
                       THEN Simple!Junk ELSE @[a]]]

LEMMA ReturnedFirst ==
  ASSUME NEW h, Array(h) PROVE Returned(h, 0) = h
<1>1. h = [mem |-> h.mem, os |-> h.os, ptrs |-> h.ptrs, count |-> h.count, size |-> h.size]
      /\ h.mem = [a \in Simple!Address |-> h.mem[a]]
  BY SameOs DEF Array
<1>2. 0 .. 0 - 1 = {}
  OBVIOUS
<1> DEFINE m == [a \in Simple!Address |->
                       IF \E j \in 0 .. 0 - 1 : a \in Simple!SlotCells(Simple!SlotOf(h.ptrs[j]))
                       THEN Simple!Junk ELSE h.mem[a]]
<1>3. m = h.mem
  BY <1>1, <1>2
<1>4. Returned(h, 0) = [h EXCEPT !.os = @ \ {}, !.mem = m]
  BY <1>1, <1>2 DEF Returned
<1> HIDE DEF m
<1>5. h.os \ {} = h.os
  OBVIOUS
<1> QED
  BY <1>1, <1>3, <1>4, <1>5

LEMMA ReturnedNext ==
  ASSUME NEW h, Array(h), NEW k \in Nat
  PROVE  Simple!OsFree(Returned(h, k), h.ptrs[k]) = Returned(h, k + 1)
<1> DEFINE S(n) == {Simple!SlotOf(h.ptrs[j]) : j \in 0 .. n - 1}
           m(n) == [a \in Simple!Address |->
                       IF \E j \in 0 .. n - 1 : a \in Simple!SlotCells(Simple!SlotOf(h.ptrs[j]))
                       THEN Simple!Junk ELSE h.mem[a]]
           t == Simple!SlotOf(h.ptrs[k])
           R(n) == [mem |-> m(n), os |-> h.os \ S(n), ptrs |-> h.ptrs, count |-> h.count, size |-> h.size]
<1>1. h = [mem |-> h.mem, os |-> h.os, ptrs |-> h.ptrs, count |-> h.count, size |-> h.size]
  BY DEF Array
<1>2. ASSUME NEW n \in Nat PROVE Returned(h, n) = R(n)
  <2>1. Returned(h, n) = [h EXCEPT !.os = @ \ S(n), !.mem = m(n)]
    BY <1>1 DEF Returned
  <2> HIDE DEF S, m
  <2> QED
    BY <1>1, <2>1
<1>3. 0 .. (k + 1) - 1 = (0 .. k - 1) \cup {k} /\ k + 1 \in Nat
  OBVIOUS
<1>4. S(k + 1) = S(k) \cup {t}
  BY <1>3
<1>5. m(k + 1) = [a \in Simple!Address |-> IF a \in Simple!SlotCells(t) THEN Simple!Junk ELSE m(k)[a]]
  BY <1>3
<1> DEFINE o == Simple!OsFree(R(k), h.ptrs[k])
<1>6. o = [mem |-> [a \in Simple!Address |-> IF a \in Simple!SlotCells(t) THEN Simple!Junk ELSE m(k)[a]],
           os |-> (h.os \ S(k)) \ {t}, ptrs |-> h.ptrs, count |-> h.count, size |-> h.size]
  <2> DEFINE r == R(k)
             mk == m(k)
             ok == h.os \ S(k)
             m2 == [a \in Simple!Address |-> IF a \in Simple!SlotCells(t) THEN Simple!Junk ELSE mk[a]]
  <2>1. r = [mem |-> mk, os |-> ok, ptrs |-> h.ptrs, count |-> h.count, size |-> h.size]
    OBVIOUS
  <2> HIDE DEF r, mk, ok
  <2>2. Simple!OsFree(r, h.ptrs[k]) = [r EXCEPT !.os = ok \ {t}, !.mem = m2]
    BY <2>1 DEF Simple!OsFree
  <2> HIDE DEF t, m2
  <2>3. Simple!OsFree(r, h.ptrs[k])
          = [mem |-> m2, os |-> ok \ {t}, ptrs |-> h.ptrs, count |-> h.count, size |-> h.size]
    BY <2>1, <2>2
  <2> QED
    BY <2>3 DEF r, mk, ok, m2
<1>7. (h.os \ S(k)) \ {t} = h.os \ S(k + 1)
  BY <1>4
<1> HIDE DEF S, m, t
<1>8. o = R(k + 1)
  BY <1>5, <1>6, <1>7
<1> QED
  BY <1>2, <1>3, <1>8

LEMMA FreeAllPtrsIs ==
  ASSUME NEW h, Array(h)
  PROVE  Simple!FreeAllPtrs(h) = [Returned(h, h.count) EXCEPT !.count = 0]
<1> DEFINE n == h.count
           P(g) == g = [k \in 0 .. n |-> IF k = 0 THEN h ELSE Simple!OsFree(g[k - 1], h.ptrs[k - 1])]
           after == CHOOSE g : P(g)
<1>1. n \in Nat
  BY DEF Array
<1>2. Simple!FreeAllPtrs(h) = [after[n] EXCEPT !.count = 0]
  BY Zenon DEF Simple!FreeAllPtrs
<1>3. P([k \in 0 .. n |-> Returned(h, k)])
  <2> DEFINE g == [k \in 0 .. n |-> Returned(h, k)]
  <2>1. ASSUME NEW k \in 0 .. n
        PROVE  Returned(h, k) = IF k = 0 THEN h ELSE Simple!OsFree(g[k - 1], h.ptrs[k - 1])
    <3>1. CASE k = 0
      BY <3>1, ReturnedFirst
    <3>2. CASE k # 0
      <4>1. k - 1 \in Nat /\ k - 1 \in 0 .. n /\ (k - 1) + 1 = k
        BY <1>1, <3>2
      <4>2. Simple!OsFree(Returned(h, k - 1), h.ptrs[k - 1]) = Returned(h, (k - 1) + 1)
        BY <4>1, ReturnedNext
      <4>3. g[k - 1] = Returned(h, k - 1)
        BY <4>1
      <4> HIDE DEF g, n
      <4> QED
        BY <3>2, <4>1, <4>2, <4>3
    <3> QED
      BY <3>1, <3>2
  <2> QED
    BY <2>1
<1>4. P(after)
  <2> HIDE DEF P
  <2> QED
    BY <1>3, Zenon
<1> HIDE DEF after
<1>5. \A k \in 0 .. n : after[k] = IF k = 0 THEN h ELSE Simple!OsFree(after[k - 1], h.ptrs[k - 1])
  BY <1>4, Zenon
<1> HIDE DEF n, P
<1> DEFINE Not == {k \in 0 .. n : after[k] # Returned(h, k)}
<1>6. Not = {}
  <2> SUFFICES ASSUME Not # {} PROVE FALSE
    OBVIOUS
  <2>1. PICK k \in Not : \A j \in Not : k <= j
    <3>1. Not \in SUBSET Nat
      BY <1>1
    <3> HIDE DEF Not
    <3> QED
      BY <3>1, Least
  <2>2. CASE k = 0
    BY <1>5, <2>1, <2>2, ReturnedFirst
  <2>3. CASE k # 0
    <3>1. k \in 0 .. n /\ k - 1 \in Nat /\ k - 1 \in 0 .. n /\ (k - 1) + 1 = k /\ ~(k <= k - 1)
      BY <1>1, <2>1, <2>3
    <3>2. after[k - 1] = Returned(h, k - 1)
      BY <2>1, <3>1
    <3>3. after[k] = Simple!OsFree(after[k - 1], h.ptrs[k - 1])
      BY <1>5, <2>3, <3>1
    <3>4. Simple!OsFree(Returned(h, k - 1), h.ptrs[k - 1]) = Returned(h, (k - 1) + 1)
      BY <3>1, ReturnedNext
    <3>5. after[k] = Returned(h, k)
      BY <3>1, <3>2, <3>3, <3>4
    <3> QED
      BY <2>1, <3>5
  <2> QED
    BY <2>2, <2>3
<1>7. after[n] = Returned(h, n)
  <2>1. n \in 0 .. n
    BY <1>1
  <2> QED
    BY <1>6, <2>1
<1> QED
  BY <1>2, <1>7 DEF n

(* It leaves nothing.                                                      *)
LEMMA SimpleFreeAllIs ==
  ASSUME NEW h, Listed(h)
  PROVE  LET h2 == Simple!FreeAllPtrs(h) IN Listed(h2) /\ h2.os = {} /\ h2.count = 0
<1> DEFINE n == h.count
           S == {Simple!SlotOf(h.ptrs[j]) : j \in 0 .. n - 1}
           m == [a \in Simple!Address |->
                       IF \E j \in 0 .. n - 1 : a \in Simple!SlotCells(Simple!SlotOf(h.ptrs[j]))
                       THEN Simple!Junk ELSE h.mem[a]]
           h2 == Simple!FreeAllPtrs(h)
<1>1. Array(h)
  BY DEF Listed
<1>2. h = [mem |-> h.mem, os |-> h.os, ptrs |-> h.ptrs, count |-> h.count, size |-> h.size]
  BY <1>1 DEF Array
<1>3. Returned(h, n) = [mem |-> m, os |-> h.os \ S, ptrs |-> h.ptrs, count |-> h.count, size |-> h.size]
  <2>1. Returned(h, n) = [h EXCEPT !.os = @ \ S, !.mem = m]
    BY <1>2 DEF Returned
  <2> HIDE DEF S, m
  <2> QED
    BY <1>2, <2>1
<1>4. h.os \ S = {}
  <2> SUFFICES ASSUME NEW s \in h.os PROVE s \in S
    OBVIOUS
  <2>1. s \in Strict!Slot
    BY <1>1 DEF Array
  <2>2. PICK j \in 0 .. n - 1 : h.ptrs[j] = Strict!Base(s)
    BY <2>1 DEF Listed, InUse
  <2>3. Simple!SlotOf(h.ptrs[j]) = s
    BY <2>1, <2>2, SlotFacts, SameOs
  <2> QED
    BY <2>3
<1>5. m = [a \in Strict!Address |-> m[a]]
  BY SameOs
<1> HIDE DEF m, S
<1>6. h2 = [mem |-> m, os |-> {}, ptrs |-> h.ptrs, count |-> 0, size |-> h.size]
  <2>1. h2 = [Returned(h, n) EXCEPT !.count = 0]
    BY <1>1, FreeAllPtrsIs
  <2> HIDE DEF h2
  <2> QED
    BY <1>3, <1>4, <2>1
<1> HIDE DEF h2
<1>7. /\ h2.mem = m /\ h2.os = {} /\ h2.ptrs = h.ptrs /\ h2.count = 0 /\ h2.size = h.size
      /\ h2 = [mem |-> h2.mem, os |-> h2.os, ptrs |-> h2.ptrs, count |-> h2.count, size |-> h2.size]
  BY <1>6
<1>8. Array(h2)
  BY <1>1, <1>5, <1>7 DEF Array
<1>9. InUse(h2) = {}
  BY <1>7 DEF InUse
<1>10. Listed(h2)
  BY <1>7, <1>8, <1>9 DEF Listed
<1> QED
  BY <1>7, <1>10 DEF h2

(* What is kept in memory after a call is what live allocations hold.      *)
KeptFor(h, f, lv) ==
  \A i \in DOMAIN lv : \A a \in Strict!CellsOf(lv[i]) \cap Strict!Address : f.mem[a] = h.mem[a]

LEMMA Forgotten ==
  ASSUME NEW h, Listed(h), NEW lv, NEW lv2
  PROVE  LET f == Simple!Forget(h, lv)
         IN  Listed(f) /\ f.os = h.os /\ (Named(h, lv2) => Named(f, lv2)) /\ KeptFor(h, f, lv)
<1> DEFINE K == UNION {Simple!CellsOf(lv[i]) : i \in DOMAIN lv}
           m == [a \in Strict!Address |-> IF a \in K THEN h.mem[a] ELSE Simple!Junk]
           f == Simple!Forget(h, lv)
<1>1. h = [mem |-> h.mem, os |-> h.os, ptrs |-> h.ptrs, count |-> h.count, size |-> h.size]
  BY DEF Listed, Array
<1>2. f = [h EXCEPT !.mem = m]
  <2> HIDE DEF K
  <2>1. f = Simple!Keep(h, K)
    BY DEF Simple!Forget, K
  <2> HIDE DEF f
  <2> QED
    BY <1>1, <2>1, SameOs DEF Simple!Keep
<1>3. m = [a \in Strict!Address |-> m[a]]
  OBVIOUS
<1>4. \A i \in DOMAIN lv : \A a \in Strict!CellsOf(lv[i]) \cap Strict!Address : m[a] = h.mem[a]
  BY SameOs
<1> HIDE DEF f, m
<1>5. Listed(f) /\ f.mem = m /\ (Named(h, lv2) => Named(f, lv2))
  BY <1>2, <1>3, MemOnly
<1>6. f.os = h.os
  BY <1>1, <1>2
<1> QED
  BY <1>4, <1>5, <1>6 DEF f, KeptFor

(* What the user of i writes first, too.                                   *)
LEMMA Settled ==
  ASSUME NEW h, Listed(h), NEW lv, NEW lv2, NEW i, NEW r, NEW first
  PROVE  LET f == Simple!Forget(Simple!Write(h, i, r, first), lv)
         IN  /\ Listed(f) /\ (Named(h, lv2) => Named(f, lv2))
             /\ \A j \in DOMAIN lv : \A a \in Strict!CellsOf(lv[j]) \cap Strict!Address :
                   f.mem[a] = IF a \in Strict!CellsOf(r) /\ a >= r.ptr + first THEN Strict!Data(i) ELSE h.mem[a]
<1> DEFINE m == [a \in Strict!Address |->
                   IF a \in Strict!CellsOf(r) /\ a >= r.ptr + first THEN Strict!Data(i) ELSE h.mem[a]]
           g == Simple!Write(h, i, r, first)
<1>1. h = [mem |-> h.mem, os |-> h.os, ptrs |-> h.ptrs, count |-> h.count, size |-> h.size]
  BY DEF Listed, Array
<1>2. g = [h EXCEPT !.mem = m]
  BY <1>1, SameOs DEF Simple!Write
<1>3. m = [a \in Strict!Address |-> m[a]]
  OBVIOUS
<1> HIDE DEF g, m
<1>4. Listed(g) /\ g.mem = m /\ (Named(h, lv2) => Named(g, lv2))
  BY <1>2, <1>3, MemOnly
<1>5. LET f == Simple!Forget(g, lv)
      IN  Listed(f) /\ (Named(g, lv2) => Named(f, lv2)) /\ KeptFor(g, f, lv)
  BY <1>4, Forgotten
<1>6. \A a \in Strict!Address :
         m[a] = IF a \in Strict!CellsOf(r) /\ a >= r.ptr + first THEN Strict!Data(i) ELSE h.mem[a]
  BY DEF m
<1> QED
  BY <1>4, <1>5, <1>6 DEF g, KeptFor

SimpleSound(h, lv) == Listed(h) /\ Named(h, lv)

(* Each allocation is in a slot of its own.                                *)
LEMMA InItsSlot ==
  ASSUME NEW h, NEW lv, SimpleSound(h, lv), NEW i \in DOMAIN lv
  PROVE  /\ lv[i].ptr \in Blocks /\ lv[i].ptr \in Nat /\ lv[i].size \in Size
         /\ Strict!Units(lv[i].size) \in Nat
         /\ \A a \in Strict!CellsOf(lv[i]) :
              /\ a \in Strict!Address /\ a \in lv[i].ptr .. lv[i].ptr + SlotSize - 1
              /\ \A b \in Blocks : b # lv[i].ptr => a \notin b .. b + SlotSize - 1
         /\ \A j \in DOMAIN lv : j # i => lv[j].ptr # lv[i].ptr
<1> DEFINE p == lv[i].ptr
           u == Strict!Units(lv[i].size)
<1>1. lv[i].size \in Size /\ p \in Blocks
  BY DEF SimpleSound, Named, Listed
<1>2. u \in Nat /\ u <= SlotSize - 3 /\ SlotSize \in Nat
  BY <1>1, UnitsFacts, OsAssumption
<1>3. p \in Nat
  BY <1>1, BlockFacts
<1>4. ASSUME NEW a \in p .. p + u - 1
      PROVE  /\ a \in Strict!Address /\ a \in p .. p + SlotSize - 1
             /\ \A b \in Blocks : b # p => a \notin b .. b + SlotSize - 1
  <2> HIDE DEF p, u
  <2>1. a \in p .. p + SlotSize - 1
    BY <1>2, <1>3, <1>4
  <2>2. a \in Strict!Address
    BY <1>1, <2>1, BlockFacts
  <2>3. ASSUME NEW b \in Blocks, b # p PROVE a \notin b .. b + SlotSize - 1
    <3>1. b \in Nat /\ (b + SlotSize <= p \/ p + SlotSize <= b)
      BY <1>1, <2>3, BlockFacts
    <3> QED
      BY <1>2, <1>3, <2>1, <3>1
  <2> QED
    BY <2>1, <2>2, <2>3
<1>5. Strict!CellsOf(lv[i]) = p .. p + u - 1
  BY DEF Strict!CellsOf
<1>6. \A j \in DOMAIN lv : j # i => lv[j].ptr # p
  BY DEF SimpleSound, Named
<1> QED
  BY <1>1, <1>2, <1>3, <1>4, <1>5, <1>6

(* One allocation more, another block for one, and one less.               *)
LEMMA NamedPut ==
  ASSUME NEW h, NEW h2, NEW lv, Named(h, lv), Array(h), h2.count = h.count + 1,
         \A k \in InUse(h) : h2.ptrs[k] = h.ptrs[k] /\ h.ptrs[k] # h2.ptrs[h.count],
         NEW i \in Id, i \notin DOMAIN lv, NEW r, r = [ptr |-> r.ptr, size |-> r.size],
         r.ptr = h2.ptrs[h.count], r.size \in Size
  PROVE  Named(h2, Simple!With(lv, i, r))
<1> DEFINE lv2 == Simple!With(lv, i, r)
<1>1. /\ DOMAIN lv2 = DOMAIN lv \cup {i} /\ lv2[i] = r
      /\ \A j \in DOMAIN lv : j # i /\ lv2[j] = lv[j]
  BY DEF Simple!With
<1> HIDE DEF lv2
<1>2. h.count \in Nat
  BY DEF Array
<1>3. /\ \A k \in InUse(h2) : k = h.count \/ k \in InUse(h)
      /\ h.count \in InUse(h2) /\ \A k \in InUse(h) : k \in InUse(h2)
  BY <1>2 DEF InUse
<1>4. DOMAIN lv2 \subseteq Id /\ IsFiniteSet(DOMAIN lv2) /\ h2.count = Cardinality(DOMAIN lv2)
  <2>1. DOMAIN lv \subseteq Id /\ IsFiniteSet(DOMAIN lv) /\ h.count = Cardinality(DOMAIN lv)
    BY DEF Named
  <2>2. IsFiniteSet(DOMAIN lv \cup {i}) /\ Cardinality(DOMAIN lv \cup {i}) = Cardinality(DOMAIN lv) + 1
    BY <2>1, FS_AddElement
  <2> QED
    BY <1>1, <2>1, <2>2
<1>5. ASSUME NEW j \in DOMAIN lv2
      PROVE  /\ lv2[j] = [ptr |-> lv2[j].ptr, size |-> lv2[j].size]
             /\ lv2[j].size \in Size
             /\ \E k \in InUse(h2) : lv2[j].ptr = h2.ptrs[k]
  <2>1. CASE j = i
    BY <1>1, <1>3, <2>1
  <2>2. CASE j # i
    <3>1. j \in DOMAIN lv /\ lv2[j] = lv[j]
      BY <1>1, <2>2
    <3>2. lv[j] = [ptr |-> lv[j].ptr, size |-> lv[j].size] /\ lv[j].size \in Size
      BY <3>1 DEF Named
    <3>3. PICK k \in InUse(h) : lv[j].ptr = h.ptrs[k]
      BY <3>1 DEF Named
    <3> QED
      BY <1>3, <3>1, <3>2, <3>3
  <2> QED
    BY <2>1, <2>2
<1>6. ASSUME NEW k \in InUse(h2) PROVE \E j \in DOMAIN lv2 : lv2[j].ptr = h2.ptrs[k]
  <2>1. CASE k = h.count
    BY <1>1, <2>1
  <2>2. CASE k \in InUse(h)
    <3>1. PICK j \in DOMAIN lv : lv[j].ptr = h.ptrs[k]
      BY <2>2 DEF Named
    <3> QED
      BY <1>1, <2>2, <3>1
  <2> QED
    BY <1>3, <2>1, <2>2
<1>7. \A j \in DOMAIN lv : lv[j].ptr # r.ptr
  <2> SUFFICES ASSUME NEW j \in DOMAIN lv PROVE lv[j].ptr # r.ptr
    OBVIOUS
  <2>1. PICK k \in InUse(h) : lv[j].ptr = h.ptrs[k]
    BY DEF Named
  <2> QED
    BY <2>1
<1>8. \A j, n \in DOMAIN lv2 : lv2[j].ptr = lv2[n].ptr => j = n
  <2>1. \A j, n \in DOMAIN lv : lv[j].ptr = lv[n].ptr => j = n
    BY DEF Named
  <2> QED
    BY <1>1, <1>7, <2>1
<1> QED
  BY <1>4, <1>5, <1>6, <1>8 DEF Named, lv2

LEMMA NamedMoved ==
  ASSUME NEW h, NEW h2, NEW lv, Named(h, lv), Listed(h), h2.count = h.count, NEW k \in InUse(h),
         \A j \in InUse(h) : j # k => h2.ptrs[j] = h.ptrs[j] /\ h.ptrs[j] # h2.ptrs[k],
         NEW i \in DOMAIN lv, lv[i].ptr = h.ptrs[k], NEW r, r = [ptr |-> r.ptr, size |-> r.size],
         r.ptr = h2.ptrs[k], r.size \in Size
  PROVE  Named(h2, Simple!With(lv, i, r))
<1> DEFINE lv2 == Simple!With(lv, i, r)
<1>1. /\ DOMAIN lv2 = DOMAIN lv /\ lv2[i] = r
      /\ \A j \in DOMAIN lv : j # i => lv2[j] = lv[j]
  BY DEF Simple!With
<1> HIDE DEF lv2
<1>2. InUse(h2) = InUse(h)
  BY DEF InUse
<1>3. DOMAIN lv2 \subseteq Id /\ IsFiniteSet(DOMAIN lv2) /\ h2.count = Cardinality(DOMAIN lv2)
  BY <1>1 DEF Named
<1>4. \A j, n \in DOMAIN lv : lv[j].ptr = lv[n].ptr => j = n
  BY DEF Named
<1>5. ASSUME NEW j \in DOMAIN lv, j # i
      PROVE  \E n \in InUse(h) : n # k /\ lv[j].ptr = h.ptrs[n] /\ lv[j].ptr = h2.ptrs[n] /\ lv[j].ptr # r.ptr
  <2>1. PICK n \in InUse(h) : lv[j].ptr = h.ptrs[n]
    BY DEF Named
  <2>2. n # k
    BY <1>4, <1>5, <2>1
  <2> QED
    BY <2>1, <2>2
<1>6. ASSUME NEW j \in DOMAIN lv2
      PROVE  /\ lv2[j] = [ptr |-> lv2[j].ptr, size |-> lv2[j].size]
             /\ lv2[j].size \in Size
             /\ \E n \in InUse(h2) : lv2[j].ptr = h2.ptrs[n]
  <2>1. CASE j = i
    BY <1>1, <1>2, <2>1
  <2>2. CASE j # i
    <3>1. j \in DOMAIN lv /\ lv2[j] = lv[j]
      BY <1>1, <2>2
    <3>2. lv[j] = [ptr |-> lv[j].ptr, size |-> lv[j].size] /\ lv[j].size \in Size
      BY <3>1 DEF Named
    <3> QED
      BY <1>2, <1>5, <2>2, <3>1, <3>2
  <2> QED
    BY <2>1, <2>2
<1>7. ASSUME NEW n \in InUse(h2) PROVE \E j \in DOMAIN lv2 : lv2[j].ptr = h2.ptrs[n]
  <2>1. CASE n = k
    BY <1>1, <2>1
  <2>2. CASE n # k
    <3>1. PICK j \in DOMAIN lv : lv[j].ptr = h.ptrs[n]
      BY <1>2 DEF Named
    <3>2. j # i
      BY <1>2, <2>2, <3>1 DEF Listed
    <3> QED
      BY <1>1, <1>2, <2>2, <3>1, <3>2
  <2> QED
    BY <2>1, <2>2
<1>8. \A j, n \in DOMAIN lv2 : lv2[j].ptr = lv2[n].ptr => j = n
  BY <1>1, <1>4, <1>5
<1> QED
  BY <1>3, <1>6, <1>7, <1>8 DEF Named, lv2

LEMMA NamedLess ==
  ASSUME NEW h, NEW h2, NEW lv, Named(h, lv), Listed(h), h2.count = h.count - 1, NEW k \in InUse(h),
         \A j \in InUse(h2) : h2.ptrs[j] # h.ptrs[k] /\ \E n \in InUse(h) : h2.ptrs[j] = h.ptrs[n],
         \A n \in InUse(h) : n # k => \E j \in InUse(h2) : h2.ptrs[j] = h.ptrs[n],
         NEW i \in DOMAIN lv, lv[i].ptr = h.ptrs[k]
  PROVE  Named(h2, Simple!Without(lv, {i}))
<1> DEFINE lv2 == Simple!Without(lv, {i})
<1>1. DOMAIN lv2 = DOMAIN lv \ {i} /\ \A j \in DOMAIN lv2 : j \in DOMAIN lv /\ j # i /\ lv2[j] = lv[j]
  BY DEF Simple!Without
<1> HIDE DEF lv2
<1>2. DOMAIN lv2 \subseteq Id /\ IsFiniteSet(DOMAIN lv2) /\ h2.count = Cardinality(DOMAIN lv2)
  <2>1. DOMAIN lv \subseteq Id /\ IsFiniteSet(DOMAIN lv) /\ h.count = Cardinality(DOMAIN lv)
    BY DEF Named
  <2>2. IsFiniteSet(DOMAIN lv \ {i}) /\ Cardinality(DOMAIN lv \ {i}) = Cardinality(DOMAIN lv) - 1
    BY <2>1, FS_RemoveElement
  <2> QED
    BY <1>1, <2>1, <2>2
<1>3. \A j, n \in DOMAIN lv : lv[j].ptr = lv[n].ptr => j = n
  BY DEF Named
<1>4. ASSUME NEW j \in DOMAIN lv2
      PROVE  /\ lv2[j] = [ptr |-> lv2[j].ptr, size |-> lv2[j].size]
             /\ lv2[j].size \in Size
             /\ \E n \in InUse(h2) : lv2[j].ptr = h2.ptrs[n]
  <2>1. j \in DOMAIN lv /\ j # i /\ lv2[j] = lv[j]
    BY <1>1
  <2>2. lv[j] = [ptr |-> lv[j].ptr, size |-> lv[j].size] /\ lv[j].size \in Size
    BY <2>1 DEF Named
  <2>3. PICK n \in InUse(h) : lv[j].ptr = h.ptrs[n]
    BY <2>1 DEF Named
  <2>4. n # k
    BY <1>3, <2>1, <2>3
  <2> QED
    BY <2>1, <2>2, <2>3, <2>4
<1>5. ASSUME NEW n \in InUse(h2) PROVE \E j \in DOMAIN lv2 : lv2[j].ptr = h2.ptrs[n]
  <2>1. PICK m \in InUse(h) : h2.ptrs[n] = h.ptrs[m] /\ h.ptrs[m] # h.ptrs[k]
    OBVIOUS
  <2>2. PICK j \in DOMAIN lv : lv[j].ptr = h.ptrs[m]
    BY DEF Named
  <2> QED
    BY <1>1, <2>1, <2>2
<1>6. \A j, n \in DOMAIN lv2 : lv2[j].ptr = lv2[n].ptr => j = n
  BY <1>1, <1>3
<1> QED
  BY <1>2, <1>4, <1>5, <1>6 DEF Named, lv2

(* Each operation keeps the list, the names and what is stored.            *)
SimpleKept == SimpleSound(heap', live') /\ Mine(heap', live')

LEMMA SimpleAllocKeeps ==
  ASSUME SimpleSound(heap, live), Mine(heap, live),
         NEW i \in Id, NEW size \in Size, Simple!Alloc(i, size)
  PROVE  SimpleKept
<1> DEFINE n == Simple!SimpleAlloc(heap, size)
           r == [ptr |-> n.ptr, size |-> size]
<1>1. /\ i \notin DOMAIN live /\ Simple!FreeSlots(heap) # {}
      /\ live' = Simple!With(live, i, r)
      /\ heap' = Simple!Forget(Simple!Write(n.heap, i, r, 0), live')
  BY DEF Simple!Alloc, Simple!HandedOut
<1>2. Listed(heap) /\ Named(heap, live) /\ Array(heap)
  BY DEF SimpleSound, Listed
<1>3. /\ Listed(n.heap) /\ n.heap.mem = heap.mem /\ n.heap.count = heap.count + 1
      /\ n.ptr \in Blocks /\ n.heap.ptrs[heap.count] = n.ptr
      /\ \A k \in InUse(heap) : n.heap.ptrs[k] = heap.ptrs[k] /\ heap.ptrs[k] # n.ptr
  BY <1>1, <1>2, SimpleAllocIs
<1>4. r = [ptr |-> r.ptr, size |-> r.size] /\ r.ptr = n.ptr /\ r.size = size
  OBVIOUS
<1> HIDE DEF n, r
<1>5. Named(n.heap, live')
  BY <1>1, <1>2, <1>3, <1>4, NamedPut
<1>6. /\ Listed(heap') /\ Named(heap', live')
      /\ \A j \in DOMAIN live' : \A a \in Strict!CellsOf(live'[j]) \cap Strict!Address :
            heap'.mem[a] = IF a \in Strict!CellsOf(r) /\ a >= r.ptr + 0 THEN Strict!Data(i) ELSE n.heap.mem[a]
  BY <1>1, <1>3, <1>5, Settled
<1>7. SimpleSound(heap', live')
  BY <1>6 DEF SimpleSound
<1>8. /\ live'[i] = r
      /\ \A j \in DOMAIN live' : j # i => j \in DOMAIN live /\ live'[j] = live[j]
      /\ i \in DOMAIN live'
  BY <1>1 DEF Simple!With
<1>9. ASSUME NEW j \in DOMAIN live', NEW a \in Strict!CellsOf(live'[j]) PROVE heap'.mem[a] = Strict!Data(j)
  <2>1. a \in Strict!Address
    BY <1>7, <1>9, InItsSlot
  <2>2. CASE j = i
    <3>1. r.ptr \in Nat /\ a \in r.ptr .. r.ptr + SlotSize - 1
      BY <1>7, <1>8, <1>9, <2>2, InItsSlot
    <3>2. a >= r.ptr + 0
      BY <3>1
    <3> QED
      BY <1>6, <1>8, <1>9, <2>1, <2>2, <3>2
  <2>3. CASE j # i
    <3>1. j \in DOMAIN live /\ live'[j] = live[j]
      BY <1>8, <2>3
    <3>2. r.ptr # live'[j].ptr /\ r.ptr \in Blocks
      BY <1>3, <1>4, <1>7, <1>8, <2>3, InItsSlot
    <3>3. a \notin r.ptr .. r.ptr + SlotSize - 1
      BY <1>7, <1>9, <3>2, InItsSlot
    <3>4. a \notin Strict!CellsOf(r)
      BY <1>7, <1>8, <3>3, InItsSlot
    <3>5. heap'.mem[a] = heap.mem[a]
      BY <1>3, <1>6, <2>1, <3>4
    <3> QED
      BY <1>9, <3>1, <3>5 DEF Mine, Holds
  <2> QED
    BY <2>2, <2>3
<1>10. Mine(heap', live')
  BY <1>9 DEF Mine, Holds
<1> QED
  BY <1>7, <1>10 DEF SimpleKept

LEMMA SimpleFreeKeeps ==
  ASSUME SimpleSound(heap, live), Mine(heap, live), NEW i \in Id, Simple!Free(i)
  PROVE  SimpleKept
<1> DEFINE g == Simple!SimpleFree(heap, live[i].ptr)
<1>1. i \in DOMAIN live /\ live' = Simple!Without(live, {i}) /\ heap' = Simple!Forget(g, live')
  BY DEF Simple!Free
<1>2. Listed(heap) /\ Named(heap, live)
  BY DEF SimpleSound
<1>3. PICK k \in InUse(heap) : live[i].ptr = heap.ptrs[k]
  BY <1>1, <1>2 DEF Named
<1>4. /\ Listed(g) /\ g.count = heap.count - 1
      /\ \A j \in InUse(g) : g.ptrs[j] # heap.ptrs[k] /\ \E n \in InUse(heap) : g.ptrs[j] = heap.ptrs[n]
      /\ \A n \in InUse(heap) : n # k => \E j \in InUse(g) : g.ptrs[j] = heap.ptrs[n]
      /\ \A a \in Strict!Address :
            a \notin heap.ptrs[k] .. heap.ptrs[k] + SlotSize - 1 => g.mem[a] = heap.mem[a]
  <2>1. g = Simple!SimpleFree(heap, heap.ptrs[k])
    BY <1>3
  <2> HIDE DEF g
  <2> QED
    BY <1>2, <2>1, SimpleFreeIs
<1> HIDE DEF g
<1>5. Named(g, live')
  BY <1>1, <1>2, <1>3, <1>4, NamedLess
<1>6. /\ Listed(heap') /\ Named(heap', live')
      /\ \A j \in DOMAIN live' : \A a \in Strict!CellsOf(live'[j]) \cap Strict!Address : heap'.mem[a] = g.mem[a]
  <2>1. Listed(heap') /\ Named(heap', live') /\ KeptFor(g, heap', live')
    BY <1>1, <1>4, <1>5, Forgotten
  <2> QED
    BY <2>1 DEF KeptFor
<1>7. SimpleSound(heap', live')
  BY <1>6 DEF SimpleSound
<1>8. ASSUME NEW j \in DOMAIN live', NEW a \in Strict!CellsOf(live'[j]) PROVE heap'.mem[a] = Strict!Data(j)
  <2>1. j \in DOMAIN live /\ j # i /\ live'[j] = live[j]
    BY <1>1 DEF Simple!Without
  <2>2. a \in Strict!Address
    BY <1>7, <1>8, InItsSlot
  <2>3. live[i].ptr \in Blocks /\ live[i].ptr # live[j].ptr
    BY <1>1, <2>1, InItsSlot
  <2>4. a \notin heap.ptrs[k] .. heap.ptrs[k] + SlotSize - 1
    BY <1>3, <1>8, <2>1, <2>3, InItsSlot
  <2>5. heap'.mem[a] = heap.mem[a]
    BY <1>4, <1>6, <1>8, <2>2, <2>4
  <2> QED
    BY <1>8, <2>1, <2>5 DEF Mine, Holds
<1>9. Mine(heap', live')
  BY <1>8 DEF Mine, Holds
<1> QED
  BY <1>7, <1>9 DEF SimpleKept

LEMMA SimpleReallocKeeps ==
  ASSUME SimpleSound(heap, live), Mine(heap, live),
         NEW i \in Id, NEW size \in Size, Simple!Realloc(i, size)
  PROVE  SimpleKept
<1>1. i \in DOMAIN live
  BY DEF Simple!Realloc
<1>2. PICK t \in Simple!FreeSlots(heap) \cup {Simple!SlotOf(live[i].ptr)} :
         Simple!HandedOut(i, size,
              [heap |-> Simple!SimpleRealloc(heap, live[i].ptr, size, t), ptr |-> Simple!Base(t)],
              Simple!Units(live[i].size))
  BY DEF Simple!Realloc
<1> DEFINE g == Simple!SimpleRealloc(heap, live[i].ptr, size, t)
           d == Simple!Base(t)
           r == [ptr |-> d, size |-> size]
           old == Strict!Units(live[i].size)
<1>3. /\ live' = Simple!With(live, i, r)
      /\ heap' = Simple!Forget(Simple!Write(g, i, r, old), live')
  BY <1>2, SameOs DEF Simple!HandedOut
<1>4. Listed(heap) /\ Named(heap, live)
  BY DEF SimpleSound
<1>5. PICK k \in InUse(heap) : live[i].ptr = heap.ptrs[k]
  BY <1>1, <1>4 DEF Named
<1>6. size \in Nat
  BY UnitsFacts
<1>7. t \in Simple!FreeSlots(heap) \cup {Simple!SlotOf(heap.ptrs[k])}
  BY <1>5
<1>8. g = Simple!SimpleRealloc(heap, heap.ptrs[k], size, t)
  BY <1>5
<1>9. /\ Listed(g) /\ g.count = heap.count
      /\ d \in Blocks /\ g.ptrs[k] = d
      /\ \A j \in InUse(heap) : j # k => g.ptrs[j] = heap.ptrs[j] /\ heap.ptrs[j] # d
      /\ \A a \in Strict!Address :
           /\ a \in d .. d + SlotSize - 1 /\ a - d < Strict!Units(size) => g.mem[a] = heap.mem[a - d + heap.ptrs[k]]
           /\ a \notin d .. d + SlotSize - 1 /\ a \notin heap.ptrs[k] .. heap.ptrs[k] + SlotSize - 1
                => g.mem[a] = heap.mem[a]
  BY <1>4, <1>6, <1>7, <1>8, SimpleReallocIs
<1>10. r = [ptr |-> r.ptr, size |-> r.size] /\ r.ptr = d /\ r.size = size
  OBVIOUS
<1> HIDE DEF g, r, d
<1>11. Named(g, live')
  BY <1>1, <1>3, <1>4, <1>5, <1>9, <1>10, NamedMoved
<1>12. /\ Listed(heap') /\ Named(heap', live')
       /\ \A j \in DOMAIN live' : \A a \in Strict!CellsOf(live'[j]) \cap Strict!Address :
            heap'.mem[a] = IF a \in Strict!CellsOf(r) /\ a >= r.ptr + old THEN Strict!Data(i) ELSE g.mem[a]
  BY <1>3, <1>9, <1>11, Settled
<1>13. SimpleSound(heap', live')
  BY <1>12 DEF SimpleSound
<1>14. /\ live'[i] = r /\ i \in DOMAIN live'
       /\ \A j \in DOMAIN live' : j # i => j \in DOMAIN live /\ live'[j] = live[j]
  BY <1>1, <1>3 DEF Simple!With
<1>15. ASSUME NEW j \in DOMAIN live', NEW a \in Strict!CellsOf(live'[j]) PROVE heap'.mem[a] = Strict!Data(j)
  <2>1. a \in Strict!Address
    BY <1>13, <1>15, InItsSlot
  <2>2. CASE j = i
    <3> DEFINE u == Strict!Units(size)
    <3>1. d \in Nat /\ u \in Nat /\ a \in d .. d + SlotSize - 1
      BY <1>10, <1>13, <1>14, <1>15, <2>2, InItsSlot
    <3>2. a \in Strict!CellsOf(r) /\ a \in d .. d + u - 1
      BY <1>10, <1>14, <1>15, <2>2 DEF Strict!CellsOf
    <3>3. CASE a >= r.ptr + old
      BY <1>12, <1>14, <1>15, <2>1, <2>2, <3>2, <3>3
    <3>4. CASE ~(a >= r.ptr + old)
      <4>1. old \in Nat /\ live[i].ptr \in Nat
        BY <1>1, InItsSlot
      <4> HIDE DEF u, old
      <4>2. a - d < u /\ a - d \in Nat /\ a - d < old
        BY <1>10, <3>1, <3>2, <3>4, <4>1
      <4>3. g.mem[a] = heap.mem[a - d + heap.ptrs[k]]
        BY <1>9, <2>1, <3>1, <4>2 DEF u
      <4>4. heap'.mem[a] = g.mem[a]
        BY <1>12, <1>15, <2>1, <3>4
      <4> DEFINE x == a - d + live[i].ptr
      <4>5. x \in live[i].ptr .. live[i].ptr + old - 1
        BY <3>1, <4>1, <4>2
      <4> HIDE DEF x
      <4>6. x \in Strict!CellsOf(live[i])
        BY <4>5 DEF Strict!CellsOf, old
      <4>7. heap.mem[x] = Strict!Data(i)
        BY <1>1, <4>6 DEF Mine, Holds
      <4> QED
        BY <1>5, <2>2, <4>3, <4>4, <4>7 DEF x
    <3> QED
      BY <3>3, <3>4
  <2>3. CASE j # i
    <3>1. j \in DOMAIN live /\ live'[j] = live[j]
      BY <1>14, <2>3
    <3>2. d # live[j].ptr /\ d \in Blocks
      BY <1>9, <1>10, <1>13, <1>14, <2>3, <3>1, InItsSlot
    <3>3. live[i].ptr # live[j].ptr /\ live[i].ptr \in Blocks
      BY <1>1, <2>3, <3>1, InItsSlot
    <3>4. a \notin d .. d + SlotSize - 1 /\ a \notin heap.ptrs[k] .. heap.ptrs[k] + SlotSize - 1
      BY <1>5, <1>15, <3>1, <3>2, <3>3, InItsSlot
    <3>5. a \notin Strict!CellsOf(r)
      BY <1>10, <1>13, <1>14, <3>4, InItsSlot
    <3>6. heap'.mem[a] = heap.mem[a]
      BY <1>9, <1>12, <1>15, <2>1, <3>4, <3>5
    <3> QED
      BY <1>15, <3>1, <3>6 DEF Mine, Holds
  <2> QED
    BY <2>2, <2>3
<1>16. Mine(heap', live')
  BY <1>15 DEF Mine, Holds
<1> QED
  BY <1>13, <1>16 DEF SimpleKept

(* With no block there is no allocation.                                   *)
LEMMA NoneNamed ==
  ASSUME NEW h, Listed(h) PROVE /\ h.count = 0 => Named(h, << >>)
                                /\ h.os = {} => h.count = 0
<1>1. ASSUME h.count = 0 PROVE Named(h, << >>)
  <2>1. InUse(h) = {}
    BY <1>1 DEF InUse
  <2>2. DOMAIN << >> = {}
    OBVIOUS
  <2>3. IsFiniteSet({}) /\ Cardinality({}) = 0
    BY FS_EmptySet
  <2> QED
    BY <1>1, <2>1, <2>2, <2>3 DEF Named
<1>2. ASSUME h.os = {} PROVE h.count = 0
  <2>1. h.count \in Nat
    BY DEF Listed, Array
  <2>2. ASSUME h.count # 0 PROVE FALSE
    <3>1. 0 \in InUse(h)
      BY <2>1, <2>2 DEF InUse
    <3>2. PICK s \in Strict!Slot : h.ptrs[0] = Strict!Base(s)
      BY <3>1 DEF Listed, Blocks
    <3>3. s \in h.os
      BY <3>1, <3>2 DEF Listed
    <3> QED
      BY <1>2, <3>3
  <2> QED
    BY <2>2
<1> QED
  BY <1>1, <1>2

LEMMA SimpleFreeAllKeeps ==
  ASSUME SimpleSound(heap, live), Simple!FreeAll \/ Simple!Destroy
  PROVE  SimpleKept /\ heap'.os = {} /\ live' = << >>
<1> DEFINE g == Simple!FreeAllPtrs(heap)
<1>1. live' = << >> /\ heap' = Simple!Forget(g, live')
  BY DEF Simple!FreeAll, Simple!Destroy
<1>2. Listed(g) /\ g.os = {} /\ g.count = 0
  BY SimpleFreeAllIs DEF SimpleSound
<1> HIDE DEF g
<1>3. Named(g, live')
  BY <1>1, <1>2, NoneNamed
<1>4. Listed(heap') /\ heap'.os = {} /\ Named(heap', live')
  BY <1>1, <1>2, <1>3, Forgotten
<1>5. Mine(heap', live')
  BY <1>1 DEF Mine
<1> QED
  BY <1>1, <1>4, <1>5 DEF SimpleKept, SimpleSound

(* A new allocator has an array with nothing in it.                        *)
LEMMA NewAllocatorIs ==
  ASSUME NEW h, h = [mem |-> h.mem, os |-> h.os, ptrs |-> h.ptrs, count |-> h.count, size |-> h.size],
         h.mem = [a \in Strict!Address |-> h.mem[a]], h.os = {}
  PROVE  LET h2 == Simple!NewAllocator(h) IN Listed(h2) /\ h2.os = {} /\ h2.count = 0
<1> DEFINE h2 == Simple!NewAllocator(h)
           q == [k \in 0 .. DefaultAllocs - 1 |-> 0]
<1>1. h2 = [h EXCEPT !.ptrs = q, !.count = 0, !.size = DefaultAllocs]
  BY DEF Simple!NewAllocator, Simple!Null
<1>2. q \in [0 .. DefaultAllocs - 1 -> Strict!Address \cup {0}]
  OBVIOUS
<1> HIDE DEF h2, q
<1>3. h2 = [mem |-> h.mem, os |-> {}, ptrs |-> q, count |-> 0, size |-> DefaultAllocs]
  BY <1>1
<1>4. /\ h2.mem = h.mem /\ h2.os = {} /\ h2.ptrs = q /\ h2.count = 0 /\ h2.size = DefaultAllocs
      /\ h2 = [mem |-> h2.mem, os |-> h2.os, ptrs |-> h2.ptrs, count |-> h2.count, size |-> h2.size]
  BY <1>3
<1>5. DefaultAllocs \in Nat \ {0}
  BY CoreAssumption DEF CoreAssumption, Simple!SimpleAssumption
<1>6. Array(h2)
  BY <1>2, <1>4, <1>5 DEF Array
<1>7. InUse(h2) = {}
  BY <1>4 DEF InUse
<1>8. Listed(h2)
  BY <1>4, <1>6, <1>7 DEF Listed
<1> QED
  BY <1>4, <1>8 DEF h2

SimpleHolding ==
  OfSimple => /\ created \in BOOLEAN
              /\ SimpleSound(heap, live) /\ Mine(heap, live)
              /\ ~created => heap.os = {}

LEMMA InitSimple == Init => SimpleHolding
<1> SUFFICES ASSUME Init, OfSimple PROVE SimpleHolding
  BY DEF SimpleHolding
<1>1. Simple!Init
  BY DEF Init, OfBlock, OfFast, OfSimple, OfStrict
<1>2. PICK h : /\ h = [mem |-> [a \in Simple!Address |-> Simple!Junk], os |-> {},
                       ptrs |-> << >>, count |-> 0, size |-> 0]
               /\ heap = Simple!NewAllocator(h)
  BY <1>1 DEF Simple!Init
<1>3. live = << >> /\ created = TRUE
  BY <1>1 DEF Simple!Init
<1>4. /\ h = [mem |-> h.mem, os |-> h.os, ptrs |-> h.ptrs, count |-> h.count, size |-> h.size]
      /\ h.mem = [a \in Strict!Address |-> h.mem[a]] /\ h.os = {}
  BY <1>2, SameOs
<1>5. Listed(heap) /\ heap.os = {} /\ heap.count = 0
  BY <1>2, <1>4, NewAllocatorIs
<1>6. Named(heap, live)
  BY <1>3, <1>5, NoneNamed
<1> QED
  BY <1>3, <1>5, <1>6 DEF SimpleHolding, SimpleSound, Mine

LEMMA SimpleCreateKeeps ==
  ASSUME SimpleSound(heap, live), heap.os = {}, Simple!Create
  PROVE  SimpleKept /\ live' = live
<1>1. heap' = Simple!NewAllocator(heap) /\ live' = live
  BY DEF Simple!Create
<1>2. Listed(heap) /\ Named(heap, live) /\ Array(heap)
  BY DEF SimpleSound, Listed
<1>3. Listed(heap') /\ heap'.os = {} /\ heap'.count = 0
  BY <1>1, <1>2, NewAllocatorIs DEF Array
<1>4. heap.count = 0
  BY <1>2, NoneNamed
<1>5. DOMAIN live = {}
  <2>1. InUse(heap) = {}
    BY <1>4 DEF InUse
  <2> QED
    BY <1>2, <2>1 DEF Named
<1>6. Named(heap', live')
  <2>1. InUse(heap') = {}
    BY <1>3 DEF InUse
  <2> QED
    BY <1>1, <1>2, <1>3, <1>4, <1>5, <2>1 DEF Named
<1> QED
  BY <1>1, <1>3, <1>5, <1>6 DEF SimpleKept, SimpleSound, Mine

LEMMA StepSimple == SimpleHolding /\ [Next]_vars => SimpleHolding'
<1> SUFFICES ASSUME SimpleHolding, [Next]_vars, OfSimple
             PROVE  /\ created' \in BOOLEAN /\ SimpleKept
                    /\ ~created' => heap'.os = {}
  BY DEF SimpleHolding, SimpleKept, Next, vars, OfBlock, OfFast, OfSimple, OfStrict
<1>1. Simple!Next \/ UNCHANGED vars
  BY DEF Next, OfBlock, OfFast, OfSimple, OfStrict
<1>2. /\ created \in BOOLEAN /\ SimpleSound(heap, live) /\ Mine(heap, live)
      /\ ~created => heap.os = {}
  BY DEF SimpleHolding
<1>3. CASE UNCHANGED vars
  BY <1>2, <1>3 DEF vars, SimpleKept
<1>4. ASSUME NEW i \in Id, NEW size \in Size, Simple!Alloc(i, size)
      PROVE  SimpleKept /\ created /\ created' = created
  BY <1>2, <1>4, SimpleAllocKeeps DEF Simple!Alloc, Simple!HandedOut
<1>5. ASSUME NEW i \in Id, NEW size \in Size, Simple!Realloc(i, size)
      PROVE  SimpleKept /\ created /\ created' = created
  BY <1>2, <1>5, SimpleReallocKeeps DEF Simple!Realloc, Simple!HandedOut
<1>6. ASSUME NEW i \in Id, Simple!Free(i) PROVE SimpleKept /\ created /\ created' = created
  BY <1>2, <1>6, SimpleFreeKeeps DEF Simple!Free
<1>7. CASE Simple!FreeAll \/ Simple!Destroy
  <2>1. SimpleKept /\ heap'.os = {}
    BY <1>2, <1>7, SimpleFreeAllKeeps
  <2>2. created' \in BOOLEAN
    BY <1>2, <1>7 DEF Simple!FreeAll, Simple!Destroy
  <2> QED
    BY <2>1, <2>2
<1>8. CASE Simple!Create
  <2>1. ~created /\ created' = TRUE
    BY <1>8 DEF Simple!Create
  <2> QED
    BY <1>2, <1>8, <2>1, SimpleCreateKeeps
<1> QED
  <2>1. \/ UNCHANGED vars
        \/ \E i \in Id, size \in Size : Simple!Alloc(i, size)
        \/ \E i \in Id, size \in Size : Simple!Realloc(i, size)
        \/ \E i \in Id : Simple!Free(i)
        \/ Simple!FreeAll \/ Simple!Destroy \/ Simple!Create
    BY <1>1 DEF Simple!Next
  <2> QED
    BY <1>2, <1>3, <1>4, <1>5, <1>6, <1>7, <1>8, <2>1

(* The simple allocator's part of BooksExact and DestroyReturnsAll.        *)
THEOREM SimpleBooks ==
  Spec => [](OfSimple => Simple!TypeOK /\ Simple!PtrsExact /\ (~created => heap.os = {}))
<1>1. SimpleHolding => (OfSimple => Simple!TypeOK /\ Simple!PtrsExact /\ (~created => heap.os = {}))
  <2> SUFFICES ASSUME SimpleHolding, OfSimple PROVE Simple!TypeOK /\ Simple!PtrsExact /\ (~created => heap.os = {})
    OBVIOUS
  <2>1. /\ created \in BOOLEAN /\ SimpleSound(heap, live)
        /\ ~created => heap.os = {}
    BY DEF SimpleHolding
  <2>2. Listed(heap) /\ Named(heap, live) /\ Array(heap)
    BY <2>1 DEF SimpleSound, Listed
  <2>3. Simple!TypeOK
    <3>1. ASSUME NEW i \in DOMAIN live PROVE live[i] \in [ptr : Simple!Address, size : Size]
      <4>1. live[i].ptr \in Blocks /\ live[i].ptr \in Nat /\ live[i].size \in Size
        BY <2>1, InItsSlot
      <4>2. live[i].ptr \in live[i].ptr .. live[i].ptr + SlotSize - 1
        BY <4>1, OsAssumption
      <4>3. live[i].ptr \in Simple!Address
        BY <4>1, <4>2, BlockFacts, SameOs
      <4>4. live[i] = [ptr |-> live[i].ptr, size |-> live[i].size]
        BY <2>2 DEF Named
      <4> QED
        BY <4>1, <4>3, <4>4
    <3>2. /\ heap.os \subseteq Simple!Slot
          /\ heap.size \in Nat /\ heap.count \in 0 .. heap.size
          /\ heap.ptrs \in [0 .. heap.size - 1 -> Simple!Address \cup {Simple!Null}]
          /\ DOMAIN heap.mem = Simple!Address
      BY <2>2, SameOs DEF Array, Simple!Null
    <3>3. DOMAIN live \subseteq Id
      BY <2>2 DEF Named
    <3> QED
      BY <2>1, <3>1, <3>2, <3>3 DEF Simple!TypeOK
  <2>4. Simple!PtrsExact
    <3> DEFINE used == {heap.ptrs[k] : k \in 0 .. heap.count - 1}
    <3>1. used = {live[i].ptr : i \in DOMAIN live}
      BY <2>2 DEF Named, InUse
    <3>2. used = {Simple!Base(s) : s \in heap.os}
      <4>1. ASSUME NEW k \in InUse(heap) PROVE \E s \in heap.os : heap.ptrs[k] = Strict!Base(s)
        <5>1. PICK s \in Strict!Slot : heap.ptrs[k] = Strict!Base(s)
          BY <2>2 DEF Listed, Blocks
        <5> QED
          BY <2>2, <5>1 DEF Listed
      <4>2. ASSUME NEW s \in heap.os PROVE \E k \in InUse(heap) : heap.ptrs[k] = Strict!Base(s)
        <5>1. s \in Strict!Slot
          BY <2>2 DEF Array
        <5> QED
          BY <2>2, <5>1 DEF Listed
      <4> QED
        BY <4>1, <4>2, SameOs DEF InUse
    <3>3. heap.count = Cardinality(DOMAIN live)
      BY <2>2 DEF Named
    <3>4. Simple!Cardinality(DOMAIN live) = Cardinality(DOMAIN live)
      BY Zenon DEF Simple!Cardinality, Cardinality
    <3> HIDE DEF used
    <3>5. heap.count = Simple!Cardinality(DOMAIN live)
      BY <3>3, <3>4
    <3> QED
      BY <3>1, <3>2, <3>5, Zenon DEF Simple!PtrsExact, used
  <2> QED
    BY <2>1, <2>3, <2>4
<1> QED
  BY InitSimple, StepSimple, <1>1, PTL DEF Spec

(* Allocations of the simple allocator are apart, as WmemAlloc wants them. *)
LEMMA SimplePlaced == ASSUME NEW h, NEW lv, SimpleSound(h, lv) PROVE Placed(lv)
<1> SUFFICES ASSUME NEW i \in DOMAIN lv
             PROVE  /\ lv[i].ptr \in Address /\ lv[i].size \in Size
                    /\ \A j \in DOMAIN lv \ {i} : Promise!Cells(lv[i]) \cap Promise!Cells(lv[j]) = {}
  BY DEF Placed
<1>1. lv[i].ptr \in Blocks /\ lv[i].ptr \in Nat /\ lv[i].size \in Size
  BY InItsSlot
<1>2. lv[i].ptr \in Address
  <2>1. lv[i].ptr \in lv[i].ptr .. lv[i].ptr + SlotSize - 1
    BY <1>1, OsAssumption
  <2> QED
    BY <1>1, <2>1, BlockFacts DEF Address, Strict!Address
<1>3. \A k \in DOMAIN lv : Promise!Cells(lv[k]) = Strict!CellsOf(lv[k])
  BY DEF Promise!Cells, Promise!Units, Strict!CellsOf, Strict!Units
<1>4. ASSUME NEW j \in DOMAIN lv, j # i, NEW a \in Strict!CellsOf(lv[i]), a \in Strict!CellsOf(lv[j])
      PROVE  FALSE
  <2>1. lv[j].ptr # lv[i].ptr /\ a \in lv[i].ptr .. lv[i].ptr + SlotSize - 1
    BY <1>4, InItsSlot
  <2>2. a \notin lv[i].ptr .. lv[i].ptr + SlotSize - 1
    BY <1>1, <1>4, <2>1, InItsSlot
  <2> QED
    BY <2>1, <2>2
<1> QED
  BY <1>1, <1>2, <1>3, <1>4

LEMMA StepSimplePromised ==
  SimpleHolding /\ [Next]_vars /\ OfSimple => [Promise!Next]_(Promise!vars)
<1> SUFFICES ASSUME SimpleHolding, [Next]_vars, OfSimple PROVE [Promise!Next]_(Promise!vars)
  OBVIOUS
<1>1. OfSimple' /\ (Simple!Next \/ UNCHANGED vars)
  BY DEF Next, vars, OfBlock, OfFast, OfSimple, OfStrict
<1>2. SimpleSound(heap, live) /\ Mine(heap, live)
  BY DEF SimpleHolding
<1>3. SimpleHolding'
  BY StepSimple
<1>4. SimpleSound(heap', live') /\ Mine(heap', live')
  BY <1>1, <1>3 DEF SimpleHolding
<1>5. Seen
  <2>1. Placed(live) /\ Placed(live')
    BY <1>2, <1>4, SimplePlaced
  <2> QED
    BY <1>2, <1>4, <2>1, ContentIs DEF Seen
<1>6. ASSUME NEW i \in Id, NEW size \in Size, Simple!Alloc(i, size) PROVE Promise!Alloc(i, size)
  <2> DEFINE r == [ptr |-> Simple!SimpleAlloc(heap, size).ptr, size |-> size]
  <2>1. i \notin DOMAIN live /\ live' = Strict!With(live, i, r)
    BY <1>6 DEF Simple!Alloc, Simple!HandedOut, Simple!With, Strict!With
  <2>2. r = [ptr |-> r.ptr, size |-> size]
    OBVIOUS
  <2> HIDE DEF r
  <2> QED
    BY <1>5, <2>1, <2>2, AllocPromised
<1>7. ASSUME NEW i \in Id, NEW size \in Size, Simple!Realloc(i, size) PROVE Promise!Realloc(i, size)
  <2>1. i \in DOMAIN live
    BY <1>7 DEF Simple!Realloc
  <2>2. PICK t : live' = Strict!With(live, i, [ptr |-> Simple!Base(t), size |-> size])
    BY <1>7 DEF Simple!Realloc, Simple!HandedOut, Simple!With, Strict!With
  <2> DEFINE r == [ptr |-> Simple!Base(t), size |-> size]
  <2>3. r = [ptr |-> r.ptr, size |-> size] /\ live' = Strict!With(live, i, r)
    BY <2>2
  <2> HIDE DEF r
  <2> QED
    BY <1>5, <2>1, <2>3, ReallocPromised
<1>8. ASSUME NEW i \in Id, Simple!Free(i) PROVE Promise!Free(i)
  <2>1. i \in DOMAIN live /\ live' = Strict!Without(live, {i})
    BY <1>8 DEF Simple!Free, Simple!Without, Strict!Without
  <2> QED
    BY <1>5, <2>1, FreePromised
<1>9. CASE Simple!FreeAll \/ Simple!Destroy
  <2>1. live' = << >>
    BY <1>9 DEF Simple!FreeAll, Simple!Destroy
  <2> QED
    BY <1>5, <2>1, FreeAllPromised DEF Promise!Next
<1>10. CASE Simple!Create \/ UNCHANGED vars
  <2>1. live' = live
    BY <1>10 DEF Simple!Create, vars
  <2> QED
    BY <1>5, <2>1, NothingPromised
<1> QED
  <2>1. \/ UNCHANGED vars
        \/ \E i \in Id, size \in Size : Simple!Alloc(i, size)
        \/ \E i \in Id, size \in Size : Simple!Realloc(i, size)
        \/ \E i \in Id : Simple!Free(i)
        \/ Simple!FreeAll \/ Simple!Destroy \/ Simple!Create
    BY <1>1 DEF Simple!Next
  <2>2. \/ UNCHANGED Promise!vars
        \/ \E i \in Id, size \in Size : Promise!Alloc(i, size) \/ Promise!Realloc(i, size)
        \/ \E i \in Id : Promise!Free(i)
        \/ [Promise!Next]_(Promise!vars)
    BY <1>6, <1>7, <1>8, <1>9, <1>10, <2>1
  <2> QED
    BY <2>2 DEF Promise!Next

(* The simple allocator implements WmemAlloc, as KeepsPromise maps it: a   *)
(* realloc that the OS moves takes the contents along, and the array of    *)
(* pointers follows.                                                       *)
THEOREM SimpleKeepsPromise == OfSimple /\ Spec => KeepsPromise
<1>1. SimpleHolding /\ [Next]_vars /\ OfSimple => [Promise!Next]_(Promise!vars)
  BY StepSimplePromised
<1>2. OfSimple /\ [Next]_vars => OfSimple'
  BY DEF Next, vars, OfBlock, OfFast, OfSimple, OfStrict
<1>3. OfSimple /\ Init => Promise!Init
  <2> SUFFICES ASSUME OfSimple, Init PROVE Promise!Init
    OBVIOUS
  <2>1. Simple!Init
    BY DEF Init, OfBlock, OfFast, OfSimple, OfStrict
  <2>2. live = << >>
    BY <2>1 DEF Simple!Init
  <2>3. [i \in DOMAIN live |-> Held(heap, live[i], 0)] = << >>
    BY <2>2
  <2> QED
    BY <2>2, <2>3 DEF Promise!Init
<1> QED
  BY InitSimple, StepSimple, <1>1, <1>2, <1>3, PTL DEF Spec, KeepsPromise, Promise!Spec

-----------------------------------------------------------------------------
(***************************************************************************)
(* The fast block allocator: its two lists and where allocations are.      *)
(***************************************************************************)

(* It stands on the same memory, too.                                      *)
LEMMA FastOs ==
  /\ Fast!Slot = Strict!Slot /\ Fast!Address = Strict!Address
  /\ \A s : Fast!Base(s) = Strict!Base(s)
  /\ \A b : Fast!SlotOf(b) = Strict!SlotOf(b)
  /\ \A s : Fast!SlotCells(s) = Strict!SlotCells(s)
  /\ \A n : Fast!Units(n) = Strict!Units(n)
  /\ \A r : Fast!CellsOf(r) = Strict!CellsOf(r)
  /\ \A i : Fast!Data(i) = Strict!Data(i)
BY DEF Fast!Slot, Strict!Slot, Fast!Address, Strict!Address, Fast!Base, Strict!Base,
       Fast!SlotOf, Strict!SlotOf, Fast!SlotCells, Strict!SlotCells, Fast!Units, Strict!Units,
       Fast!CellsOf, Strict!CellsOf, Fast!Data, Strict!Data

LEMMA FastFacts ==
  /\ BlockSize \in Nat /\ BlockSize >= 3 /\ SlotSize \in Nat /\ BlockSize <= SlotSize
  /\ \A size \in Size : /\ size \in Nat /\ Strict!Units(size) \in Nat
                        /\ Strict!Units(size) + 2 <= SlotSize
                        /\ size <= Fast!MaxAllocSize => Strict!Units(size) + 1 <= BlockSize - 1
<1>1. BlockSize \in Nat /\ BlockSize >= 3 /\ SlotSize \in Nat \ {0} /\ SlotSize >= BlockSize /\ AlignAmount \in Nat \ {0}
  BY CoreAssumption, OsAssumption DEF CoreAssumption, Fast!FastAssumption
<1>2. ASSUME NEW size \in Size, size <= Fast!MaxAllocSize PROVE Strict!Units(size) + 1 <= BlockSize - 1
  <2> DEFINE q == (size + AlignAmount - 1) \div AlignAmount
             t == BlockSize - 2
  <2>1. t \in Int /\ t * AlignAmount \in Int /\ size \in Nat /\ size <= t * AlignAmount
    BY <1>1, <1>2, UnitsFacts DEF Fast!MaxAllocSize
  <2>2. q \in Int /\ q * AlignAmount <= size + AlignAmount - 1
    BY <1>1, <2>1
  <2> HIDE DEF q, t
  <2>3. q * AlignAmount < (t + 1) * AlignAmount
    BY <1>1, <2>1, <2>2
  <2>4. q < t + 1
    BY <1>1, <2>1, <2>2, <2>3
  <2> QED
    BY <1>1, <2>1, <2>2, <2>4 DEF q, t, Strict!Units
<1>3. ASSUME NEW size \in Size
      PROVE  size \in Nat /\ Strict!Units(size) \in Nat /\ Strict!Units(size) + 2 <= SlotSize
  BY <1>1, UnitsFacts
<1> QED
  BY <1>1, <1>2, <1>3

FastShaped(h) ==
  /\ h = [mem |-> h.mem, os |-> h.os, block_list |-> h.block_list, jumbo_list |-> h.jumbo_list]
  /\ h.mem = [a \in Strict!Address |-> h.mem[a]]
  /\ h.os \in SUBSET Strict!Slot

(* The blocks are bs and the jumbos js, as their headers link them. A      *)
(* jumbo that knows a predecessor is the successor of that one.            *)
BlockAt(m, b) == m[b] = Fast!Block(m[b].next, m[b].pos) /\ m[b].pos \in 1 .. BlockSize
JumboAt(m, b) == m[b] = Fast!Jumbo(m[b].prev, m[b].next) /\ m[b + 1] = Fast!Chunk(-1)
Told(m, J) == \A b \in J : m[b].prev # 0 => m[b].prev \in J /\ m[m[b].prev].next = b

FastLists(h, bs, js) ==
  /\ FastShaped(h)
  /\ Linked(h.mem, h.block_list, bs) /\ Linked(h.mem, h.jumbo_list, js)
  /\ In(bs) \cap In(js) = {}
  /\ \A s \in Strict!Slot : s \in h.os <=> Strict!Base(s) \in In(bs) \cup In(js)
  /\ \A b \in In(bs) : BlockAt(h.mem, b)
  /\ \A b \in In(js) : JumboAt(h.mem, b)
  /\ Told(h.mem, In(js))

(* How much an allocation has, and from where to where; its chunk header   *)
(* comes first. A jumbo is behind its header, a chunk is in the part of    *)
(* one of the blocks S that was handed out.                                *)
Room(h, r) == IF h.mem[r.ptr - 1].len = -1 THEN r.size ELSE h.mem[r.ptr - 1].len
Span(h, r) == r.ptr - 1 .. r.ptr - 1 + Strict!Units(Room(h, r))
Apart(h, r, q) == \A a \in Span(h, r) : a \notin Span(h, q)
House(h, r, S, J) ==
  /\ r = [ptr |-> r.ptr, size |-> r.size] /\ r.ptr \in Nat /\ r.size \in Size
  /\ \/ r.ptr - 2 \in J /\ h.mem[r.ptr - 1] = Fast!Chunk(-1)
     \/ \E n \in Nat : /\ h.mem[r.ptr - 1] = Fast!Chunk(n) /\ r.size <= n
                       /\ \E b \in S : b < r.ptr - 1 /\ r.ptr + Strict!Units(n) <= b + h.mem[b].pos
Housed(h, lv, S, J) ==
  /\ DOMAIN lv \subseteq Id
  /\ \A i \in DOMAIN lv : House(h, lv[i], S, J)
  /\ \A i, j \in DOMAIN lv : i # j => Apart(h, lv[i], lv[j])

LEMMA InBlocks == ASSUME NEW c, Chain(c) PROVE \A b \in In(c) : b \in Blocks /\ b \in Nat /\ b >= 1
<1>1. \A j \in 1 .. Len(c) : c[j] \in Blocks
  BY DEF Chain
<1> QED
  BY <1>1, BlockFacts DEF In

(* An allocation lies behind the header of one block.                      *)
LEMMA InHouse ==
  ASSUME NEW h, NEW bs, NEW js, FastLists(h, bs, js), NEW r, House(h, r, In(bs), In(js))
  PROVE  \E b \in In(bs) \cup In(js) :
           /\ \A a \in Span(h, r) : b < a /\ a <= b + SlotSize - 1
           /\ b \in In(bs) => \A a \in Span(h, r) : a < b + h.mem[b].pos
           /\ b \in In(js) => r.ptr = b + 2
<1>1. /\ \A b \in In(bs) \cup In(js) : b \in Blocks /\ b \in Nat
      /\ \A b \in In(bs) : h.mem[b].pos \in 1 .. BlockSize /\ b \notin In(js)
      /\ \A b \in In(js) : b \notin In(bs)
  BY InBlocks DEF FastLists, Linked, BlockAt
<1>2. r.ptr \in Nat /\ r.size \in Size
  BY DEF House
<1>3. CASE r.ptr - 2 \in In(js) /\ h.mem[r.ptr - 1] = Fast!Chunk(-1)
  <2> DEFINE b == r.ptr - 2
             u == Strict!Units(r.size)
  <2>1. Room(h, r) = r.size
    BY <1>3 DEF Room, Fast!Chunk
  <2>2. u \in Nat /\ u + 2 <= SlotSize /\ SlotSize \in Nat
    BY <1>2, FastFacts
  <2>3. Span(h, r) = r.ptr - 1 .. r.ptr - 1 + u
    BY <2>1 DEF Span
  <2>4. b \in In(js) /\ b \in Nat /\ r.ptr = b + 2
    BY <1>1, <1>2, <1>3
  <2> HIDE DEF b, u
  <2>5. \A a \in Span(h, r) : b < a /\ a <= b + SlotSize - 1
    BY <2>2, <2>3, <2>4
  <2> QED
    BY <1>1, <2>4, <2>5
<1>4. ASSUME NEW n \in Nat, h.mem[r.ptr - 1] = Fast!Chunk(n),
             NEW b \in In(bs), b < r.ptr - 1, r.ptr + Strict!Units(n) <= b + h.mem[b].pos
      PROVE  \A a \in Span(h, r) : b < a /\ a <= b + SlotSize - 1 /\ a < b + h.mem[b].pos
  <2> DEFINE u == Strict!Units(n)
             p == h.mem[b].pos
  <2>1. Room(h, r) = n
    BY <1>4 DEF Room, Fast!Chunk
  <2>2. Span(h, r) = r.ptr - 1 .. r.ptr - 1 + u
    BY <2>1 DEF Span
  <2>3. /\ u \in Nat /\ b \in Nat /\ p \in Nat /\ p <= BlockSize /\ BlockSize \in Nat
        /\ SlotSize \in Nat /\ BlockSize <= SlotSize /\ r.ptr + u <= b + p
    BY <1>1, <1>4, UnitsFacts, FastFacts
  <2> HIDE DEF u, p
  <2>4. \A a \in Span(h, r) : b < a /\ a <= b + SlotSize - 1 /\ a < b + p
    BY <1>2, <1>4, <2>2, <2>3
  <2> QED
    BY <2>4 DEF p
<1> QED
  BY <1>1, <1>3, <1>4 DEF House

(* What it spans, and what it holds.                                       *)
LEMMA SpanIs ==
  ASSUME NEW h, NEW bs, NEW js, NEW r, House(h, r, In(bs), In(js))
  PROVE  /\ r.ptr - 1 \in Span(h, r) /\ r.ptr - 1 \notin Strict!CellsOf(r)
         /\ \A a \in Strict!CellsOf(r) : a \in Span(h, r) /\ a >= r.ptr /\ a \in Int
         /\ r.ptr \in Strict!CellsOf(r) \/ r.ptr \in Nat
         /\ Strict!Units(r.size) \in Nat
<1>1. r.ptr \in Nat /\ r.size \in Size /\ r.size \in Nat /\ Strict!Units(r.size) \in Nat
  BY FastFacts DEF House
<1> DEFINE u == Strict!Units(r.size)
           w == Strict!Units(Room(h, r))
<1>2. w \in Nat /\ u <= w
  <2>1. CASE h.mem[r.ptr - 1] = Fast!Chunk(-1)
    <3>1. Room(h, r) = r.size
      BY <2>1 DEF Room, Fast!Chunk
    <3> QED
      BY <1>1, <3>1
  <2>2. ASSUME NEW n \in Nat, h.mem[r.ptr - 1] = Fast!Chunk(n), r.size <= n PROVE w \in Nat /\ u <= w
    <3>1. Room(h, r) = n
      BY <2>2 DEF Room, Fast!Chunk
    <3> QED
      BY <1>1, <2>2, <3>1, UnitsFacts
  <2> QED
    BY <2>1, <2>2 DEF House
<1>3. Span(h, r) = r.ptr - 1 .. r.ptr - 1 + w /\ Strict!CellsOf(r) = r.ptr .. r.ptr + u - 1 /\ u \in Nat
  BY <1>1 DEF Span, Strict!CellsOf
<1> HIDE DEF u, w
<1> QED
  BY <1>1, <1>2, <1>3

(* The cells it holds are nobody else's, and no header.                    *)
LEMMA CellsPlain ==
  ASSUME NEW h, NEW bs, NEW js, FastLists(h, bs, js), NEW lv, Housed(h, lv, In(bs), In(js)),
         NEW i \in DOMAIN lv, NEW a \in Span(h, lv[i])
  PROVE  /\ a \in Strict!Address
         /\ a \notin Blocks
         /\ \A b \in In(js) : a = b + 1 => a = lv[i].ptr - 1
         /\ \A j \in DOMAIN lv : j # i => a \notin Strict!CellsOf(lv[j]) /\ a # lv[j].ptr - 1
<1>1. House(h, lv[i], In(bs), In(js))
  BY DEF Housed
<1>2. PICK b \in In(bs) \cup In(js) :
         /\ b < a /\ a <= b + SlotSize - 1
         /\ b \in In(js) => lv[i].ptr = b + 2
  BY <1>1, InHouse
<1>3. \A x \in In(bs) \cup In(js) : x \in Blocks /\ x \in Nat
  BY InBlocks DEF FastLists, Linked
<1>4. a \in Int /\ SlotSize \in Nat /\ SlotSize >= 3
  <2>1. lv[i].ptr \in Nat
    BY <1>1 DEF House
  <2> QED
    BY <2>1, FastFacts DEF Span
<1>5. a \in b .. b + SlotSize - 1 /\ b \in Blocks /\ b \in Nat
  BY <1>2, <1>3, <1>4
<1>6. a \in Strict!Address
  BY <1>5, BlockFacts
<1>7. \A d \in Blocks : d \in Nat /\ (d # b => b + SlotSize <= d \/ d + SlotSize <= b)
  BY <1>5, BlockFacts
<1>8. a \notin Blocks
  BY <1>2, <1>4, <1>5, <1>7
<1>9. ASSUME NEW d \in In(js), a = d + 1 PROVE a = lv[i].ptr - 1
  <2>1. d = b
    BY <1>2, <1>3, <1>4, <1>5, <1>7, <1>9
  <2> QED
    BY <1>2, <1>5, <1>9, <2>1
<1>10. ASSUME NEW j \in DOMAIN lv, j # i PROVE a \notin Strict!CellsOf(lv[j]) /\ a # lv[j].ptr - 1
  <2>1. House(h, lv[j], In(bs), In(js)) /\ a \notin Span(h, lv[j])
    BY <1>10 DEF Housed, Apart
  <2> QED
    BY <2>1, SpanIs
<1> QED
  BY <1>6, <1>8, <1>9, <1>10

(* What leaves the headers as they are leaves the lists as they are        *)
HeadersKept(h, h2, S, J) ==
  /\ FastShaped(h2)
  /\ h2.os = h.os /\ h2.block_list = h.block_list /\ h2.jumbo_list = h.jumbo_list
  /\ \A b \in S \cup J : h2.mem[b] = h.mem[b]
  /\ \A b \in J : h2.mem[b + 1] = h.mem[b + 1]

LEMMA ListsKept ==
  ASSUME NEW h, NEW bs, NEW js, FastLists(h, bs, js), NEW h2, HeadersKept(h, h2, In(bs), In(js))
  PROVE  FastLists(h2, bs, js)
<1> USE DEF HeadersKept
<1>1. Linked(h2.mem, h2.block_list, bs) /\ Linked(h2.mem, h2.jumbo_list, js)
  BY DEF FastLists, Linked, In
<1>2. Told(h2.mem, In(js))
  BY DEF FastLists, Told
<1>3. /\ \A b \in In(bs) : BlockAt(h2.mem, b)
      /\ \A b \in In(js) : JumboAt(h2.mem, b)
  BY DEF FastLists, BlockAt, JumboAt
<1> QED
  BY <1>1, <1>2, <1>3 DEF FastLists

(* and, when no block hands out less, each allocation where it is.         *)
LEMMA HouseKept ==
  ASSUME NEW h, NEW r, NEW S, NEW J, House(h, r, S, J),
         NEW h2, h2.mem[r.ptr - 1] = h.mem[r.ptr - 1],
         NEW S2, NEW J2, S \subseteq S2, J \subseteq J2,
         \A b \in S : b \in Nat /\ h.mem[b].pos \in Nat /\ h2.mem[b].pos \in Nat
                      /\ h.mem[b].pos <= h2.mem[b].pos
  PROVE  House(h2, r, S2, J2) /\ Span(h2, r) = Span(h, r)
<1>1. Span(h2, r) = Span(h, r)
  BY DEF Span, Room
<1>2. r.ptr \in Nat /\ \A n \in Nat : Strict!Units(n) \in Nat
  BY UnitsFacts DEF House
<1>3. ASSUME NEW n \in Nat, NEW b \in S, b < r.ptr - 1, r.ptr + Strict!Units(n) <= b + h.mem[b].pos
      PROVE  b \in S2 /\ r.ptr + Strict!Units(n) <= b + h2.mem[b].pos
  <2> DEFINE u == Strict!Units(n)
             p == h.mem[b].pos
             q == h2.mem[b].pos
  <2>1. u \in Nat /\ p \in Nat /\ q \in Nat /\ b \in Nat /\ p <= q /\ r.ptr + u <= b + p
    BY <1>2, <1>3
  <2> HIDE DEF u, p, q
  <2>2. r.ptr + u <= b + q
    BY <1>2, <2>1
  <2> QED
    BY <1>3, <2>2 DEF u, q
<1>4. House(h2, r, S2, J2)
  BY <1>3 DEF House
<1> QED
  BY <1>1, <1>4

PlacesKept(h, h2, lv, S) ==
  /\ \A i \in DOMAIN lv : h2.mem[lv[i].ptr - 1] = h.mem[lv[i].ptr - 1]
  /\ \A b \in S : /\ b \in Nat /\ h.mem[b].pos \in Nat /\ h2.mem[b].pos \in Nat
                  /\ h.mem[b].pos <= h2.mem[b].pos

LEMMA HousedKept ==
  ASSUME NEW h, NEW lv, NEW S, NEW J, Housed(h, lv, S, J),
         NEW h2, PlacesKept(h, h2, lv, S), NEW S2, NEW J2, S \subseteq S2, J \subseteq J2
  PROVE  Housed(h2, lv, S2, J2) /\ \A i \in DOMAIN lv : Span(h2, lv[i]) = Span(h, lv[i])
<1>1. ASSUME NEW i \in DOMAIN lv PROVE House(h2, lv[i], S2, J2) /\ Span(h2, lv[i]) = Span(h, lv[i])
  <2>1. House(h, lv[i], S, J)
    BY DEF Housed
  <2> QED
    BY <2>1, HouseKept DEF PlacesKept
<1> QED
  BY <1>1 DEF Housed, Apart

(* The case of changes to no header at all.                                *)
LEMMA FastMem ==
  ASSUME NEW h, NEW bs, NEW js, FastLists(h, bs, js), NEW lv, Housed(h, lv, In(bs), In(js)),
         NEW m, m = [a \in Strict!Address |-> m[a]],
         NEW h2, h2 = [h EXCEPT !.mem = m],
         \A b \in In(bs) \cup In(js) : m[b] = h.mem[b],
         \A b \in In(js) : m[b + 1] = h.mem[b + 1],
         \A i \in DOMAIN lv : m[lv[i].ptr - 1] = h.mem[lv[i].ptr - 1]
  PROVE  FastLists(h2, bs, js) /\ Housed(h2, lv, In(bs), In(js)) /\ h2.mem = m /\ h2.os = h.os
<1>1. h = [mem |-> h.mem, os |-> h.os, block_list |-> h.block_list, jumbo_list |-> h.jumbo_list]
      /\ h.os \in SUBSET Strict!Slot
  BY DEF FastLists, FastShaped
<1>2. h2 = [mem |-> m, os |-> h.os, block_list |-> h.block_list, jumbo_list |-> h.jumbo_list]
  BY <1>1
<1>3. h2.mem = m /\ h2.os = h.os /\ h2.block_list = h.block_list /\ h2.jumbo_list = h.jumbo_list
      /\ h2 = [mem |-> h2.mem, os |-> h2.os, block_list |-> h2.block_list, jumbo_list |-> h2.jumbo_list]
  BY <1>2
<1>4. FastShaped(h2)
  BY <1>1, <1>3 DEF FastShaped
<1>5. FastLists(h2, bs, js)
  <2>1. HeadersKept(h, h2, In(bs), In(js))
    BY <1>3, <1>4 DEF HeadersKept
  <2> QED
    BY <2>1, ListsKept
<1>6. ASSUME NEW b \in In(bs) PROVE b \in Nat /\ h.mem[b].pos \in Nat /\ h2.mem[b].pos = h.mem[b].pos
  <2>1. b \in Nat
    BY InBlocks DEF FastLists, Linked
  <2>2. h.mem[b].pos \in 1 .. BlockSize
    BY DEF FastLists, BlockAt
  <2>3. h2.mem[b] = h.mem[b]
    BY <1>3
  <2> QED
    BY <2>1, <2>2, <2>3, FastFacts
<1>7. \A b \in In(bs) : b \in Nat /\ h.mem[b].pos \in Nat /\ h2.mem[b].pos \in Nat
                      /\ h.mem[b].pos <= h2.mem[b].pos
  BY <1>6
<1>8. Housed(h2, lv, In(bs), In(js))
  <2> DEFINE S == In(bs)
             J == In(js)
  <2>1. S \subseteq S /\ J \subseteq J /\ Housed(h, lv, S, J)
    OBVIOUS
  <2>2. \A i \in DOMAIN lv : h2.mem[lv[i].ptr - 1] = h.mem[lv[i].ptr - 1]
    BY <1>3
  <2>3. PlacesKept(h, h2, lv, S)
    BY <1>7, <2>2 DEF PlacesKept
  <2> HIDE DEF S, J
  <2>4. Housed(h2, lv, S, J)
    BY <2>1, <2>3, HousedKept
  <2> QED
    BY <2>4 DEF S, J
<1> QED
  BY <1>3, <1>5, <1>8

(* One allocation more and one less.                                       *)
LEMMA HousedPut ==
  ASSUME NEW h, NEW lv, NEW S, NEW J, Housed(h, lv, S, J), NEW i \in Id, NEW r, House(h, r, S, J),
         \A j \in DOMAIN lv : j # i => Apart(h, r, lv[j]),
         NEW lv2, lv2 = Fast!With(lv, i, r)
  PROVE  Housed(h, lv2, S, J) /\ lv2[i] = r /\ i \in DOMAIN lv2
         /\ \A j \in DOMAIN lv2 : j # i => j \in DOMAIN lv /\ lv2[j] = lv[j]
<1>1. /\ DOMAIN lv2 = DOMAIN lv \cup {i} /\ lv2[i] = r
      /\ \A j \in DOMAIN lv2 : j # i => j \in DOMAIN lv /\ lv2[j] = lv[j]
  BY DEF Fast!With
<1>2. \A j \in DOMAIN lv2 : House(h, lv2[j], S, J)
  BY <1>1 DEF Housed
<1>3. ASSUME NEW j \in DOMAIN lv2, NEW k \in DOMAIN lv2, j # k PROVE Apart(h, lv2[j], lv2[k])
  <2>1. CASE j = i
    BY <1>1, <1>3, <2>1
  <2>2. CASE k = i
    BY <1>1, <1>3, <2>2 DEF Apart
  <2>3. CASE j # i /\ k # i
    BY <1>1, <1>3, <2>3 DEF Housed
  <2> QED
    BY <2>1, <2>2, <2>3
<1> QED
  BY <1>1, <1>2, <1>3 DEF Housed

LEMMA HousedLess ==
  ASSUME NEW h, NEW lv, NEW S, NEW J, Housed(h, lv, S, J), NEW T, NEW lv2, lv2 = Fast!Without(lv, T)
  PROVE  Housed(h, lv2, S, J) /\ \A j \in DOMAIN lv2 : j \in DOMAIN lv /\ lv2[j] = lv[j]
<1>1. DOMAIN lv2 = DOMAIN lv \ T /\ \A j \in DOMAIN lv2 : j \in DOMAIN lv /\ lv2[j] = lv[j]
  BY DEF Fast!Without
<1> QED
  BY <1>1 DEF Housed

(* A block that is put in front of a list.                                 *)
LEMMA LinkedPush ==
  ASSUME NEW m, NEW first, NEW c, Linked(m, first, c), NEW b \in Blocks, b \notin In(c),
         NEW m2, m2[b].next = first, \A x \in In(c) : m2[x].next = m[x].next
  PROVE  Linked(m2, b, <<b>> \o c) /\ In(<<b>> \o c) = In(c) \cup {b}
<1> DEFINE e == <<b>> \o c
<1>1. c \in Seq(Blocks) /\ Len(c) \in Nat /\ \A j \in 1 .. Len(c) : c[j] \in Blocks /\ c[j] \in In(c) /\ c[j] # b
  BY DEF Linked, Chain, In
<1>2. /\ e \in Seq(Blocks) /\ Len(e) = Len(c) + 1 /\ e[1] = b
      /\ \A j \in 1 .. Len(c) : e[j + 1] = c[j]
  BY <1>1
<1> HIDE DEF e
<1>3. \A j \in 1 .. Len(e) : j # 1 => j - 1 \in 1 .. Len(c) /\ e[j] = c[j - 1]
  <2> SUFFICES ASSUME NEW j \in 1 .. Len(e), j # 1 PROVE j - 1 \in 1 .. Len(c) /\ e[j] = c[j - 1]
    OBVIOUS
  <2>1. j - 1 \in 1 .. Len(c) /\ (j - 1) + 1 = j
    BY <1>1, <1>2
  <2> QED
    BY <1>2, <2>1
<1>4. \A j, k \in 1 .. Len(e) : e[j] = e[k] => j = k
  <2> SUFFICES ASSUME NEW j \in 1 .. Len(e), NEW k \in 1 .. Len(e), e[j] = e[k] PROVE j = k
    OBVIOUS
  <2>1. CASE j = 1 \/ k = 1
    <3>1. \A i \in 1 .. Len(e) : i # 1 => e[i] # b
      <4> SUFFICES ASSUME NEW i \in 1 .. Len(e), i # 1 PROVE e[i] # b
        OBVIOUS
      <4>1. i - 1 \in 1 .. Len(c) /\ e[i] = c[i - 1]
        BY <1>3
      <4> QED
        BY <1>1, <4>1
    <3> QED
      BY <1>2, <2>1, <3>1
  <2>2. CASE j # 1 /\ k # 1
    <3>1. j - 1 = k - 1
      BY <1>3, <2>2 DEF Linked, Chain
    <3> QED
      BY <1>1, <1>2, <3>1
  <2> QED
    BY <2>1, <2>2
<1>5. Chain(e)
  BY <1>2, <1>4 DEF Chain
<1>6. ASSUME NEW j \in 1 .. Len(e) PROVE m2[e[j]].next = At(e, j + 1)
  <2>1. At(e, j + 1) = At(c, j)
    <3>1. j + 1 \in 1 .. Len(e) <=> j \in 1 .. Len(c)
      BY <1>1, <1>2
    <3> QED
      BY <1>2, <3>1 DEF At
  <2>2. CASE j = 1
    BY <1>2, <2>1, <2>2 DEF Linked
  <2>3. CASE j # 1
    <3>1. j - 1 \in 1 .. Len(c) /\ e[j] = c[j - 1] /\ (j - 1) + 1 = j
      BY <1>1, <1>2, <1>3, <2>3
    <3>2. m2[c[j - 1]].next = m[c[j - 1]].next
      BY <1>1, <3>1
    <3>3. m[c[j - 1]].next = At(c, (j - 1) + 1)
      BY <3>1 DEF Linked
    <3> QED
      BY <2>1, <3>1, <3>2, <3>3
  <2> QED
    BY <2>2, <2>3
<1>7. At(e, 1) = b
  BY <1>1, <1>2 DEF At
<1>8. In(e) = In(c) \cup {b}
  <2>1. \A j \in 1 .. Len(c) : j + 1 \in 1 .. Len(e)
    BY <1>1, <1>2
  <2>2. 1 \in 1 .. Len(e)
    BY <1>1, <1>2
  <2>3. ASSUME NEW j \in 1 .. Len(e) PROVE e[j] \in In(c) \cup {b}
    BY <1>1, <1>2, <1>3
  <2>4. ASSUME NEW j \in 1 .. Len(c) PROVE c[j] \in In(e)
    BY <1>2, <2>1 DEF In
  <2>5. b \in In(e)
    BY <1>2, <2>2 DEF In
  <2>6. In(e) \subseteq In(c) \cup {b}
    BY <2>3 DEF In
  <2>7. In(c) \subseteq In(e)
    BY <2>4 DEF In
  <2> QED
    BY <2>5, <2>6, <2>7
<1> QED
  BY <1>5, <1>6, <1>7, <1>8 DEF Linked, e

(* g_malloc: a slot that no list has.                                      *)
LEMMA FreshSlot ==
  ASSUME NEW h, NEW bs, NEW js, FastLists(h, bs, js), Fast!FreeSlots(h) # {}
  PROVE  LET s == Fast!NewSlot(h)
             b == Strict!Base(s)
         IN  /\ s \in Strict!Slot /\ s \notin h.os /\ b \in Blocks /\ Fast!Base(s) = b
             /\ b \notin In(bs) /\ b \notin In(js)
             /\ \A t \in Strict!Slot : t = s <=> Strict!Base(t) = b
<1>1. Fast!FreeSlots(h) = Strict!FreeSlots(h)
  BY FastOs DEF Fast!FreeSlots, Strict!FreeSlots
<1>2. Fast!NewSlot(h) = Strict!NewSlot(h)
  BY <1>1 DEF Fast!NewSlot, Strict!NewSlot
<1>3. Fast!NewSlot(h) \in Strict!FreeSlots(h)
  BY <1>1, <1>2, NewSlotFree
<1>4. Fast!NewSlot(h) \in Strict!Slot /\ Fast!NewSlot(h) \notin h.os
  BY <1>3 DEF Strict!FreeSlots
<1>5. \A t \in Strict!Slot : t = Fast!NewSlot(h) <=> Strict!Base(t) = Strict!Base(Fast!NewSlot(h))
  BY <1>4, SlotFacts
<1> QED
  BY <1>4, <1>5, FastOs DEF Blocks, FastLists

(* No header of a slot is beside another one's.                            *)
LEMMA BlocksApart ==
  /\ \A b, d \in Blocks : b \in Nat /\ b + 1 # d /\ (b # d => b + 1 # d + 1)
  /\ \A b \in Blocks : b \in Strict!Address /\ b + 1 \in Strict!Address /\ b + 2 \in Strict!Address
<1>1. SlotSize \in Nat /\ SlotSize >= 3
  BY FastFacts
<1>2. ASSUME NEW b \in Blocks PROVE /\ b \in Nat /\ b \in Strict!Address /\ b + 1 \in Strict!Address
                                    /\ b + 2 \in Strict!Address
  <2>1. b \in Nat
    BY BlockFacts
  <2>2. b \in b .. b + SlotSize - 1 /\ b + 1 \in b .. b + SlotSize - 1 /\ b + 2 \in b .. b + SlotSize - 1
    BY <1>1, <2>1
  <2> QED
    BY <2>1, <2>2, BlockFacts
<1>3. ASSUME NEW b \in Blocks, NEW d \in Blocks PROVE b + 1 # d /\ (b # d => b + 1 # d + 1)
  <2>1. b \in Nat /\ d \in Nat /\ (b # d => b + SlotSize <= d \/ d + SlotSize <= b)
    BY BlockFacts
  <2> QED
    BY <1>1, <2>1
<1> QED
  BY <1>2, <1>3

(* A new block, with nothing handed out                                    *)
LEMMA NewBlockIs ==
  ASSUME NEW h, NEW bs, NEW js, FastLists(h, bs, js), Fast!FreeSlots(h) # {}
  PROVE  LET b == Strict!Base(Fast!NewSlot(h))
             h2 == Fast!NewBlock(h)
         IN  /\ FastLists(h2, <<b>> \o bs, js) /\ In(<<b>> \o bs) = In(bs) \cup {b}
             /\ h2.block_list = b /\ h2.mem[b].pos = 1
             /\ \A a \in Strict!Address : a # b => h2.mem[a] = h.mem[a]
             /\ b \in Blocks /\ b \notin In(bs)
<1> DEFINE s == Fast!NewSlot(h)
           b == Strict!Base(s)
           h2 == Fast!NewBlock(h)
           x == Fast!Block(h.block_list, 1)
           m == [h.mem EXCEPT ![b] = x]
<1>1. FastShaped(h) /\ Linked(h.mem, h.block_list, bs) /\ Linked(h.mem, h.jumbo_list, js)
  BY DEF FastLists
<1>2. /\ s \in Strict!Slot /\ s \notin h.os /\ b \in Blocks /\ Fast!Base(s) = b
      /\ b \notin In(bs) /\ b \notin In(js)
      /\ \A t \in Strict!Slot : t = s <=> Strict!Base(t) = b
  BY FreshSlot
<1> HIDE DEF s
<1>3. h2 = [mem |-> m, os |-> h.os \cup {s}, block_list |-> b, jumbo_list |-> h.jumbo_list]
  <2>1. Fast!OsTake(h, s) = [mem |-> h.mem, os |-> h.os \cup {s}, block_list |-> h.block_list, jumbo_list |-> h.jumbo_list]
    BY <1>1 DEF FastShaped, Fast!OsTake
  <2>2. h2 = [Fast!OsTake(h, s) EXCEPT !.mem[b] = x, !.block_list = b]
    BY <1>2, Zenon DEF Fast!NewBlock, s
  <2> DEFINE o == Fast!OsTake(h, s)
  <2> HIDE DEF o, b, h2, x
  <2>3. h2 = [o EXCEPT !.mem = [o.mem EXCEPT ![b] = x], !.block_list = b]
    BY <2>1, <2>2 DEF o
  <2>4. o.mem = h.mem
    BY <2>1 DEF o
  <2>5. h2 = [o EXCEPT !.mem = m, !.block_list = b]
    BY <2>3, <2>4
  <2>6. o = [mem |-> h.mem, os |-> h.os \cup {s}, block_list |-> h.block_list, jumbo_list |-> h.jumbo_list]
    BY <2>1 DEF o
  <2> HIDE DEF m
  <2> QED
    BY <2>5, <2>6
<1>4. b \in Strict!Address /\ \A d \in Blocks : d + 1 # b
  BY <1>2, BlocksApart
<1>5. m[b] = x /\ (\A a \in Strict!Address : a # b => m[a] = h.mem[a]) /\ m = [a \in Strict!Address |-> m[a]]
  <2> HIDE DEF b, x
  <2> QED
    BY <1>1, <1>4 DEF FastShaped
<1>6. x.next = h.block_list /\ x.pos = 1 /\ x = Fast!Block(x.next, x.pos)
  BY DEF Fast!Block
<1> HIDE DEF h2, m, b, x
<1>7. /\ h2.mem = m /\ h2.os = h.os \cup {s} /\ h2.block_list = b /\ h2.jumbo_list = h.jumbo_list
      /\ h2 = [mem |-> h2.mem, os |-> h2.os, block_list |-> h2.block_list, jumbo_list |-> h2.jumbo_list]
  BY <1>3
<1>8. /\ \A d \in In(bs) \cup In(js) : d \in Blocks /\ m[d] = h.mem[d]
      /\ \A d \in In(js) : m[d + 1] = h.mem[d + 1]
  BY <1>1, <1>2, <1>4, <1>5, InBlocks, BlocksApart DEF Linked
<1>9. Linked(m, b, <<b>> \o bs) /\ In(<<b>> \o bs) = In(bs) \cup {b}
  BY <1>1, <1>2, <1>5, <1>6, <1>8, LinkedPush
<1>10. Linked(m, h.jumbo_list, js)
  BY <1>1, <1>8 DEF Linked, In
<1>11. FastShaped(h2)
  <2>1. h2.os \in SUBSET Strict!Slot
    BY <1>1, <1>2, <1>7 DEF FastShaped
  <2> QED
    BY <1>5, <1>7, <2>1 DEF FastShaped
<1>12. \A t \in Strict!Slot : t \in h2.os <=> Strict!Base(t) \in (In(bs) \cup {b}) \cup In(js)
  BY <1>2, <1>7 DEF FastLists
<1>13. \A d \in In(bs) \cup {b} : BlockAt(m, d)
  <2>1. ASSUME NEW d \in In(bs) PROVE BlockAt(m, d)
    BY <1>8 DEF FastLists, BlockAt
  <2>2. BlockAt(m, b)
    BY <1>5, <1>6, FastFacts DEF BlockAt
  <2> QED
    BY <2>1, <2>2
<1>14. \A d \in In(js) : JumboAt(m, d)
  BY <1>8 DEF FastLists, JumboAt
<1>15. Told(m, In(js))
  BY <1>8 DEF FastLists, Told
<1>16. (In(bs) \cup {b}) \cap In(js) = {}
  BY <1>2 DEF FastLists
<1>17. FastLists(h2, <<b>> \o bs, js)
  BY <1>7, <1>9, <1>10, <1>11, <1>12, <1>13, <1>14, <1>15, <1>16 DEF FastLists
<1> QED
  BY <1>2, <1>5, <1>6, <1>7, <1>9, <1>17 DEF h2, b, s

(* and a new jumbo.                                                        *)
LEMMA NewJumboIs ==
  ASSUME NEW h, NEW bs, NEW js, FastLists(h, bs, js), Fast!FreeSlots(h) # {}
  PROVE  LET b == Strict!Base(Fast!NewSlot(h))
             h2 == Fast!AllocJumbo(h)
         IN  /\ FastLists(h2, bs, <<b>> \o js) /\ In(<<b>> \o js) = In(js) \cup {b}
             /\ h2.mem[b + 1] = Fast!Chunk(-1)
             /\ \A a \in Strict!Address : a # b /\ a # b + 1 => h2.mem[a] = h.mem[a]
             /\ b \in Blocks /\ b \notin In(bs) /\ b \notin In(js)
<1> DEFINE s == Fast!NewSlot(h)
           b == Strict!Base(s)
           h2 == Fast!AllocJumbo(h)
           x == Fast!Jumbo(0, h.jumbo_list)
           y == Fast!Chunk(-1)
           m == [[h.mem EXCEPT ![b] = x] EXCEPT ![b + 1] = y]
<1>1. FastShaped(h) /\ Linked(h.mem, h.block_list, bs) /\ Linked(h.mem, h.jumbo_list, js)
  BY DEF FastLists
<1>2. /\ s \in Strict!Slot /\ s \notin h.os /\ b \in Blocks /\ Fast!Base(s) = b
      /\ b \notin In(bs) /\ b \notin In(js)
      /\ \A t \in Strict!Slot : t = s <=> Strict!Base(t) = b
  BY FreshSlot
<1> HIDE DEF s
<1>3. h2 = [mem |-> m, os |-> h.os \cup {s}, block_list |-> h.block_list, jumbo_list |-> b]
  <2>1. Fast!OsTake(h, s) = [mem |-> h.mem, os |-> h.os \cup {s}, block_list |-> h.block_list, jumbo_list |-> h.jumbo_list]
    BY <1>1 DEF FastShaped, Fast!OsTake
  <2>2. h2 = [Fast!OsTake(h, s) EXCEPT !.mem[b] = x, !.mem[b + 1] = y, !.jumbo_list = b]
    BY <1>2, Zenon DEF Fast!AllocJumbo, Fast!Null, Fast!JumboMagic, s
  <2> DEFINE o == Fast!OsTake(h, s)
             c == b + 1
  <2> HIDE DEF o, b, h2, x, y, c
  <2>3. h2 = [[[o EXCEPT !.mem = [o.mem EXCEPT ![b] = x]] EXCEPT !.mem[c] = y] EXCEPT !.jumbo_list = b]
    BY <2>1, <2>2 DEF o, c
  <2>4. o.mem = h.mem
    BY <2>1 DEF o
  <2> DEFINE m1 == [h.mem EXCEPT ![b] = x]
  <2>5. h2 = [[[o EXCEPT !.mem = m1] EXCEPT !.mem[c] = y] EXCEPT !.jumbo_list = b]
    BY <2>3, <2>4
  <2>6. o = [mem |-> h.mem, os |-> h.os \cup {s}, block_list |-> h.block_list, jumbo_list |-> h.jumbo_list]
    BY <2>1 DEF o
  <2> HIDE DEF m1
  <2> DEFINE o1 == [o EXCEPT !.mem = m1]
  <2>7. o1 = [mem |-> m1, os |-> h.os \cup {s}, block_list |-> h.block_list, jumbo_list |-> h.jumbo_list]
    BY <2>6
  <2>8. h2 = [[o1 EXCEPT !.mem[c] = y] EXCEPT !.jumbo_list = b]
    BY <2>5
  <2> HIDE DEF o1
  <2>9. h2 = [[o1 EXCEPT !.mem = [o1.mem EXCEPT ![c] = y]] EXCEPT !.jumbo_list = b]
    BY <2>7, <2>8
  <2>10. o1.mem = m1
    BY <2>7
  <2>11. h2 = [[o1 EXCEPT !.mem = m] EXCEPT !.jumbo_list = b]
    BY <2>9, <2>10 DEF m1, c
  <2> HIDE DEF m
  <2> QED
    BY <2>7, <2>11
<1>4. b \in Strict!Address /\ b + 1 \in Strict!Address /\ b # b + 1
      /\ \A d \in Blocks : d + 1 # b /\ b + 1 # d /\ (d # b => d + 1 # b + 1)
  <2>1. b \in Nat
    BY <1>2, BlockFacts
  <2>2. b # b + 1
    BY <2>1
  <2> HIDE DEF b
  <2> QED
    BY <1>2, <2>2, BlocksApart
<1>5. /\ m[b] = x /\ m[b + 1] = y /\ m = [a \in Strict!Address |-> m[a]]
      /\ \A a \in Strict!Address : a # b /\ a # b + 1 => m[a] = h.mem[a]
  <2> DEFINE c == b + 1
  <2>1. c \in Strict!Address /\ c # b /\ b \in Strict!Address
    BY <1>4
  <2> HIDE DEF b, x, y, c
  <2>2. m = [[h.mem EXCEPT ![b] = x] EXCEPT ![c] = y]
    BY DEF c
  <2> HIDE DEF m
  <2>3. /\ m[b] = x /\ m[c] = y /\ m = [a \in Strict!Address |-> m[a]]
        /\ \A a \in Strict!Address : a # b /\ a # c => m[a] = h.mem[a]
    BY <1>1, <2>1, <2>2 DEF FastShaped
  <2> QED
    BY <2>3 DEF c
<1>6. x.next = h.jumbo_list /\ x.prev = 0 /\ x = Fast!Jumbo(x.prev, x.next)
  BY DEF Fast!Jumbo
<1> HIDE DEF h2, m, b, x, y
<1>7. /\ h2.mem = m /\ h2.os = h.os \cup {s} /\ h2.block_list = h.block_list /\ h2.jumbo_list = b
      /\ h2 = [mem |-> h2.mem, os |-> h2.os, block_list |-> h2.block_list, jumbo_list |-> h2.jumbo_list]
  BY <1>3
<1>8. /\ \A d \in In(bs) \cup In(js) : d \in Blocks /\ d # b
      /\ \A d \in In(bs) \cup In(js) : m[d] = h.mem[d]
      /\ \A d \in In(js) : m[d + 1] = h.mem[d + 1]
  <2>1. \A d \in In(bs) \cup In(js) : d \in Blocks /\ d # b
    BY <1>1, <1>2, InBlocks DEF Linked
  <2>2. \A d \in In(bs) \cup In(js) : d \in Strict!Address /\ d + 1 \in Strict!Address
    BY <2>1, BlocksApart
  <2>3. ASSUME NEW d \in In(bs) \cup In(js) PROVE m[d] = h.mem[d] /\ m[d + 1] = h.mem[d + 1]
    <3>1. d # b /\ d # b + 1 /\ d + 1 # b /\ d + 1 # b + 1
      BY <1>4, <2>1
    <3> QED
      BY <1>5, <2>2, <3>1
  <2> QED
    BY <2>1, <2>3
<1>9. Linked(m, b, <<b>> \o js) /\ In(<<b>> \o js) = In(js) \cup {b}
  BY <1>1, <1>2, <1>5, <1>6, <1>8, LinkedPush
<1>10. Linked(m, h.block_list, bs)
  BY <1>1, <1>8 DEF Linked, In
<1>11. FastShaped(h2)
  <2>1. h2.os \in SUBSET Strict!Slot
    BY <1>1, <1>2, <1>7 DEF FastShaped
  <2> QED
    BY <1>5, <1>7, <2>1 DEF FastShaped
<1>12. \A t \in Strict!Slot : t \in h2.os <=> Strict!Base(t) \in In(bs) \cup (In(js) \cup {b})
  BY <1>2, <1>7 DEF FastLists
<1>13. \A d \in In(bs) : BlockAt(m, d)
  BY <1>8 DEF FastLists, BlockAt
<1>14. \A d \in In(js) \cup {b} : JumboAt(m, d)
  <2>1. ASSUME NEW d \in In(js) PROVE JumboAt(m, d)
    BY <1>8 DEF FastLists, JumboAt
  <2>2. JumboAt(m, b)
    BY <1>5, <1>6 DEF JumboAt, y
  <2> QED
    BY <2>1, <2>2
<1>15. Told(m, In(js) \cup {b})
  BY <1>5, <1>6, <1>8 DEF FastLists, Told
<1>16. In(bs) \cap (In(js) \cup {b}) = {}
  BY <1>2 DEF FastLists
<1>17. FastLists(h2, bs, <<b>> \o js)
  BY <1>7, <1>9, <1>10, <1>11, <1>12, <1>13, <1>14, <1>15, <1>16 DEF FastLists
<1> QED
  BY <1>2, <1>5, <1>7, <1>9, <1>17 DEF h2, b, s, y

(* What an alloc finds for r: room that nobody has, and every allocation   *)
(* of lv stays where it is and as it is.                                   *)
Fresh(h, lv, bs, js, h2, r) ==
  /\ FastLists(h2, bs, js) /\ Housed(h2, lv, In(bs), In(js)) /\ House(h2, r, In(bs), In(js))
  /\ \A j \in DOMAIN lv : Apart(h2, r, lv[j])
  /\ \A j \in DOMAIN lv : \A a \in Strict!CellsOf(lv[j]) : h2.mem[a] = h.mem[a]

(* A block of their own                                                    *)
LEMMA JumboFresh ==
  ASSUME NEW h, NEW bs, NEW js, FastLists(h, bs, js), NEW lv, Housed(h, lv, In(bs), In(js)),
         Fast!FreeSlots(h) # {}, NEW size \in Size,
         NEW r, r = [ptr |-> Fast!Base(Fast!NewSlot(h)) + 2, size |-> size]
  PROVE  \E js2 : Fresh(h, lv, bs, js2, Fast!AllocJumbo(h), r)
<1> DEFINE b == Strict!Base(Fast!NewSlot(h))
           h2 == Fast!AllocJumbo(h)
           js2 == <<b>> \o js
<1>1. /\ FastLists(h2, bs, js2) /\ In(js2) = In(js) \cup {b}
      /\ h2.mem[b + 1] = Fast!Chunk(-1)
      /\ \A a \in Strict!Address : a # b /\ a # b + 1 => h2.mem[a] = h.mem[a]
      /\ b \in Blocks /\ b \notin In(bs) /\ b \notin In(js)
  BY NewJumboIs
<1>2. r.ptr = b + 2 /\ r.size = size /\ r = [ptr |-> r.ptr, size |-> r.size]
  BY FastOs
<1> HIDE DEF b, h2, js2
<1>3. /\ b \in Nat /\ SlotSize \in Nat /\ SlotSize >= 3
      /\ \A d \in Blocks : d # b => b + SlotSize <= d \/ d + SlotSize <= b
  BY <1>1, BlockFacts, FastFacts
<1>4. \A d \in In(bs) \cup In(js) : d \in Blocks /\ d \in Nat /\ d # b
  BY <1>1, InBlocks DEF FastLists, Linked
<1>5. ASSUME NEW j \in DOMAIN lv, NEW a \in Span(h, lv[j])
      PROVE  a \in Strict!Address /\ a \in Int /\ (a < b \/ a > b + SlotSize - 1)
  <2>1. House(h, lv[j], In(bs), In(js))
    BY DEF Housed
  <2>2. PICK d \in In(bs) \cup In(js) : d < a /\ a <= d + SlotSize - 1
    BY <2>1, InHouse
  <2>3. a \in Int
    <3>1. lv[j].ptr \in Nat
      BY <2>1 DEF House
    <3> QED
      BY <3>1 DEF Span
  <2>4. d \in Blocks /\ d \in Nat /\ d # b
    BY <1>4
  <2>5. a < b \/ a > b + SlotSize - 1
    BY <1>3, <2>2, <2>3, <2>4
  <2> QED
    BY <2>3, <2>5, CellsPlain
<1>6. ASSUME NEW j \in DOMAIN lv, NEW a \in Span(h, lv[j]) PROVE h2.mem[a] = h.mem[a]
  <2>1. a # b /\ a # b + 1
    BY <1>3, <1>5
  <2> QED
    BY <1>1, <1>5, <2>1
<1>7. ASSUME NEW j \in DOMAIN lv
      PROVE  /\ h2.mem[lv[j].ptr - 1] = h.mem[lv[j].ptr - 1]
             /\ \A a \in Strict!CellsOf(lv[j]) : h2.mem[a] = h.mem[a]
  <2>1. House(h, lv[j], In(bs), In(js))
    BY DEF Housed
  <2>2. lv[j].ptr - 1 \in Span(h, lv[j]) /\ \A a \in Strict!CellsOf(lv[j]) : a \in Span(h, lv[j])
    BY <2>1, SpanIs
  <2> QED
    BY <1>6, <2>2
<1>8. Housed(h2, lv, In(bs), In(js2)) /\ \A j \in DOMAIN lv : Span(h2, lv[j]) = Span(h, lv[j])
  <2> DEFINE S == In(bs)
             J == In(js)
             J2 == In(js2)
  <2>1. S \subseteq S /\ J \subseteq J2 /\ Housed(h, lv, S, J)
    BY <1>1
  <2>2. ASSUME NEW d \in S PROVE d \in Nat /\ h.mem[d].pos \in Nat /\ h2.mem[d].pos = h.mem[d].pos
    <3>1. h.mem[d].pos \in 1 .. BlockSize /\ BlockSize \in Nat
      BY FastFacts DEF FastLists, BlockAt
    <3>2. d \in Strict!Address /\ d # b + 1 /\ d # b
      BY <1>1, <1>4, BlocksApart
    <3> QED
      BY <1>1, <1>4, <3>1, <3>2
  <2>3. \A d \in S : d \in Nat /\ h.mem[d].pos \in Nat /\ h2.mem[d].pos \in Nat
                      /\ h.mem[d].pos <= h2.mem[d].pos
    BY <2>2
  <2>4. PlacesKept(h, h2, lv, S)
    BY <1>7, <2>3 DEF PlacesKept
  <2> HIDE DEF S, J, J2
  <2>5. Housed(h2, lv, S, J2) /\ \A j \in DOMAIN lv : Span(h2, lv[j]) = Span(h, lv[j])
    BY <2>1, <2>4, HousedKept
  <2> QED
    BY <2>5 DEF S, J2
<1>9. House(h2, r, In(bs), In(js2))
  <2>1. r.ptr \in Nat /\ r.ptr - 2 = b /\ r.ptr - 1 = b + 1
    BY <1>2, <1>3
  <2> QED
    BY <1>1, <1>2, <2>1 DEF House
<1>10. ASSUME NEW j \in DOMAIN lv PROVE Apart(h2, r, lv[j])
  <2>1. \A a \in Span(h2, r) : b < a /\ a <= b + SlotSize - 1
    <3> DEFINE u == Strict!Units(size)
    <3>1. Room(h2, r) = size /\ r.ptr - 1 = b + 1
      <4>1. r.ptr - 1 = b + 1
        BY <1>2, <1>3
      <4> QED
        BY <1>1, <1>2, <4>1 DEF Room, Fast!Chunk
    <3>2. u \in Nat /\ u + 2 <= SlotSize
      BY FastFacts
    <3>3. Span(h2, r) = b + 1 .. b + 1 + u
      BY <3>1 DEF Span
    <3> HIDE DEF u
    <3> QED
      BY <1>3, <3>2, <3>3
  <2>2. \A a \in Span(h2, lv[j]) : a \in Int /\ (a < b \/ a > b + SlotSize - 1)
    BY <1>5, <1>8
  <2> QED
    BY <1>3, <2>1, <2>2 DEF Apart
<1> QED
  BY <1>1, <1>7, <1>8, <1>9, <1>10 DEF Fresh, h2, js2

(* or the next part, at c, of the first block.                             *)
Carved(h, h2, c, size) ==
  /\ FastShaped(h2)
  /\ h2.os = h.os /\ h2.block_list = h.block_list /\ h2.jumbo_list = h.jumbo_list
  /\ c = h.block_list + h.mem[h.block_list].pos
  /\ h2.mem[c] = Fast!Chunk(size)
  /\ h2.mem[h.block_list]
       = Fast!Block(h.mem[h.block_list].next, h.mem[h.block_list].pos + Strict!Units(size) + 1)
  /\ \A a \in Strict!Address : a # h.block_list /\ a # c => h2.mem[a] = h.mem[a]

LEMMA FirstBlock ==
  ASSUME NEW h, NEW bs, NEW js, FastLists(h, bs, js), h.block_list # 0
  PROVE  h.block_list \in In(bs) /\ h.block_list \in Blocks /\ h.block_list \in Nat /\ h.block_list \notin In(js)
<1> DEFINE b == h.block_list
<1>1. Linked(h.mem, b, bs) /\ In(bs) \cap In(js) = {}
  BY DEF FastLists
<1>2. b = At(bs, 1) /\ b # 0
  BY <1>1 DEF Linked
<1>3. 1 \in 1 .. Len(bs) /\ b = bs[1]
  BY <1>2 DEF At
<1>4. b \in In(bs)
  BY <1>3 DEF In
<1> QED
  BY <1>1, <1>4, InBlocks DEF Linked

(* There it is, when the block is not full.                                *)
LEMMA CarvedPlace ==
  ASSUME NEW h, NEW bs, NEW js, FastLists(h, bs, js), h.block_list # 0, NEW size \in Size,
         h.mem[h.block_list].pos + Strict!Units(size) + 1 <= BlockSize
  PROVE  LET b == h.block_list
             c == b + h.mem[b].pos
         IN  /\ c \in Nat /\ b < c /\ c <= b + SlotSize - 1
             /\ c \in Strict!Address /\ b \in Strict!Address
<1> DEFINE b == h.block_list
           p == h.mem[b].pos
           u == Strict!Units(size)
<1>1. b \in In(bs) /\ b \in Blocks /\ b \in Nat
  BY FirstBlock
<1>2. p \in 1 .. BlockSize
  BY <1>1 DEF FastLists, BlockAt
<1>3. u \in Nat /\ BlockSize \in Nat /\ BlockSize <= SlotSize /\ SlotSize \in Nat /\ p + u + 1 <= BlockSize
  BY FastFacts
<1> HIDE DEF b, p, u
<1>4. b + p \in Nat /\ b < b + p /\ b + p <= b + SlotSize - 1 /\ b + p \in b .. b + SlotSize - 1
      /\ b \in b .. b + SlotSize - 1
  BY <1>1, <1>2, <1>3
<1>5. b + p \in Strict!Address /\ b \in Strict!Address
  BY <1>1, <1>4, BlockFacts
<1> QED
  BY <1>4, <1>5 DEF b, p

LEMMA CarvedIs ==
  ASSUME NEW h, NEW bs, NEW js, FastLists(h, bs, js), h.block_list # 0, NEW size \in Size,
         h.mem[h.block_list].pos + Strict!Units(size) + 1 <= BlockSize
  PROVE  LET b == h.block_list
             c == b + h.mem[b].pos
         IN  Carved(h, [h EXCEPT !.mem[c] = Fast!Chunk(size), !.mem[b].pos = @ + Fast!RealSize(size)], c, size)
<1> DEFINE b == h.block_list
           p == h.mem[b].pos
           c == b + p
           u == Strict!Units(size)
           n == h.mem[b].next
           y == Fast!Chunk(size)
           w == Fast!RealSize(size)
           x == Fast!Block(n, p + u + 1)
           h2 == [h EXCEPT !.mem[c] = y, !.mem[b].pos = @ + w]
           m1 == [h.mem EXCEPT ![c] = y]
           m == [m1 EXCEPT ![b] = x]
           o1 == [mem |-> m1, os |-> h.os, block_list |-> h.block_list, jumbo_list |-> h.jumbo_list]
<1>1. FastShaped(h)
  BY DEF FastLists
<1>2. h.mem[b] = Fast!Block(n, p) /\ p \in 1 .. BlockSize /\ b \in Nat
  BY FirstBlock DEF FastLists, BlockAt
<1>3. /\ c \in Nat /\ b < c /\ c \in Strict!Address /\ b \in Strict!Address
  BY CarvedPlace
<1>4. w = u + 1 /\ u \in Nat /\ BlockSize \in Nat
  BY FastOs, FastFacts DEF Fast!RealSize
<1>5. c # b
  BY <1>2, <1>3
<1> HIDE DEF w, u, y, n, c
<1>6. h = [mem |-> h.mem, os |-> h.os, block_list |-> h.block_list, jumbo_list |-> h.jumbo_list]
      /\ h.mem = [a \in Strict!Address |-> h.mem[a]] /\ h.os \in SUBSET Strict!Slot
  BY <1>1 DEF FastShaped
<1>7. o1 = [h EXCEPT !.mem[c] = y]
  BY <1>6
<1> DEFINE v == p + w
<1>8. h2 = [[h EXCEPT !.mem[c] = y] EXCEPT !.mem[b].pos = v]
  OBVIOUS
<1> HIDE DEF v, m1, p, b, h2
<1>9. h2 = [o1 EXCEPT !.mem[b].pos = v]
  BY <1>7, <1>8
<1>10. h2 = [o1 EXCEPT !.mem = [m1 EXCEPT ![b] = [m1[b] EXCEPT !.pos = v]]]
  BY <1>9
<1>11. m1[b] = Fast!Block(n, p)
  BY <1>2, <1>3, <1>5, <1>6 DEF m1
<1>12. [m1[b] EXCEPT !.pos = v] = x
  <2>1. p \in Nat /\ v = p + u + 1
    BY <1>2, <1>4 DEF v
  <2> QED
    BY <1>11, <2>1 DEF Fast!Block
<1>13. h2 = [o1 EXCEPT !.mem = m]
  BY <1>10, <1>12
<1> HIDE DEF m
<1>14. h2 = [mem |-> m, os |-> h.os, block_list |-> h.block_list, jumbo_list |-> h.jumbo_list]
  BY <1>13
<1> HIDE DEF o1, x
<1>15. /\ h2.mem = m /\ h2.os = h.os /\ h2.block_list = h.block_list /\ h2.jumbo_list = h.jumbo_list
       /\ h2 = [mem |-> h2.mem, os |-> h2.os, block_list |-> h2.block_list, jumbo_list |-> h2.jumbo_list]
  BY <1>14
<1>16. /\ m[b] = x /\ m[c] = y /\ m = [a \in Strict!Address |-> m[a]]
       /\ \A a \in Strict!Address : a # b /\ a # c => m[a] = h.mem[a]
  BY <1>3, <1>5, <1>6 DEF m, m1
<1>17. FastShaped(h2)
  BY <1>6, <1>15, <1>16 DEF FastShaped
<1>18. Carved(h, h2, c, size)
  BY <1>15, <1>16, <1>17 DEF Carved, c, p, b, y, x, n, u
<1> QED
  BY <1>18 DEF h2, c, p, b, y, w

LEMMA ChunkFresh ==
  ASSUME NEW h, NEW bs, NEW js, FastLists(h, bs, js), NEW lv, Housed(h, lv, In(bs), In(js)),
         h.block_list # 0, NEW size \in Size,
         h.mem[h.block_list].pos + Strict!Units(size) + 1 <= BlockSize,
         NEW c, NEW h2, Carved(h, h2, c, size),
         NEW r, r = [ptr |-> r.ptr, size |-> r.size], r.ptr = c + 1, r.size = size
  PROVE  Fresh(h, lv, bs, js, h2, r)
<1> DEFINE b == h.block_list
           u == Strict!Units(size)
           p == h.mem[b].pos
           n == h.mem[b].next
           y == Fast!Chunk(size)
           x == Fast!Block(n, p + u + 1)
           m == h2.mem
<1>1. FastShaped(h) /\ Linked(h.mem, h.block_list, bs) /\ Linked(h.mem, h.jumbo_list, js)
      /\ In(bs) \cap In(js) = {}
  BY DEF FastLists
<1>2. b \in In(bs) /\ b \in Blocks /\ b \in Nat /\ b \notin In(js)
  BY FirstBlock
<1>3. h.mem[b] = Fast!Block(n, p) /\ p \in 1 .. BlockSize
  BY <1>2 DEF FastLists, BlockAt
<1>4. /\ u \in Nat /\ p \in Nat /\ p >= 1 /\ p + u + 1 <= BlockSize /\ p + u + 1 \in 1 .. BlockSize
      /\ BlockSize \in Nat /\ BlockSize <= SlotSize /\ SlotSize \in Nat /\ size \in Nat
  <2>1. u \in Nat /\ BlockSize \in Nat /\ BlockSize <= SlotSize /\ SlotSize \in Nat /\ size \in Nat
    BY FastFacts
  <2>2. p + u + 1 <= BlockSize
    OBVIOUS
  <2> HIDE DEF u, p
  <2> QED
    BY <1>3, <2>1, <2>2
<1>5. c = b + p
  BY DEF Carved
<1>6. /\ c \in Nat /\ b < c /\ c <= b + SlotSize - 1
      /\ c \in Strict!Address /\ b \in Strict!Address
  BY <1>5, CarvedPlace
<1>7. /\ m[b] = x /\ m[c] = y
      /\ \A a \in Strict!Address : a # b /\ a # c => m[a] = h.mem[a]
  BY DEF Carved
<1>8. /\ h2.mem = m /\ h2.os = h.os /\ h2.block_list = h.block_list /\ h2.jumbo_list = h.jumbo_list
      /\ FastShaped(h2)
  BY DEF Carved
<1>9. x.next = n /\ x.pos = p + u + 1 /\ x = Fast!Block(x.next, x.pos)
  BY DEF Fast!Block
<1> HIDE DEF m, x, u, p, n, y, b
<1>10. \A d \in In(bs) \cup In(js) : d \in Blocks /\ d \in Nat /\ d \in Strict!Address /\ d + 1 \in Strict!Address
  BY <1>1, InBlocks, BlocksApart DEF Linked
<1>11. \A d \in Blocks : d # c /\ (d # b => d + 1 # c /\ d + 1 # b)
  <2>1. ASSUME NEW d \in Blocks PROVE d # c /\ (d # b => d + 1 # c /\ d + 1 # b)
    <3>1. d \in Nat /\ (d # b => b + SlotSize <= d \/ d + SlotSize <= b)
      BY <1>2, BlockFacts
    <3>2. SlotSize >= 3
      BY FastFacts
    <3> QED
      BY <1>2, <1>4, <1>6, <3>1, <3>2
  <2> QED
    BY <2>1
<1>12. /\ \A d \in In(bs) \cup In(js) : d # b => m[d] = h.mem[d]
       /\ \A d \in In(js) : m[d + 1] = h.mem[d + 1]
  BY <1>2, <1>7, <1>10, <1>11
<1>13. m[b].next = h.mem[b].next
  BY <1>7, <1>9 DEF n
<1>14. FastLists(h2, bs, js)
  <2>1. Linked(m, h.block_list, bs) /\ Linked(m, h.jumbo_list, js)
    <3>1. \A d \in In(bs) \cup In(js) : m[d].next = h.mem[d].next
      BY <1>12, <1>13
    <3> QED
      BY <1>1, <3>1 DEF Linked, In
  <2>2. \A d \in In(bs) : BlockAt(m, d)
    <3>1. ASSUME NEW d \in In(bs), d # b PROVE BlockAt(m, d)
      BY <1>12, <3>1 DEF FastLists, BlockAt
    <3>2. BlockAt(m, b)
      BY <1>4, <1>7, <1>9 DEF BlockAt
    <3> QED
      BY <3>1, <3>2
  <2>3. \A d \in In(js) : JumboAt(m, d)
    BY <1>2, <1>12 DEF FastLists, JumboAt
  <2>4. Told(m, In(js))
    BY <1>2, <1>12 DEF FastLists, Told
  <2> QED
    BY <1>1, <1>8, <2>1, <2>2, <2>3, <2>4 DEF FastLists, b
<1>15. ASSUME NEW j \in DOMAIN lv, NEW a \in Span(h, lv[j])
       PROVE  a \in Strict!Address /\ a \in Int /\ a # b /\ (a < c \/ a > b + SlotSize - 1)
  <2>1. House(h, lv[j], In(bs), In(js))
    BY DEF Housed
  <2>2. PICK d \in In(bs) \cup In(js) : /\ d < a /\ a <= d + SlotSize - 1
                                        /\ d \in In(bs) => a < d + h.mem[d].pos
    BY <2>1, InHouse
  <2>3. a \in Int
    <3>1. lv[j].ptr \in Nat
      BY <2>1 DEF House
    <3> QED
      BY <3>1 DEF Span
  <2>4. d \in Blocks /\ d \in Nat /\ (d # b => b + SlotSize <= d \/ d + SlotSize <= b)
    BY <1>2, <1>10, BlockFacts
  <2>5. ASSUME d = b PROVE a # b /\ a < c
    BY <1>2, <1>4, <1>5, <1>6, <2>2, <2>3, <2>5 DEF p
  <2>6. ASSUME d # b PROVE a # b /\ (a < c \/ a > b + SlotSize - 1)
    <3>1. CASE b + SlotSize <= d
      BY <1>2, <1>4, <2>2, <2>3, <2>4, <3>1
    <3>2. CASE d + SlotSize <= b
      BY <1>2, <1>4, <1>6, <2>2, <2>3, <2>4, <3>2
    <3> QED
      BY <2>4, <2>6, <3>1, <3>2
  <2>7. a \in Strict!Address
    BY CellsPlain
  <2> QED
    BY <2>3, <2>5, <2>6, <2>7
<1>16. ASSUME NEW j \in DOMAIN lv, NEW a \in Span(h, lv[j]) PROVE m[a] = h.mem[a]
  BY <1>2, <1>4, <1>5, <1>6, <1>7, <1>15
<1>17. ASSUME NEW j \in DOMAIN lv
       PROVE  /\ m[lv[j].ptr - 1] = h.mem[lv[j].ptr - 1]
              /\ \A a \in Strict!CellsOf(lv[j]) : m[a] = h.mem[a]
  <2>1. House(h, lv[j], In(bs), In(js))
    BY DEF Housed
  <2>2. lv[j].ptr - 1 \in Span(h, lv[j]) /\ \A a \in Strict!CellsOf(lv[j]) : a \in Span(h, lv[j])
    BY <2>1, SpanIs
  <2> QED
    BY <1>16, <2>2
<1>18. Housed(h2, lv, In(bs), In(js)) /\ \A j \in DOMAIN lv : Span(h2, lv[j]) = Span(h, lv[j])
  <2> DEFINE S == In(bs)
             J == In(js)
  <2>1. S \subseteq S /\ J \subseteq J /\ Housed(h, lv, S, J)
    OBVIOUS
  <2>2. ASSUME NEW d \in S
        PROVE  d \in Nat /\ h.mem[d].pos \in Nat /\ m[d].pos \in Nat /\ h.mem[d].pos <= m[d].pos
    <3>1. h.mem[d].pos \in 1 .. BlockSize /\ d \in Nat
      BY <1>10 DEF FastLists, BlockAt
    <3>2. CASE d = b
      BY <1>4, <1>7, <1>9, <3>1, <3>2 DEF p
    <3>3. CASE d # b
      BY <1>4, <1>12, <3>1, <3>3
    <3> QED
      BY <3>2, <3>3
  <2>3. PlacesKept(h, h2, lv, S)
    BY <1>8, <1>17, <2>2 DEF PlacesKept
  <2> HIDE DEF S, J
  <2>4. Housed(h2, lv, S, J) /\ \A j \in DOMAIN lv : Span(h2, lv[j]) = Span(h, lv[j])
    BY <2>1, <2>3, HousedKept
  <2> QED
    BY <2>4 DEF S, J
<1>19. r.ptr = c + 1 /\ r.size = size /\ r = [ptr |-> r.ptr, size |-> r.size] /\ r.ptr - 1 = c /\ r.ptr \in Nat
  BY <1>6
<1>20. Room(h2, r) = size /\ h2.mem[r.ptr - 1] = Fast!Chunk(size)
  <2>1. h2.mem[r.ptr - 1] = Fast!Chunk(size)
    BY <1>7, <1>8, <1>19 DEF y
  <2>2. h2.mem[r.ptr - 1].len = size
    BY <2>1 DEF Fast!Chunk
  <2> QED
    BY <1>4, <2>1, <2>2 DEF Room
<1>21. House(h2, r, In(bs), In(js))
  <2>1. h2.mem[b].pos = p + u + 1
    BY <1>7, <1>9, <1>8
  <2>2. b < r.ptr - 1 /\ r.ptr + Strict!Units(size) <= b + h2.mem[b].pos
    <3>1. r.ptr + u <= b + (p + u + 1)
      BY <1>2, <1>4, <1>5, <1>6, <1>19
    <3> QED
      BY <1>6, <1>19, <2>1, <3>1 DEF u
  <2> QED
    BY <1>2, <1>4, <1>19, <1>20, <2>2 DEF House
<1>22. ASSUME NEW j \in DOMAIN lv PROVE Apart(h2, r, lv[j])
  <2>1. Span(h2, r) = c .. c + u
    BY <1>19, <1>20 DEF Span, u
  <2>2. \A a \in Span(h2, lv[j]) : a \in Int /\ (a < c \/ a > b + SlotSize - 1)
    BY <1>15, <1>18
  <2>3. c + u <= b + SlotSize - 1
    BY <1>2, <1>4, <1>5
  <2>4. ASSUME NEW a \in c .. c + u PROVE a \notin Span(h2, lv[j])
    <3>1. a \in Int /\ c <= a /\ a <= c + u
      BY <1>4, <1>6
    <3>2. ~(a < c) /\ ~(a > b + SlotSize - 1)
      BY <1>2, <1>4, <1>6, <2>3, <3>1
    <3> QED
      BY <2>2, <3>2
  <2> QED
    BY <2>1, <2>4 DEF Apart
<1> QED
  BY <1>8, <1>14, <1>17, <1>18, <1>21, <1>22 DEF Fresh

(* wmem_block_fast_alloc: in each case such room.                          *)
LEMMA FullIs ==
  ASSUME NEW h, NEW bs, NEW js, FastLists(h, bs, js), NEW lv, Housed(h, lv, In(bs), In(js)),
         Fast!FreeSlots(h) # {}
  PROVE  LET h2 == Fast!NewBlock(h)
         IN  \E bs2 : /\ FastLists(h2, bs2, js) /\ Housed(h2, lv, In(bs2), In(js))
                      /\ \A j \in DOMAIN lv : \A a \in Strict!CellsOf(lv[j]) : h2.mem[a] = h.mem[a]
                      /\ h2.block_list # 0 /\ h2.mem[h2.block_list].pos = 1
<1> DEFINE b == Strict!Base(Fast!NewSlot(h))
           h2 == Fast!NewBlock(h)
           bs2 == <<b>> \o bs
<1>1. /\ FastLists(h2, bs2, js) /\ In(bs2) = In(bs) \cup {b}
      /\ h2.block_list = b /\ h2.mem[b].pos = 1
      /\ \A a \in Strict!Address : a # b => h2.mem[a] = h.mem[a]
      /\ b \in Blocks /\ b \notin In(bs)
  BY NewBlockIs
<1> HIDE DEF b, h2, bs2
<1>2. ASSUME NEW j \in DOMAIN lv, NEW a \in Span(h, lv[j]) PROVE h2.mem[a] = h.mem[a]
  <2>1. a \in Strict!Address /\ a \notin Blocks
    BY CellsPlain
  <2> QED
    BY <1>1, <2>1
<1>3. ASSUME NEW j \in DOMAIN lv
      PROVE  /\ h2.mem[lv[j].ptr - 1] = h.mem[lv[j].ptr - 1]
             /\ \A a \in Strict!CellsOf(lv[j]) : h2.mem[a] = h.mem[a]
  <2>1. House(h, lv[j], In(bs), In(js))
    BY DEF Housed
  <2>2. lv[j].ptr - 1 \in Span(h, lv[j]) /\ \A a \in Strict!CellsOf(lv[j]) : a \in Span(h, lv[j])
    BY <2>1, SpanIs
  <2> QED
    BY <1>2, <2>2
<1>4. Housed(h2, lv, In(bs2), In(js))
  <2> DEFINE S == In(bs)
             J == In(js)
             S2 == In(bs2)
  <2>1. S \subseteq S2 /\ J \subseteq J /\ Housed(h, lv, S, J)
    BY <1>1
  <2>2. ASSUME NEW d \in S
        PROVE  d \in Nat /\ h.mem[d].pos \in Nat /\ h2.mem[d].pos \in Nat /\ h.mem[d].pos <= h2.mem[d].pos
    <3>1. h.mem[d].pos \in 1 .. BlockSize /\ BlockSize \in Nat
      BY FastFacts DEF FastLists, BlockAt
    <3>2. d \in Nat /\ d \in Strict!Address /\ d # b
      BY <1>1, InBlocks, BlocksApart DEF FastLists, Linked
    <3>3. h2.mem[d] = h.mem[d]
      BY <1>1, <3>2
    <3> QED
      BY <3>1, <3>2, <3>3
  <2>3. PlacesKept(h, h2, lv, S)
    BY <1>3, <2>2 DEF PlacesKept
  <2> HIDE DEF S, J, S2
  <2>4. Housed(h2, lv, S2, J)
    BY <2>1, <2>3, HousedKept
  <2> QED
    BY <2>4 DEF S2, J
<1>5. b # 0
  BY <1>1, BlockFacts
<1> QED
  BY <1>1, <1>3, <1>4, <1>5 DEF h2

LEMMA FastAllocIs ==
  ASSUME NEW h, NEW bs, NEW js, FastLists(h, bs, js), NEW lv, Housed(h, lv, In(bs), In(js)),
         NEW size \in Size, Fast!Serviceable(h, size)
  PROVE  LET n == Fast!FastAlloc(h, size)
         IN  \E bs2, js2 : Fresh(h, lv, bs2, js2, n.heap, [ptr |-> n.ptr, size |-> size])
<1> DEFINE n == Fast!FastAlloc(h, size)
           r == [ptr |-> n.ptr, size |-> size]
<1>1. CASE size > Fast!MaxAllocSize
  <2>1. Fast!FreeSlots(h) # {}
    <3>1. ~(size <= Fast!MaxAllocSize)
      <4>1. size \in Nat /\ Fast!MaxAllocSize \in Int
        BY FastFacts, OsAssumption DEF Fast!MaxAllocSize
      <4> QED
        BY <1>1, <4>1
    <3> QED
      BY <3>1 DEF Fast!Serviceable
  <2>2. n = [heap |-> Fast!AllocJumbo(h), ptr |-> Fast!Base(Fast!NewSlot(h)) + 2]
    BY <1>1 DEF Fast!FastAlloc
  <2>3. n.heap = Fast!AllocJumbo(h) /\ r = [ptr |-> Fast!Base(Fast!NewSlot(h)) + 2, size |-> size]
    BY <2>2
  <2> HIDE DEF n, r
  <2>4. \E js2 : Fresh(h, lv, bs, js2, Fast!AllocJumbo(h), r)
    BY <2>1, <2>3, JumboFresh
  <2> QED
    BY <2>3, <2>4 DEF n, r
<1>2. CASE ~(size > Fast!MaxAllocSize)
  <2> DEFINE w == Fast!RealSize(size)
             h1 == IF Fast!Full(h, w) THEN Fast!NewBlock(h) ELSE h
             b == h1.block_list
             p == h1.mem[b].pos
             c == b + p
             h2 == [h1 EXCEPT !.mem[c] = Fast!Chunk(size), !.mem[b].pos = @ + w]
  <2>1. n = [heap |-> h2, ptr |-> c + 1]
    BY <1>2, Zenon DEF Fast!FastAlloc
  <2>2. n.heap = h2 /\ n.ptr = c + 1
    BY <2>1
  <2>3. r = [ptr |-> r.ptr, size |-> r.size] /\ r.ptr = c + 1 /\ r.size = size
    BY <2>2
  <2>4. /\ w = Strict!Units(size) + 1 /\ Strict!Units(size) \in Nat /\ BlockSize \in Nat
        /\ Strict!Units(size) + 1 <= BlockSize - 1
    <3>1. size <= Fast!MaxAllocSize
      <4>1. size \in Nat /\ Fast!MaxAllocSize \in Int
        BY FastFacts, OsAssumption DEF Fast!MaxAllocSize
      <4> QED
        BY <1>2, <4>1
    <3> QED
      BY <3>1, FastOs, FastFacts DEF Fast!RealSize
  <2> HIDE DEF n, r, h2, c, p, b, w
  <2>5. \E bs1 : /\ FastLists(h1, bs1, js) /\ Housed(h1, lv, In(bs1), In(js))
                 /\ \A j \in DOMAIN lv : \A a \in Strict!CellsOf(lv[j]) : h1.mem[a] = h.mem[a]
                 /\ h1.block_list # 0
                 /\ h1.mem[h1.block_list].pos + Strict!Units(size) + 1 <= BlockSize
    <3>1. CASE Fast!Full(h, w)
      <4>1. Fast!FreeSlots(h) # {}
        BY <3>1 DEF Fast!Serviceable, w
      <4>2. h1 = Fast!NewBlock(h)
        BY <3>1
      <4>3. PICK bs1 : /\ FastLists(h1, bs1, js) /\ Housed(h1, lv, In(bs1), In(js))
                       /\ \A j \in DOMAIN lv : \A a \in Strict!CellsOf(lv[j]) : h1.mem[a] = h.mem[a]
                       /\ h1.block_list # 0 /\ h1.mem[h1.block_list].pos = 1
        BY <4>1, <4>2, FullIs
      <4> HIDE DEF h1
      <4>4. h1.mem[h1.block_list].pos + Strict!Units(size) + 1 <= BlockSize
        BY <2>4, <4>3
      <4> QED
        BY <4>3, <4>4
    <3>2. CASE ~Fast!Full(h, w)
      <4>1. h1 = h
        BY <3>2
      <4>2. h.block_list # 0 /\ ~(BlockSize - h.mem[h.block_list].pos < w)
        BY <3>2 DEF Fast!Full, Fast!Null
      <4>3. h.mem[h.block_list].pos \in 1 .. BlockSize
        BY <4>2, FirstBlock DEF FastLists, BlockAt
      <4>4. h.mem[h.block_list].pos + Strict!Units(size) + 1 <= BlockSize
        BY <2>4, <4>2, <4>3
      <4> HIDE DEF h1
      <4> QED
        BY <4>1, <4>2, <4>4
    <3> QED
      BY <3>1, <3>2
  <2> HIDE DEF h1
  <2>6. PICK bs1 : /\ FastLists(h1, bs1, js) /\ Housed(h1, lv, In(bs1), In(js))
                   /\ \A j \in DOMAIN lv : \A a \in Strict!CellsOf(lv[j]) : h1.mem[a] = h.mem[a]
                   /\ h1.block_list # 0
                   /\ h1.mem[h1.block_list].pos + Strict!Units(size) + 1 <= BlockSize
    BY <2>5
  <2>7. Carved(h1, h2, c, size)
    BY <2>6, CarvedIs DEF h2, c, p, b, w
  <2>8. Fresh(h1, lv, bs1, js, h2, r)
    BY <2>3, <2>6, <2>7, ChunkFresh
  <2>9. Fresh(h, lv, bs1, js, h2, r)
    BY <2>6, <2>8 DEF Fresh
  <2> QED
    BY <2>2, <2>9 DEF n, r
<1> QED
  BY <1>1, <1>2

(* What an allocation holds is no header, and nobody else's.               *)
LEMMA HeldPlain ==
  ASSUME NEW h, NEW bs, NEW js, FastLists(h, bs, js), NEW lv, Housed(h, lv, In(bs), In(js)),
         NEW i \in DOMAIN lv
  PROVE  /\ lv[i].ptr - 1 \in Strict!Address
         /\ \A a \in Strict!CellsOf(lv[i]) :
              /\ a \in Strict!Address /\ a \notin Blocks /\ a >= lv[i].ptr /\ a \in Int
              /\ \A b \in In(js) : a # b + 1
              /\ \A j \in DOMAIN lv : a # lv[j].ptr - 1 /\ (j # i => a \notin Strict!CellsOf(lv[j]))
<1>1. House(h, lv[i], In(bs), In(js))
  BY DEF Housed
<1>2. /\ lv[i].ptr - 1 \in Span(h, lv[i]) /\ lv[i].ptr - 1 \notin Strict!CellsOf(lv[i])
      /\ \A a \in Strict!CellsOf(lv[i]) : a \in Span(h, lv[i]) /\ a >= lv[i].ptr /\ a \in Int
  BY <1>1, SpanIs
<1>3. lv[i].ptr - 1 \in Strict!Address
  BY <1>2, CellsPlain
<1>4. ASSUME NEW a \in Strict!CellsOf(lv[i])
      PROVE  /\ a \in Strict!Address /\ a \notin Blocks
             /\ \A b \in In(js) : a # b + 1
             /\ \A j \in DOMAIN lv : a # lv[j].ptr - 1 /\ (j # i => a \notin Strict!CellsOf(lv[j]))
  <2>1. a \in Span(h, lv[i]) /\ a # lv[i].ptr - 1
    BY <1>2
  <2> QED
    BY <2>1, CellsPlain
<1> QED
  BY <1>2, <1>3, <1>4

(* What is forgotten after a call is neither a header nor what somebody    *)
(* holds.                                                                  *)
LEMMA FastForgotten ==
  ASSUME NEW h, NEW bs, NEW js, FastLists(h, bs, js), NEW lv, Housed(h, lv, In(bs), In(js))
  PROVE  LET f == Fast!Forget(h, lv)
         IN  /\ FastLists(f, bs, js) /\ Housed(f, lv, In(bs), In(js)) /\ f.os = h.os
             /\ \A j \in DOMAIN lv : \A a \in Strict!CellsOf(lv[j]) : f.mem[a] = h.mem[a]
<1> DEFINE K == Fast!Meaningful(h, lv)
           m == [a \in Strict!Address |-> IF a \in K THEN h.mem[a] ELSE Fast!Junk]
           f == Fast!Forget(h, lv)
<1>1. h = [mem |-> h.mem, os |-> h.os, block_list |-> h.block_list, jumbo_list |-> h.jumbo_list]
  BY DEF FastLists, FastShaped
<1>2. f = [h EXCEPT !.mem = m]
  <2> HIDE DEF K
  <2>1. f = Fast!Keep(h, K)
    BY DEF Fast!Forget, K
  <2> HIDE DEF f
  <2> QED
    BY <1>1, <2>1, FastOs DEF Fast!Keep
<1>3. ASSUME NEW b \in In(bs) \cup In(js)
      PROVE  b \in {Fast!Base(s) : s \in h.os} /\ b \in Strict!Address /\ b + 1 \in Strict!Address
  <2>1. b \in Blocks
    BY InBlocks DEF FastLists, Linked
  <2>2. PICK s \in Strict!Slot : b = Strict!Base(s)
    BY <2>1 DEF Blocks
  <2>3. s \in h.os
    BY <2>2 DEF FastLists
  <2> QED
    BY <2>1, <2>2, <2>3, FastOs, BlocksApart
<1>4. ASSUME NEW b \in In(js) PROVE "prev" \in DOMAIN h.mem[b]
  <2>1. h.mem[b] = Fast!Jumbo(h.mem[b].prev, h.mem[b].next)
    BY DEF FastLists, JumboAt
  <2> DEFINE p == h.mem[b].prev
             n == h.mem[b].next
  <2> HIDE DEF p, n
  <2>2. h.mem[b] = Fast!Jumbo(p, n)
    BY <2>1 DEF p, n
  <2> QED
    BY <2>2 DEF Fast!Jumbo
<1>5. \A b \in In(bs) \cup In(js) : b \in K
  BY <1>3 DEF Fast!Meaningful
<1>6. \A b \in In(js) : b + 1 \in K
  BY <1>3, <1>4 DEF Fast!Meaningful
<1>7. \A j \in DOMAIN lv : lv[j].ptr - 1 \in K
  BY DEF Fast!Meaningful
<1>8. \A j \in DOMAIN lv : \A a \in Strict!CellsOf(lv[j]) : a \in K
  BY FastOs DEF Fast!Meaningful
<1>9. m = [a \in Strict!Address |-> m[a]]
  OBVIOUS
<1>10. \A a \in Strict!Address : a \in K => m[a] = h.mem[a]
  OBVIOUS
<1> HIDE DEF K, m, f
<1>11. /\ \A b \in In(bs) \cup In(js) : m[b] = h.mem[b]
       /\ \A b \in In(js) : m[b + 1] = h.mem[b + 1]
  BY <1>3, <1>5, <1>6, <1>10
<1>12. /\ \A j \in DOMAIN lv : m[lv[j].ptr - 1] = h.mem[lv[j].ptr - 1]
       /\ \A j \in DOMAIN lv : \A a \in Strict!CellsOf(lv[j]) : m[a] = h.mem[a]
  BY <1>7, <1>8, <1>10, HeldPlain
<1>13. FastLists(f, bs, js) /\ Housed(f, lv, In(bs), In(js)) /\ f.mem = m /\ f.os = h.os
  BY <1>2, <1>9, <1>11, <1>12, FastMem
<1> QED
  BY <1>12, <1>13 DEF f

(* What the user of i writes first is in i.                                *)
LEMMA FastWritten ==
  ASSUME NEW h, NEW bs, NEW js, FastLists(h, bs, js), NEW lv, Housed(h, lv, In(bs), In(js)),
         NEW i \in DOMAIN lv, NEW first
  PROVE  LET g == Fast!Write(h, i, lv[i], first)
         IN  /\ FastLists(g, bs, js) /\ Housed(g, lv, In(bs), In(js)) /\ g.os = h.os
             /\ \A j \in DOMAIN lv : \A a \in Strict!CellsOf(lv[j]) :
                  g.mem[a] = IF j = i /\ a >= lv[i].ptr + first THEN Strict!Data(i) ELSE h.mem[a]
<1> DEFINE r == lv[i]
           m == [a \in Strict!Address |->
                   IF a \in Strict!CellsOf(r) /\ a >= r.ptr + first THEN Strict!Data(i) ELSE h.mem[a]]
           g == Fast!Write(h, i, r, first)
<1>1. h = [mem |-> h.mem, os |-> h.os, block_list |-> h.block_list, jumbo_list |-> h.jumbo_list]
  BY DEF FastLists, FastShaped
<1>2. g = [h EXCEPT !.mem = m]
  BY <1>1, FastOs DEF Fast!Write
<1>3. m = [a \in Strict!Address |-> m[a]]
  OBVIOUS
<1>4. \A a \in Strict!Address : /\ a \notin Strict!CellsOf(r) => m[a] = h.mem[a]
                                /\ a \in Strict!CellsOf(r) => m[a] = IF a >= r.ptr + first THEN Strict!Data(i) ELSE h.mem[a]
  OBVIOUS
<1>5. \A b \in In(bs) \cup In(js) : b \in Blocks /\ b \in Strict!Address /\ b + 1 \in Strict!Address
  BY InBlocks, BlocksApart DEF FastLists, Linked
<1> HIDE DEF m, g, r
<1>6. /\ \A b \in In(bs) \cup In(js) : b \notin Strict!CellsOf(r)
      /\ \A b \in In(js) : b + 1 \notin Strict!CellsOf(r)
      /\ \A j \in DOMAIN lv : lv[j].ptr - 1 \notin Strict!CellsOf(r) /\ lv[j].ptr - 1 \in Strict!Address
  BY <1>5, HeldPlain DEF r
<1>7. /\ \A b \in In(bs) \cup In(js) : m[b] = h.mem[b]
      /\ \A b \in In(js) : m[b + 1] = h.mem[b + 1]
      /\ \A j \in DOMAIN lv : m[lv[j].ptr - 1] = h.mem[lv[j].ptr - 1]
  BY <1>4, <1>5, <1>6
<1>8. FastLists(g, bs, js) /\ Housed(g, lv, In(bs), In(js)) /\ g.mem = m /\ g.os = h.os
  BY <1>2, <1>3, <1>7, FastMem
<1>9. ASSUME NEW j \in DOMAIN lv, NEW a \in Strict!CellsOf(lv[j])
      PROVE  g.mem[a] = IF j = i /\ a >= r.ptr + first THEN Strict!Data(i) ELSE h.mem[a]
  <2>1. a \in Strict!Address /\ (j # i => a \notin Strict!CellsOf(r)) /\ (j = i => a \in Strict!CellsOf(r))
    BY HeldPlain DEF r
  <2> QED
    BY <1>4, <1>8, <2>1
<1> QED
  BY <1>8, <1>9 DEF g, r

LEMMA FastSettled ==
  ASSUME NEW h, NEW bs, NEW js, FastLists(h, bs, js), NEW lv, Housed(h, lv, In(bs), In(js)),
         NEW i \in DOMAIN lv, NEW first, NEW r, r = lv[i],
         NEW f, f = Fast!Forget(Fast!Write(h, i, r, first), lv)
  PROVE  /\ FastLists(f, bs, js) /\ Housed(f, lv, In(bs), In(js)) /\ f.os = h.os
         /\ \A j \in DOMAIN lv : \A a \in Strict!CellsOf(lv[j]) :
              f.mem[a] = IF j = i /\ a >= lv[i].ptr + first THEN Strict!Data(i) ELSE h.mem[a]
<1> DEFINE g == Fast!Write(h, i, lv[i], first)
<1>1. /\ FastLists(g, bs, js) /\ Housed(g, lv, In(bs), In(js)) /\ g.os = h.os
      /\ \A j \in DOMAIN lv : \A a \in Strict!CellsOf(lv[j]) :
           g.mem[a] = IF j = i /\ a >= lv[i].ptr + first THEN Strict!Data(i) ELSE h.mem[a]
  BY FastWritten
<1>2. f = Fast!Forget(g, lv)
  OBVIOUS
<1> HIDE DEF g
<1>3. /\ FastLists(f, bs, js) /\ Housed(f, lv, In(bs), In(js)) /\ f.os = g.os
      /\ \A j \in DOMAIN lv : \A a \in Strict!CellsOf(lv[j]) : f.mem[a] = g.mem[a]
  BY <1>1, <1>2, FastForgotten
<1> QED
  BY <1>1, <1>3

(* Each operation keeps the lists, the places and what is stored.          *)
FastSound(h, lv) == \E bs, js : FastLists(h, bs, js) /\ Housed(h, lv, In(bs), In(js))
FastKept == FastSound(heap', live') /\ Mine(heap', live')

(* An alloc hands out what FastAlloc finds                                 *)
LEMMA FastAllocKeeps ==
  ASSUME FastSound(heap, live), Mine(heap, live),
         NEW i \in Id, NEW size \in Size, Fast!Alloc(i, size)
  PROVE  FastKept
<1> DEFINE n == Fast!FastAlloc(heap, size)
           r == [ptr |-> n.ptr, size |-> size]
<1>1. /\ i \notin DOMAIN live /\ Fast!Serviceable(heap, size)
      /\ live' = Fast!With(live, i, r)
      /\ heap' = Fast!Forget(Fast!Write(n.heap, i, r, 0), live')
  BY DEF Fast!Alloc, Fast!HandedOut
<1>2. PICK bs, js : FastLists(heap, bs, js) /\ Housed(heap, live, In(bs), In(js))
  BY DEF FastSound
<1>3. PICK bs2, js2 : Fresh(heap, live, bs2, js2, n.heap, r)
  BY <1>1, <1>2, FastAllocIs
<1> DEFINE g == n.heap
<1> HIDE DEF r, g
<1>4. /\ FastLists(g, bs2, js2) /\ Housed(g, live, In(bs2), In(js2)) /\ House(g, r, In(bs2), In(js2))
      /\ \A j \in DOMAIN live : Apart(g, r, live[j])
      /\ \A j \in DOMAIN live : \A a \in Strict!CellsOf(live[j]) : g.mem[a] = heap.mem[a]
  BY <1>3 DEF Fresh, g
<1>5. /\ Housed(g, live', In(bs2), In(js2)) /\ live'[i] = r /\ i \in DOMAIN live'
      /\ \A j \in DOMAIN live' : j # i => j \in DOMAIN live /\ live'[j] = live[j]
  BY <1>1, <1>4, HousedPut
<1>6. heap' = Fast!Forget(Fast!Write(g, i, r, 0), live')
  BY <1>1 DEF g
<1>7. /\ FastLists(heap', bs2, js2) /\ Housed(heap', live', In(bs2), In(js2))
      /\ \A j \in DOMAIN live' : \A a \in Strict!CellsOf(live'[j]) :
           heap'.mem[a] = IF j = i /\ a >= live'[i].ptr + 0 THEN Strict!Data(i) ELSE g.mem[a]
  BY <1>4, <1>5, <1>6, FastSettled
<1>8. ASSUME NEW j \in DOMAIN live', NEW a \in Strict!CellsOf(live'[j]) PROVE heap'.mem[a] = Strict!Data(j)
  <2>1. CASE j = i
    <3>1. a >= live'[i].ptr /\ a \in Int
      BY <1>4, <1>5, <1>8, <2>1, HeldPlain
    <3>2. live'[i].ptr \in Nat
      BY <1>4, <1>5 DEF House
    <3>3. a >= live'[i].ptr + 0
      BY <3>1, <3>2
    <3> QED
      BY <1>7, <1>8, <2>1, <3>3
  <2>2. CASE j # i
    <3>1. j \in DOMAIN live /\ live'[j] = live[j]
      BY <1>5, <2>2
    <3>2. heap'.mem[a] = heap.mem[a]
      BY <1>4, <1>7, <1>8, <2>2, <3>1
    <3> QED
      BY <1>8, <3>1, <3>2 DEF Mine, Holds
  <2> QED
    BY <2>1, <2>2
<1>9. Mine(heap', live')
  BY <1>8 DEF Mine, Holds
<1> QED
  BY <1>7, <1>9 DEF FastKept, FastSound

(* and a free only forgets.                                                *)
LEMMA FastFreeKeeps ==
  ASSUME FastSound(heap, live), Mine(heap, live), NEW i \in Id, Fast!Free(i)
  PROVE  FastKept
<1>1. live' = Fast!Without(live, {i}) /\ heap' = Fast!Forget(heap, live')
  BY DEF Fast!Free
<1>2. PICK bs, js : FastLists(heap, bs, js) /\ Housed(heap, live, In(bs), In(js))
  BY DEF FastSound
<1>3. Housed(heap, live', In(bs), In(js)) /\ \A j \in DOMAIN live' : j \in DOMAIN live /\ live'[j] = live[j]
  BY <1>1, <1>2, HousedLess
<1>4. /\ FastLists(heap', bs, js) /\ Housed(heap', live', In(bs), In(js))
      /\ \A j \in DOMAIN live' : \A a \in Strict!CellsOf(live'[j]) : heap'.mem[a] = heap.mem[a]
  <2> DEFINE lv == live'
             f == Fast!Forget(heap, lv)
  <2>1. heap' = f /\ live' = lv /\ Housed(heap, lv, In(bs), In(js))
    BY <1>1, <1>3
  <2>2. /\ FastLists(f, bs, js) /\ Housed(f, lv, In(bs), In(js))
        /\ \A j \in DOMAIN lv : \A a \in Strict!CellsOf(lv[j]) : f.mem[a] = heap.mem[a]
    <3> HIDE DEF lv
    <3> QED
      BY <1>2, <2>1, FastForgotten
  <2> HIDE DEF lv, f
  <2> QED
    BY <2>1, <2>2
<1>5. Mine(heap', live')
  BY <1>3, <1>4 DEF Mine, Holds
<1> QED
  BY <1>4, <1>5 DEF FastKept, FastSound

(* A copy to an allocation changes what it holds, and nothing else.        *)
Copy(h, g, lv, i, r, from, n) ==
  /\ \A a \in Strict!CellsOf(r) : a < r.ptr + n => g.mem[a] = h.mem[a - r.ptr + from]
  /\ \A j \in DOMAIN lv : j # i => \A a \in Strict!CellsOf(lv[j]) : g.mem[a] = h.mem[a]

LEMMA FastCopied ==
  ASSUME NEW h, NEW bs, NEW js, FastLists(h, bs, js), NEW lv, Housed(h, lv, In(bs), In(js)),
         NEW i \in DOMAIN lv, NEW r, r = lv[i], NEW from, NEW n \in Int, n <= Strict!Units(r.size),
         NEW g, g = Fast!CopyUnits(h, r.ptr, from, n)
  PROVE  /\ FastLists(g, bs, js) /\ Housed(g, lv, In(bs), In(js)) /\ g.os = h.os
         /\ Copy(h, g, lv, i, r, from, n)
<1> DEFINE to == lv[i].ptr
           m == [a \in Strict!Address |-> IF a \in to .. to + n - 1 THEN h.mem[a - to + from] ELSE h.mem[a]]
           u == Strict!Units(lv[i].size)
<1>1. h = [mem |-> h.mem, os |-> h.os, block_list |-> h.block_list, jumbo_list |-> h.jumbo_list]
  BY DEF FastLists, FastShaped
<1>2. g = [h EXCEPT !.mem = m]
  BY <1>1, FastOs DEF Fast!CopyUnits
<1>3. m = [a \in Strict!Address |-> m[a]]
  OBVIOUS
<1>4. \A a \in Strict!Address : /\ a \notin to .. to + n - 1 => m[a] = h.mem[a]
                                /\ a \in to .. to + n - 1 => m[a] = h.mem[a - to + from]
  OBVIOUS
<1>5. \A b \in In(bs) \cup In(js) : b \in Blocks /\ b \in Strict!Address /\ b + 1 \in Strict!Address
  BY InBlocks, BlocksApart DEF FastLists, Linked
<1>6. to \in Nat /\ u \in Nat /\ Strict!CellsOf(lv[i]) = to .. to + u - 1
  <2>1. House(h, lv[i], In(bs), In(js))
    BY DEF Housed
  <2>2. lv[i].ptr \in Nat /\ Strict!Units(lv[i].size) \in Nat
    BY <2>1, SpanIs DEF House
  <2> QED
    BY <2>2 DEF Strict!CellsOf
<1> HIDE DEF m, to, u
<1>7. \A a : a \in to .. to + n - 1 => a \in Strict!CellsOf(lv[i])
  BY <1>6 DEF u
<1>8. /\ \A b \in In(bs) \cup In(js) : b \notin to .. to + n - 1
      /\ \A b \in In(js) : b + 1 \notin to .. to + n - 1
      /\ \A j \in DOMAIN lv : lv[j].ptr - 1 \notin to .. to + n - 1 /\ lv[j].ptr - 1 \in Strict!Address
  BY <1>5, <1>7, HeldPlain
<1>9. /\ \A b \in In(bs) \cup In(js) : m[b] = h.mem[b]
      /\ \A b \in In(js) : m[b + 1] = h.mem[b + 1]
      /\ \A j \in DOMAIN lv : m[lv[j].ptr - 1] = h.mem[lv[j].ptr - 1]
  BY <1>4, <1>5, <1>8
<1>10. FastLists(g, bs, js) /\ Housed(g, lv, In(bs), In(js)) /\ g.mem = m /\ g.os = h.os
  BY <1>2, <1>3, <1>9, FastMem
<1>11. ASSUME NEW a \in Strict!CellsOf(lv[i]), a < to + n PROVE g.mem[a] = h.mem[a - to + from]
  <2>1. a \in Strict!Address /\ a \in to .. to + n - 1
    BY <1>6, <1>11, HeldPlain
  <2> QED
    BY <1>4, <1>10, <2>1
<1>12. ASSUME NEW j \in DOMAIN lv, j # i, NEW a \in Strict!CellsOf(lv[j]) PROVE g.mem[a] = h.mem[a]
  <2>1. a \in Strict!Address /\ a \notin to .. to + n - 1
    BY <1>7, <1>12, HeldPlain
  <2> QED
    BY <1>4, <1>10, <2>1
<1> QED
  BY <1>10, <1>11, <1>12 DEF Copy, to

(* A realloc that has the room stays where it is; the chunk keeps its      *)
(* length.                                                                 *)
LEMMA FastReallocStays ==
  ASSUME FastSound(heap, live), Mine(heap, live),
         NEW i \in Id, NEW size \in Size, Fast!Realloc(i, size), ~(heap.mem[live[i].ptr - 1].len < size)
  PROVE  FastKept
<1> DEFINE n == Fast!FastRealloc(heap, live[i].ptr, size)
           p == live[i].ptr
           r == [ptr |-> p, size |-> size]
           old == Strict!Units(live[i].size)
<1>1. i \in DOMAIN live /\ ~Fast!IsJumbo(heap, p)
  BY DEF Fast!Realloc
<1>2. n = [heap |-> heap, ptr |-> p]
  BY DEF Fast!FastRealloc
<1>3. /\ live' = Fast!With(live, i, r)
      /\ heap' = Fast!Forget(Fast!Write(heap, i, r, old), live')
  <2>1. Fast!HandedOut(i, size, n, Fast!Units(live[i].size))
    BY DEF Fast!Realloc
  <2>2. n.heap = heap /\ n.ptr = p /\ Fast!Units(live[i].size) = old
    BY <1>2, FastOs
  <2> HIDE DEF n, p, old
  <2> QED
    BY <2>1, <2>2 DEF Fast!HandedOut
<1>4. PICK bs, js : FastLists(heap, bs, js) /\ Housed(heap, live, In(bs), In(js))
  BY DEF FastSound
<1>5. House(heap, live[i], In(bs), In(js))
  BY <1>1, <1>4 DEF Housed
<1>6. r = [ptr |-> r.ptr, size |-> r.size] /\ r.ptr = p /\ r.size = size
  OBVIOUS
<1>7. PICK len \in Nat : /\ heap.mem[p - 1] = Fast!Chunk(len) /\ live[i].size <= len
                         /\ \E b \in In(bs) : b < p - 1 /\ p + Strict!Units(len) <= b + heap.mem[b].pos
  <2>1. heap.mem[p - 1] # Fast!Chunk(-1)
    BY <1>1 DEF Fast!IsJumbo, Fast!JumboMagic, Fast!Chunk
  <2> QED
    BY <1>5, <2>1 DEF House
<1>8. heap.mem[p - 1].len = len
  BY <1>7 DEF Fast!Chunk
<1>9. size <= len
  <2>1. size \in Nat
    BY FastFacts
  <2> QED
    BY <1>8, <2>1
<1>10. p \in Nat /\ old \in Nat /\ Strict!CellsOf(live[i]) = p .. p + old - 1
  BY <1>5, SpanIs DEF House, Strict!CellsOf
<1> HIDE DEF r, p, old
<1>11. House(heap, r, In(bs), In(js))
  BY <1>6, <1>7, <1>9, <1>10 DEF House
<1>12. Span(heap, r) = Span(heap, live[i])
  <2>1. Room(heap, r) = len /\ Room(heap, live[i]) = len
    BY <1>6, <1>8 DEF Room, p
  <2> QED
    BY <1>6, <2>1 DEF Span, p
<1>13. \A j \in DOMAIN live : j # i => Apart(heap, r, live[j])
  BY <1>1, <1>4, <1>12 DEF Housed, Apart
<1>14. /\ Housed(heap, live', In(bs), In(js)) /\ live'[i] = r /\ i \in DOMAIN live'
       /\ \A j \in DOMAIN live' : j # i => j \in DOMAIN live /\ live'[j] = live[j]
  BY <1>3, <1>4, <1>11, <1>13, HousedPut
<1>15. /\ FastLists(heap', bs, js) /\ Housed(heap', live', In(bs), In(js))
       /\ \A j \in DOMAIN live' : \A a \in Strict!CellsOf(live'[j]) :
            heap'.mem[a] = IF j = i /\ a >= live'[i].ptr + old THEN Strict!Data(i) ELSE heap.mem[a]
  BY <1>3, <1>4, <1>14, FastSettled
<1>16. ASSUME NEW j \in DOMAIN live', NEW a \in Strict!CellsOf(live'[j]) PROVE heap'.mem[a] = Strict!Data(j)
  <2>1. CASE j = i /\ a >= p + old
    BY <1>6, <1>14, <1>15, <1>16, <2>1
  <2>2. CASE j = i /\ ~(a >= p + old)
    <3>1. a \in Int /\ a >= p
      BY <1>4, <1>6, <1>14, <1>16, <2>2, HeldPlain
    <3>2. a \in Strict!CellsOf(live[i])
      BY <1>10, <2>2, <3>1
    <3> QED
      BY <1>1, <1>6, <1>14, <1>15, <1>16, <2>2, <3>2 DEF Mine, Holds
  <2>3. CASE j # i
    BY <1>14, <1>15, <1>16, <2>3 DEF Mine, Holds
  <2> QED
    BY <2>1, <2>2, <2>3
<1>17. Mine(heap', live')
  BY <1>16 DEF Mine, Holds
<1> QED
  BY <1>15, <1>17 DEF FastKept, FastSound

(* One that does not is an alloc and a copy of the old chunk.              *)
LEMMA FastReallocMoves ==
  ASSUME FastSound(heap, live), Mine(heap, live),
         NEW i \in Id, NEW size \in Size, Fast!Realloc(i, size), heap.mem[live[i].ptr - 1].len < size
  PROVE  FastKept
<1> DEFINE new == Fast!FastAlloc(heap, size)
           n == Fast!FastRealloc(heap, live[i].ptr, size)
           p == live[i].ptr
           len == heap.mem[p - 1].len
           r == [ptr |-> new.ptr, size |-> size]
           old == Strict!Units(live[i].size)
           w == Strict!Units(len)
           g == Fast!CopyUnits(new.heap, new.ptr, p, w)
<1>1. i \in DOMAIN live /\ ~Fast!IsJumbo(heap, p) /\ Fast!Serviceable(heap, size)
  BY DEF Fast!Realloc, Fast!ReallocServiceable
<1>2. n = [heap |-> g, ptr |-> new.ptr]
  BY FastOs DEF Fast!FastRealloc
<1>3. /\ live' = Fast!With(live, i, r)
      /\ heap' = Fast!Forget(Fast!Write(g, i, r, old), live')
  <2>1. Fast!HandedOut(i, size, n, Fast!Units(live[i].size))
    BY DEF Fast!Realloc
  <2>2. n.heap = g /\ n.ptr = new.ptr /\ Fast!Units(live[i].size) = old
    BY <1>2, FastOs
  <2> HIDE DEF n, p, old, new, g
  <2> QED
    BY <2>1, <2>2 DEF Fast!HandedOut
<1>4. PICK bs, js : FastLists(heap, bs, js) /\ Housed(heap, live, In(bs), In(js))
  BY DEF FastSound
<1>5. House(heap, live[i], In(bs), In(js))
  BY <1>1, <1>4 DEF Housed
<1>6. r.ptr = new.ptr /\ r.size = size
  OBVIOUS
<1>7. len \in Nat /\ live[i].size <= len /\ len < size
  <2>1. heap.mem[p - 1] # Fast!Chunk(-1)
    BY <1>1 DEF Fast!IsJumbo, Fast!JumboMagic, Fast!Chunk
  <2>2. PICK k \in Nat : heap.mem[p - 1] = Fast!Chunk(k) /\ live[i].size <= k
    BY <1>5, <2>1 DEF House
  <2>3. len = k
    BY <2>2 DEF Fast!Chunk
  <2> QED
    BY <2>2, <2>3
<1>8. p \in Nat /\ old \in Nat /\ Strict!CellsOf(live[i]) = p .. p + old - 1
  BY <1>5, SpanIs DEF House, Strict!CellsOf
<1>9. w \in Nat /\ old <= w /\ w <= Strict!Units(size)
  <2>1. size \in Nat /\ live[i].size \in Nat
    BY <1>5, FastFacts DEF House
  <2> HIDE DEF len
  <2> QED
    BY <1>7, <2>1, UnitsFacts
<1>10. PICK bs2, js2 : Fresh(heap, live, bs2, js2, new.heap, r)
  BY <1>1, <1>4, FastAllocIs
<1> DEFINE h == new.heap
<1> HIDE DEF r, p, old, h, w, len
<1>11. /\ FastLists(h, bs2, js2) /\ Housed(h, live, In(bs2), In(js2)) /\ House(h, r, In(bs2), In(js2))
       /\ \A j \in DOMAIN live : Apart(h, r, live[j])
       /\ \A j \in DOMAIN live : \A a \in Strict!CellsOf(live[j]) : h.mem[a] = heap.mem[a]
  BY <1>10 DEF Fresh, h
<1>12. /\ Housed(h, live', In(bs2), In(js2)) /\ live'[i] = r /\ i \in DOMAIN live'
       /\ \A j \in DOMAIN live' : j # i => j \in DOMAIN live /\ live'[j] = live[j]
  BY <1>3, <1>11, HousedPut
<1>13. g = Fast!CopyUnits(h, r.ptr, p, w)
  BY <1>6 DEF h
<1> HIDE DEF g, new
<1>14. /\ FastLists(g, bs2, js2) /\ Housed(g, live', In(bs2), In(js2))
       /\ \A a \in Strict!CellsOf(r) : a < r.ptr + w => g.mem[a] = h.mem[a - r.ptr + p]
       /\ \A j \in DOMAIN live' : j # i => \A a \in Strict!CellsOf(live'[j]) : g.mem[a] = h.mem[a]
  <2> DEFINE lv == live'
  <2>1. r = lv[i] /\ Housed(h, lv, In(bs2), In(js2)) /\ i \in DOMAIN lv /\ w \in Int /\ w <= Strict!Units(r.size)
    BY <1>6, <1>9, <1>12
  <2>2. FastLists(g, bs2, js2) /\ Housed(g, lv, In(bs2), In(js2)) /\ Copy(h, g, lv, i, r, p, w)
    <3> HIDE DEF lv
    <3>1. FastLists(h, bs2, js2)
      BY <1>11
    <3> QED
      BY <1>13, <2>1, <3>1, FastCopied
  <2> QED
    BY <2>2 DEF Copy
<1>15. /\ FastLists(heap', bs2, js2) /\ Housed(heap', live', In(bs2), In(js2))
       /\ \A j \in DOMAIN live' : \A a \in Strict!CellsOf(live'[j]) :
            heap'.mem[a] = IF j = i /\ a >= live'[i].ptr + old THEN Strict!Data(i) ELSE g.mem[a]
  BY <1>3, <1>12, <1>14, FastSettled
<1>16. ASSUME NEW j \in DOMAIN live', NEW a \in Strict!CellsOf(live'[j]) PROVE heap'.mem[a] = Strict!Data(j)
  <2>1. CASE j = i /\ a >= r.ptr + old
    BY <1>12, <1>15, <1>16, <2>1
  <2>2. CASE j = i /\ ~(a >= r.ptr + old)
    <3>1. a \in Int /\ a >= r.ptr /\ r.ptr \in Nat
      BY <1>11, <1>12, <1>16, <2>2, HeldPlain DEF House
    <3> DEFINE x == a - r.ptr + p
    <3>2. x \in p .. p + old - 1 /\ a < r.ptr + w
      BY <1>8, <1>9, <2>2, <3>1
    <3> HIDE DEF x
    <3>3. x \in Strict!CellsOf(live[i])
      BY <1>8, <3>2
    <3>4. g.mem[a] = h.mem[x]
      BY <1>12, <1>14, <1>16, <2>2, <3>2 DEF x
    <3>5. h.mem[x] = Strict!Data(i)
      BY <1>1, <1>11, <3>3 DEF Mine, Holds
    <3> QED
      BY <1>12, <1>15, <1>16, <2>2, <3>4, <3>5
  <2>3. CASE j # i
    <3>1. j \in DOMAIN live /\ live'[j] = live[j]
      BY <1>12, <2>3
    <3>2. heap'.mem[a] = heap.mem[a]
      BY <1>11, <1>14, <1>15, <1>16, <2>3, <3>1
    <3> QED
      BY <1>16, <3>1, <3>2 DEF Mine, Holds
  <2> QED
    BY <2>1, <2>2, <2>3
<1>17. Mine(heap', live')
  BY <1>16 DEF Mine, Holds
<1> QED
  BY <1>15, <1>17 DEF FastKept, FastSound

(* The slot of any of its addresses.                                       *)
LEMMA InSlot ==
  ASSUME NEW s \in Strict!Slot, NEW x \in 0 .. SlotSize - 1, NEW a, a = Strict!Base(s) + x
  PROVE  Strict!SlotOf(a) = s
<1> DEFINE k == s - 1
           y == k * SlotSize + x
           q == y \div SlotSize
<1>1. SlotSize \in Nat \ {0} /\ k \in Nat
  BY OsAssumption DEF Strict!Slot
<1>2. k * SlotSize \in Nat /\ y \in Nat /\ x \in Nat /\ x < SlotSize
  BY <1>1
<1>3. q = k
  <2>1. (k + 1) * SlotSize = k * SlotSize + SlotSize
    BY <1>1
  <2>2. q \in Nat /\ q * SlotSize <= y /\ y < q * SlotSize + SlotSize
    <3> HIDE DEF y
    <3> QED
      BY <1>1, <1>2
  <2>3. (q + 1) * SlotSize = q * SlotSize + SlotSize
    BY <1>1, <2>2
  <2>4. y = k * SlotSize + x
    OBVIOUS
  <2> HIDE DEF q, y, k
  <2>5. k * SlotSize < (q + 1) * SlotSize
    BY <1>1, <1>2, <2>2, <2>3, <2>4
  <2>6. q * SlotSize < (k + 1) * SlotSize
    BY <1>1, <1>2, <2>1, <2>2, <2>4
  <2>7. k < q + 1
    BY <1>1, <2>2, <2>5
  <2>8. q < k + 1
    BY <1>1, <2>2, <2>6
  <2> QED
    BY <1>1, <2>2, <2>7, <2>8
<1>4. a - 1 = y
  <2>1. Strict!Base(s) = k * SlotSize + 1
    BY DEF Strict!Base
  <2> HIDE DEF k
  <2> QED
    BY <1>1, <1>2, <2>1
<1>5. Strict!SlotOf(a) = q + 1
  <2> HIDE DEF y
  <2> QED
    BY <1>4 DEF Strict!SlotOf
<1> HIDE DEF q
<1>6. s \in Int /\ k + 1 = s
  BY OsAssumption DEF Strict!Slot
<1> HIDE DEF k
<1> QED
  BY <1>1, <1>3, <1>5, <1>6

(* The neighbours of a jumbo that is first or knows its predecessor.       *)
LEMMA Neighbours ==
  ASSUME NEW m, NEW first, NEW c, Linked(m, first, c), Told(m, In(c)),
         NEW k \in 1 .. Len(c), NEW b, b = c[k], first = b \/ m[b].prev # 0
  PROVE  /\ m[b].prev = At(c, k - 1) /\ m[b].next = At(c, k + 1)
         /\ m[b].prev = 0 <=> k = 1
<1>1. /\ Len(c) \in Nat /\ \A j \in 1 .. Len(c) : c[j] \in Blocks /\ c[j] \in In(c) /\ c[j] # 0
      /\ \A j, l \in 1 .. Len(c) : c[j] = c[l] => j = l
      /\ \A j \in 1 .. Len(c) : m[c[j]].next = At(c, j + 1)
      /\ first = At(c, 1)
  <2>1. c \in Seq(Blocks)
    BY DEF Linked, Chain
  <2>2. \A j \in 1 .. Len(c) : c[j] \in Blocks /\ c[j] \in In(c)
    BY <2>1 DEF In
  <2>3. \A j \in 1 .. Len(c) : c[j] # 0
    BY <2>2, BlockFacts
  <2> QED
    BY <2>1, <2>2, <2>3 DEF Linked, Chain
<1>2. ASSUME m[b].prev # 0 PROVE k # 1 /\ m[b].prev = c[k - 1]
  <2>1. m[b].prev \in In(c) /\ m[m[b].prev].next = b
    BY <1>1, <1>2 DEF Told
  <2>2. PICK j \in 1 .. Len(c) : m[b].prev = c[j]
    BY <2>1 DEF In
  <2>3. At(c, j + 1) = c[k]
    BY <1>1, <2>1, <2>2
  <2>4. j + 1 \in 1 .. Len(c) /\ c[j + 1] = c[k]
    BY <1>1, <2>3 DEF At
  <2>5. j + 1 = k
    BY <1>1, <2>4
  <2> QED
    BY <1>1, <2>2, <2>5
<1>3. ASSUME m[b].prev = 0 PROVE k = 1
  <2>1. At(c, 1) = c[k]
    BY <1>1, <1>3
  <2>2. 1 \in 1 .. Len(c)
    BY <1>1
  <2> QED
    BY <1>1, <2>1, <2>2 DEF At
<1>4. k - 1 \in 1 .. Len(c) <=> k # 1
  BY <1>1
<1>5. m[b].prev = At(c, k - 1)
  BY <1>1, <1>2, <1>3, <1>4 DEF At
<1>6. m[b].prev = 0 <=> k = 1
  BY <1>2, <1>3
<1> QED
  BY <1>1, <1>5, <1>6

(* A list with d in the place of its k-th block b                          *)
Replaced(c, k, d) == [c EXCEPT ![k] = d]
LEMMA LinkedMoved ==
  ASSUME NEW m, NEW first, NEW c, Linked(m, first, c), NEW k \in 1 .. Len(c), NEW b, b = c[k],
         NEW d \in Blocks, d = b \/ d \notin In(c),
         NEW m2, m2[d].next = m[b].next, k # 1 => m2[c[k - 1]].next = d,
         \A j \in 1 .. Len(c) : j # k /\ j # k - 1 => m2[c[j]].next = m[c[j]].next
  PROVE  /\ Linked(m2, IF k = 1 THEN d ELSE first, Replaced(c, k, d))
         /\ In(Replaced(c, k, d)) = (In(c) \ {b}) \cup {d}
<1> DEFINE e == Replaced(c, k, d)
<1>1. /\ c \in Seq(Blocks) /\ Len(c) \in Nat /\ \A j \in 1 .. Len(c) : c[j] \in Blocks /\ c[j] \in In(c)
      /\ \A j, l \in 1 .. Len(c) : c[j] = c[l] => j = l
      /\ \A j \in 1 .. Len(c) : m[c[j]].next = At(c, j + 1)
      /\ first = At(c, 1)
  <2>1. c \in Seq(Blocks)
    BY DEF Linked, Chain
  <2> QED
    BY <2>1 DEF Linked, Chain, In
<1>2. /\ e \in Seq(Blocks) /\ Len(e) = Len(c) /\ e[k] = d
      /\ \A j \in 1 .. Len(c) : j # k => e[j] = c[j]
  BY <1>1 DEF Replaced
<1> HIDE DEF e
<1>3. \A j \in 1 .. Len(c) : j # k => c[j] # d /\ c[j] # b
  <2>1. ASSUME NEW j \in 1 .. Len(c), j # k PROVE c[j] # b
    BY <1>1, <2>1
  <2>2. ASSUME NEW j \in 1 .. Len(c), j # k PROVE c[j] # d
    BY <1>1, <2>1, <2>2
  <2> QED
    BY <2>1, <2>2
<1>4. Chain(e)
  <2>1. ASSUME NEW j \in 1 .. Len(e), NEW l \in 1 .. Len(e), e[j] = e[l] PROVE j = l
    <3>1. CASE j = k \/ l = k
      BY <1>2, <1>3, <2>1, <3>1
    <3>2. CASE j # k /\ l # k
      <4>1. c[j] = c[l]
        BY <1>2, <2>1, <3>2
      <4> QED
        BY <1>1, <1>2, <4>1
    <3> QED
      BY <3>1, <3>2
  <2> QED
    BY <1>2, <2>1 DEF Chain
<1>5. \A x \in Int : At(e, x) = IF x = k THEN d ELSE At(c, x)
  BY <1>1, <1>2 DEF At
<1>6. ASSUME NEW j \in 1 .. Len(e) PROVE m2[e[j]].next = At(e, j + 1)
  <2>1. j \in 1 .. Len(c) /\ j + 1 \in Int /\ k \in Int
    BY <1>1, <1>2
  <2>2. CASE j = k
    <3>1. j + 1 # k
      BY <2>1, <2>2
    <3>2. At(e, j + 1) = At(c, j + 1)
      BY <1>5, <2>1, <3>1
    <3> QED
      BY <1>1, <1>2, <2>1, <2>2, <3>2
  <2>3. CASE j = k - 1
    <3>1. j + 1 = k /\ j # k /\ k # 1
      BY <1>1, <2>1, <2>3
    <3>2. m2[c[j]].next = d
      BY <2>3, <3>1
    <3> QED
      BY <1>2, <1>5, <2>1, <3>1, <3>2
  <2>4. CASE j # k /\ j # k - 1
    <3>1. j + 1 # k
      BY <2>1, <2>4
    <3>2. m2[c[j]].next = m[c[j]].next
      BY <2>1, <2>4
    <3> QED
      BY <1>1, <1>2, <1>5, <2>1, <2>4, <3>1, <3>2
  <2> QED
    BY <2>2, <2>3, <2>4
<1>7. (IF k = 1 THEN d ELSE first) = At(e, 1)
  BY <1>1, <1>5
<1>8. In(e) = (In(c) \ {b}) \cup {d}
  <2>1. ASSUME NEW j \in 1 .. Len(e) PROVE e[j] \in (In(c) \ {b}) \cup {d}
    BY <1>1, <1>2, <1>3
  <2>2. ASSUME NEW j \in 1 .. Len(c), c[j] # b PROVE c[j] \in In(e)
    <3>1. j # k /\ j \in 1 .. Len(e)
      BY <1>2, <2>2
    <3> QED
      BY <1>2, <3>1 DEF In
  <2>3. d \in In(e)
    BY <1>2 DEF In
  <2>4. In(e) \subseteq (In(c) \ {b}) \cup {d}
    BY <2>1 DEF In
  <2>5. In(c) \ {b} \subseteq In(e)
    BY <2>2 DEF In
  <2> QED
    BY <2>3, <2>4, <2>5
<1> QED
  BY <1>4, <1>6, <1>7, <1>8 DEF Linked, e

(* whose neighbours are told.                                              *)
LEMMA ToldMoved ==
  ASSUME NEW m, NEW J, Told(m, J), 0 \notin J, NEW b \in J, NEW d, d = b \/ d \notin J,
         NEW p, p = m[b].prev, NEW n, n = m[b].next,
         p # 0 => p \in J /\ p # b /\ p # n, n # 0 => n \in J /\ n # b,
         NEW m2, m2[d].prev = p, m2[d].next = n,
         p # 0 => m2[p].next = d /\ m2[p].prev = m[p].prev,
         n # 0 => m2[n].prev = d /\ m2[n].next = m[n].next,
         \A x \in J : x # b /\ x # p /\ x # n => m2[x].prev = m[x].prev /\ m2[x].next = m[x].next
  PROVE  Told(m2, (J \ {b}) \cup {d})
<1>1. \A x \in J : m[x].prev # 0 => m[x].prev \in J /\ m[m[x].prev].next = x
  BY DEF Told
<1>2. p # 0 => m[p].next = b
  BY <1>1
<1> SUFFICES ASSUME NEW x \in (J \ {b}) \cup {d}, m2[x].prev # 0
             PROVE  m2[x].prev \in (J \ {b}) \cup {d} /\ m2[m2[x].prev].next = x
  BY DEF Told
<1>3. CASE x = d
  BY <1>2, <1>3
<1>4. CASE x # d /\ x = n
  BY <1>4
<1>5. CASE x # d /\ x # n
  <2> DEFINE q == m[x].prev
  <2>1. x \in J /\ x # b
    BY <1>5
  <2>2. m2[x].prev = q
    BY <1>5, <2>1
  <2>3. q # 0 /\ q \in J /\ m[q].next = x
    BY <1>1, <2>1, <2>2
  <2> HIDE DEF q
  <2>4. q # b /\ q # p
    BY <1>2, <1>5, <2>1, <2>3
  <2>5. m2[q].next = m[q].next
    BY <2>3, <2>4
  <2> QED
    BY <2>2, <2>3, <2>4, <2>5
<1> QED
  BY <1>3, <1>4, <1>5

(* What becomes of the block b of a jumbo that the OS moves to d, and of   *)
(* its neighbours p and n.                                                 *)
JumboMoved(h, h2, b, d, u, p, n) ==
  /\ FastShaped(h2) /\ h2.block_list = h.block_list
  /\ h2.jumbo_list = IF p = 0 THEN d ELSE h.jumbo_list
  /\ h2.os = (h.os \ {Strict!SlotOf(b)}) \cup {Strict!SlotOf(d)}
  /\ \A a \in Strict!Address : a \in d .. d + SlotSize - 1 /\ a - d < u => h2.mem[a] = h.mem[a - d + b]
  /\ \A a \in Strict!Address : a \notin d .. d + SlotSize - 1 /\ a \notin b .. b + SlotSize - 1 /\ a # p /\ a # n
        => h2.mem[a] = h.mem[a]
  /\ p # 0 => h2.mem[p] = Fast!Jumbo(h.mem[p].prev, d)
  /\ n # 0 => h2.mem[n] = Fast!Jumbo(d, h.mem[n].next)

(* And what its neighbours p and n are told when the OS has moved it.      *)
Rejoined(o, d, p, n) ==
  LET o2 == IF p # Fast!Null THEN [o EXCEPT !.mem[p].next = d] ELSE [o EXCEPT !.jumbo_list = d]
  IN  IF n # Fast!Null THEN [o2 EXCEPT !.mem[n].prev = d] ELSE o2

LEMMA RejoinedIs ==
  ASSUME NEW h, NEW ptr, NEW size, NEW t, NEW o, o = Fast!OsRealloc(h, ptr - 2, t, Fast!Units(size) + 2),
         NEW d, d = Fast!Base(t)
  PROVE  Fast!ReallocJumbo(h, ptr, size, t) = Rejoined(o, d, o.mem[d].prev, o.mem[d].next)
<1> DEFINE x == Fast!OsRealloc(h, ptr - 2, t, Fast!Units(size) + 2)
           y == Fast!Base(t)
<1>1. Fast!ReallocJumbo(h, ptr, size, t) = Rejoined(x, y, x.mem[y].prev, x.mem[y].next)
  BY Zenon DEF Fast!ReallocJumbo, Rejoined
<1>2. x = o /\ y = d
  OBVIOUS
<1> HIDE DEF x, y
<1> QED
  BY <1>1, <1>2

(* Where the OS may put it.                                                *)
LEMMA NewPlace ==
  ASSUME NEW h, NEW bs, NEW js, FastLists(h, bs, js), NEW b \in In(js),
         NEW t \in Fast!FreeSlots(h) \cup {Fast!SlotOf(b + 2)}, NEW d, d = Fast!Base(t)
  PROVE  /\ t \in Strict!Slot /\ d = Strict!Base(t) /\ d \in Blocks /\ Strict!SlotOf(d) = t
         /\ Strict!SlotCells(t) = d .. d + SlotSize - 1
         /\ d = b \/ (d \notin In(bs) /\ d \notin In(js))
<1>1. b \in Blocks /\ b \in Nat
  BY InBlocks DEF FastLists, Linked
<1>2. Strict!SlotOf(b + 2) = Strict!SlotOf(b) /\ Strict!SlotOf(b) \in Strict!Slot /\ Strict!Base(Strict!SlotOf(b)) = b
  <2> DEFINE s == Strict!SlotOf(b)
  <2>1. s \in Strict!Slot /\ Strict!Base(s) = b
    BY <1>1, BlockFacts
  <2> HIDE DEF s
  <2>2. 2 \in 0 .. SlotSize - 1
    BY FastFacts
  <2>3. Strict!SlotOf(b + 2) = s
    BY <2>1, <2>2, InSlot
  <2> QED
    BY <2>1, <2>3 DEF s
<1>3. t = Strict!SlotOf(b) \/ (t \in Strict!Slot /\ t \notin h.os)
  BY <1>2, FastOs DEF Fast!FreeSlots
<1>4. t \in Strict!Slot /\ d = Strict!Base(t)
  BY <1>2, <1>3, FastOs
<1>5. d \in Blocks /\ Strict!SlotOf(d) = t
  BY <1>4, SlotFacts DEF Blocks
<1>6. Strict!SlotCells(t) = d .. d + SlotSize - 1
  BY <1>5, BlockFacts
<1>7. ASSUME t \notin h.os PROVE d \notin In(bs) /\ d \notin In(js)
  BY <1>4, <1>7 DEF FastLists
<1> QED
  BY <1>2, <1>3, <1>4, <1>5, <1>6, <1>7

LEMMA JumboMovedIs ==
  ASSUME NEW h, NEW bs, NEW js, FastLists(h, bs, js), NEW b \in In(js), NEW size \in Size,
         NEW t \in Fast!FreeSlots(h) \cup {Fast!SlotOf(b + 2)}, NEW d, d = Fast!Base(t),
         NEW p, p = h.mem[b].prev, NEW n, n = h.mem[b].next,
         p # 0 => p \in In(js) /\ p # b /\ p # n, n # 0 => n \in In(js) /\ n # b
  PROVE  JumboMoved(h, Fast!ReallocJumbo(h, b + 2, size, t), b, d, Strict!Units(size) + 2, p, n)
<1> DEFINE u == Strict!Units(size) + 2
           s == Strict!SlotOf(b)
           m1 == [a \in Strict!Address |->
                   IF a \in Strict!SlotCells(t) THEN IF a - d < u THEN h.mem[a - d + b] ELSE Fast!Junk
                   ELSE IF a \in Strict!SlotCells(s) THEN Fast!Junk ELSE h.mem[a]]
           os == (h.os \ {s}) \cup {t}
           o == Fast!OsRealloc(h, b, t, Fast!Units(size) + 2)
           o2 == IF p # 0 THEN [o EXCEPT !.mem[p].next = d] ELSE [o EXCEPT !.jumbo_list = d]
           o3 == IF n # 0 THEN [o2 EXCEPT !.mem[n].prev = d] ELSE o2
           h2 == Fast!ReallocJumbo(h, b + 2, size, t)
           m2 == IF p # 0 THEN [m1 EXCEPT ![p] = Fast!Jumbo(h.mem[p].prev, d)] ELSE m1
           m3 == IF n # 0 THEN [m2 EXCEPT ![n] = Fast!Jumbo(d, h.mem[n].next)] ELSE m2
           j == IF p # 0 THEN h.jumbo_list ELSE d
<1>1. h = [mem |-> h.mem, os |-> h.os, block_list |-> h.block_list, jumbo_list |-> h.jumbo_list]
      /\ h.mem = [a \in Strict!Address |-> h.mem[a]] /\ h.os \in SUBSET Strict!Slot
  BY DEF FastLists, FastShaped
<1>2. /\ t \in Strict!Slot /\ d = Strict!Base(t) /\ d \in Blocks /\ Strict!SlotOf(d) = t
      /\ Strict!SlotCells(t) = d .. d + SlotSize - 1
      /\ d = b \/ (d \notin In(bs) /\ d \notin In(js))
  BY NewPlace
<1>3. /\ \A x \in In(js) : x \in Blocks /\ x \in Nat /\ x # 0 /\ x \in Strict!Address
      /\ b \in Nat /\ Strict!SlotCells(s) = b .. b + SlotSize - 1 /\ s \in Strict!Slot
  <2>1. \A x \in In(js) : x \in Blocks /\ x \in Nat /\ x # 0
    BY InBlocks DEF FastLists, Linked
  <2> QED
    BY <2>1, BlockFacts, BlocksApart
<1>4. d \in Nat /\ SlotSize \in Nat /\ SlotSize >= 3 /\ d \in Strict!Address
  BY <1>2, BlockFacts, FastFacts, BlocksApart
<1>5. u \in Nat /\ u >= 2
  <2> DEFINE w == Strict!Units(size)
  <2>1. w \in Nat
    BY FastFacts
  <2> HIDE DEF w
  <2>2. w + 2 \in Nat /\ w + 2 >= 2
    BY <2>1
  <2> QED
    BY <2>2 DEF w
<1>6. o = [mem |-> m1, os |-> os, block_list |-> h.block_list, jumbo_list |-> h.jumbo_list]
  <2>1. o = [h EXCEPT !.os = os, !.mem = m1]
    <3>1. /\ Fast!SlotOf(b) = s /\ Fast!Address = Strict!Address /\ Fast!Units(size) + 2 = u
          /\ Fast!SlotCells(t) = Strict!SlotCells(t) /\ Fast!SlotCells(s) = Strict!SlotCells(s)
          /\ Fast!Base(t) = d
      BY FastOs
    <3> HIDE DEF s, u
    <3> QED
      BY <1>1, <3>1 DEF Fast!OsRealloc
  <2> HIDE DEF o, m1, os
  <2> QED
    BY <1>1, <2>1
<1>7. \A a \in Strict!Address :
         /\ a \in d .. d + SlotSize - 1 /\ a - d < u => m1[a] = h.mem[a - d + b]
         /\ a \notin d .. d + SlotSize - 1 /\ a \notin b .. b + SlotSize - 1 => m1[a] = h.mem[a]
  <2> HIDE DEF u, s
  <2> QED
    BY <1>2, <1>3
<1>8. m1[d] = h.mem[b] /\ m1 = [a \in Strict!Address |-> m1[a]]
  <2>1. d \in d .. d + SlotSize - 1 /\ d - d = 0 /\ 0 + b = b /\ 0 < u
    BY <1>3, <1>4, <1>5
  <2>2. m1 = [a \in Strict!Address |-> m1[a]]
    OBVIOUS
  <2> HIDE DEF m1, u
  <2>3. m1[d] = h.mem[d - d + b]
    BY <1>4, <1>7, <2>1
  <2> QED
    BY <2>1, <2>2, <2>3
<1>9. \A x \in In(js) : x # b => x \notin d .. d + SlotSize - 1 /\ m1[x] = h.mem[x] /\ x # d
  <2> SUFFICES ASSUME NEW x \in In(js), x # b
               PROVE  x \notin d .. d + SlotSize - 1 /\ m1[x] = h.mem[x] /\ x # d
    OBVIOUS
  <2>1. x # d /\ x \in Blocks /\ b \in Blocks
    BY <1>2, <1>3
  <2>2. /\ x + SlotSize <= d \/ d + SlotSize <= x
        /\ x + SlotSize <= b \/ b + SlotSize <= x
    BY <1>2, <2>1, BlockFacts
  <2>3. x \in Nat /\ x \in Strict!Address
    BY <1>3
  <2> HIDE DEF m1
  <2>4. x \notin d .. d + SlotSize - 1 /\ x \notin b .. b + SlotSize - 1
    BY <1>3, <1>4, <2>2, <2>3
  <2> QED
    BY <1>7, <2>1, <2>3, <2>4
<1>10. \A x \in In(js) : h.mem[x] = Fast!Jumbo(h.mem[x].prev, h.mem[x].next)
  BY DEF FastLists, JumboAt
<1>11. h2 = o3
  <2>1. (b + 2) - 2 = b
    BY <1>3
  <2>2. m1[d].prev = p /\ m1[d].next = n
    BY <1>8
  <2>3. o.mem = m1
    BY <1>6
  <2>4. Fast!Base(t) = d
    OBVIOUS
  <2> HIDE DEF o, m1
  <2>5. o = Fast!OsRealloc(h, (b + 2) - 2, t, Fast!Units(size) + 2)
    BY <2>1 DEF o
  <2>6. h2 = Rejoined(o, d, o.mem[d].prev, o.mem[d].next)
    BY <2>5, RejoinedIs
  <2> HIDE DEF h2
  <2>7. h2 = Rejoined(o, d, p, n)
    BY <2>2, <2>3, <2>6
  <2> QED
    BY <2>7, Zenon DEF Rejoined, Fast!Null
<1> HIDE DEF h2, u, s, os
<1>12. o2 = [mem |-> m2, os |-> os, block_list |-> h.block_list, jumbo_list |-> j]
  <2> HIDE DEF o, m1
  <2>1. CASE p = 0
    <3>1. o2 = [o EXCEPT !.jumbo_list = d] /\ m2 = m1 /\ j = d
      BY <2>1
    <3> HIDE DEF o2, m2, j
    <3> QED
      BY <1>6, <3>1
  <2>2. CASE p # 0
    <3> DEFINE x == Fast!Jumbo(h.mem[p].prev, d)
    <3>1. o2 = [o EXCEPT !.mem[p].next = d] /\ m2 = [m1 EXCEPT ![p] = x] /\ j = h.jumbo_list
      BY <2>2
    <3>2. m1[p] = Fast!Jumbo(h.mem[p].prev, h.mem[p].next)
      BY <1>9, <1>10, <2>2
    <3>3. [m1[p] EXCEPT !.next = d] = x
      BY <3>2 DEF Fast!Jumbo
    <3> HIDE DEF o2, m2, j, x
    <3>4. o2 = [o EXCEPT !.mem = [m1 EXCEPT ![p] = [m1[p] EXCEPT !.next = d]]]
      BY <1>6, <3>1
    <3>5. o2 = [o EXCEPT !.mem = m2]
      BY <3>1, <3>3, <3>4
    <3> QED
      BY <1>6, <3>1, <3>5
  <2> QED
    BY <2>1, <2>2
<1>13. m2 = [a \in Strict!Address |-> m2[a]] /\ (p # 0 => m2[p] = Fast!Jumbo(h.mem[p].prev, d))
       /\ \A a \in Strict!Address : a # p => m2[a] = m1[a]
  <2> HIDE DEF m1
  <2>1. p # 0 => p \in Strict!Address
    BY <1>3
  <2>2. 0 \notin Strict!Address
    BY OsAssumption DEF Strict!Address
  <2> QED
    BY <1>8, <2>1, <2>2
<1>14. o3 = [mem |-> m3, os |-> os, block_list |-> h.block_list, jumbo_list |-> j]
  <2> HIDE DEF o2, m2, m1, j
  <2>1. CASE n = 0
    <3>1. o3 = o2 /\ m3 = m2
      BY <2>1
    <3> HIDE DEF o3, m3
    <3> QED
      BY <1>12, <3>1
  <2>2. CASE n # 0
    <3> DEFINE x == Fast!Jumbo(d, h.mem[n].next)
    <3>1. o3 = [o2 EXCEPT !.mem[n].prev = d] /\ m3 = [m2 EXCEPT ![n] = x]
      BY <2>2
    <3>2. m2[n] = Fast!Jumbo(h.mem[n].prev, h.mem[n].next)
      <4>1. n \in Strict!Address /\ n # p /\ n \in In(js) /\ n # b
        BY <1>3, <2>2
      <4> QED
        BY <1>9, <1>10, <1>13, <4>1
    <3>3. [m2[n] EXCEPT !.prev = d] = x
      BY <3>2 DEF Fast!Jumbo
    <3> HIDE DEF o3, m3, x
    <3>4. o3 = [o2 EXCEPT !.mem = [m2 EXCEPT ![n] = [m2[n] EXCEPT !.prev = d]]]
      BY <1>12, <3>1
    <3>5. o3 = [o2 EXCEPT !.mem = m3]
      BY <3>1, <3>3, <3>4
    <3> QED
      BY <1>12, <3>5
  <2> QED
    BY <2>1, <2>2
<1>15. m3 = [a \in Strict!Address |-> m3[a]] /\ (n # 0 => m3[n] = Fast!Jumbo(d, h.mem[n].next))
       /\ \A a \in Strict!Address : a # n => m3[a] = m2[a]
  <2> HIDE DEF m2, m1
  <2>1. n # 0 => n \in Strict!Address
    BY <1>3
  <2>2. 0 \notin Strict!Address
    BY OsAssumption DEF Strict!Address
  <2> QED
    BY <1>13, <2>1, <2>2
<1>16. j = IF p = 0 THEN d ELSE h.jumbo_list
  OBVIOUS
<1> HIDE DEF o, o2, o3, m1, m2, m3, j
<1>17. /\ h2.mem = m3 /\ h2.os = os /\ h2.block_list = h.block_list /\ h2.jumbo_list = j
       /\ h2 = [mem |-> h2.mem, os |-> h2.os, block_list |-> h2.block_list, jumbo_list |-> h2.jumbo_list]
  BY <1>11, <1>14
<1>18. FastShaped(h2)
  <2>1. os \in SUBSET Strict!Slot
    BY <1>1, <1>2 DEF os
  <2> QED
    BY <1>15, <1>17, <2>1 DEF FastShaped
<1>19. ASSUME NEW a \in Strict!Address, a \in d .. d + SlotSize - 1, a - d < u
       PROVE  h2.mem[a] = h.mem[a - d + b]
  <2>1. a # p /\ a # n
    <3>1. 0 \notin Strict!Address
      BY OsAssumption DEF Strict!Address
    <3> QED
      BY <1>9, <1>19, <3>1
  <2> QED
    BY <1>7, <1>13, <1>15, <1>17, <1>19, <2>1
<1>20. ASSUME NEW a \in Strict!Address, a \notin d .. d + SlotSize - 1, a \notin b .. b + SlotSize - 1, a # p, a # n
       PROVE  h2.mem[a] = h.mem[a]
  BY <1>7, <1>13, <1>15, <1>17, <1>20
<1>21. p # 0 => h2.mem[p] = Fast!Jumbo(h.mem[p].prev, d)
  BY <1>3, <1>13, <1>15, <1>17
<1>22. n # 0 => h2.mem[n] = Fast!Jumbo(d, h.mem[n].next)
  BY <1>15, <1>17
<1>23. h2.os = (h.os \ {Strict!SlotOf(b)}) \cup {Strict!SlotOf(d)}
  BY <1>2, <1>17 DEF os, s
<1>24. JumboMoved(h, h2, b, d, u, p, n)
  BY <1>16, <1>17, <1>18, <1>19, <1>20, <1>21, <1>22, <1>23 DEF JumboMoved
<1> QED
  BY <1>24 DEF h2, u

(* The k-th jumbo's neighbours are then as ReallocJumbo takes them.        *)
LEMMA JumboNeighbours ==
  ASSUME NEW h, NEW bs, NEW js, FastLists(h, bs, js), NEW k \in 1 .. Len(js), NEW b, b = js[k],
         h.jumbo_list = b \/ h.mem[b].prev # 0,
         NEW p, p = h.mem[b].prev, NEW n, n = h.mem[b].next
  PROVE  /\ p # 0 => p \in In(js) /\ p # b /\ p # n
         /\ n # 0 => n \in In(js) /\ n # b
         /\ p = 0 <=> k = 1
         /\ k # 1 => k - 1 \in 1 .. Len(js) /\ p = js[k - 1]
<1>1. Linked(h.mem, h.jumbo_list, js) /\ Told(h.mem, In(js))
  BY DEF FastLists
<1>2. p = At(js, k - 1) /\ n = At(js, k + 1) /\ (p = 0 <=> k = 1)
  BY <1>1, Neighbours
<1>3. /\ Len(js) \in Nat /\ \A j \in 1 .. Len(js) : js[j] \in In(js)
      /\ \A j, l \in 1 .. Len(js) : js[j] = js[l] => j = l
  BY <1>1 DEF Linked, Chain, In
<1>4. k # 1 => k - 1 \in 1 .. Len(js)
  BY <1>3
<1>5. k # 1 => p = js[k - 1]
  BY <1>2, <1>4 DEF At
<1>6. n # 0 => k + 1 \in 1 .. Len(js) /\ n = js[k + 1]
  BY <1>2 DEF At
<1>7. k - 1 # k /\ k + 1 # k /\ k - 1 # k + 1
  BY <1>3
<1>8. p # 0 => p \in In(js) /\ p # b
  BY <1>2, <1>3, <1>4, <1>5, <1>7
<1>9. n # 0 => n \in In(js) /\ n # b
  BY <1>3, <1>6, <1>7
<1>10. p # 0 => p # n
  BY <1>2, <1>3, <1>4, <1>5, <1>6, <1>7
<1> QED
  BY <1>2, <1>4, <1>5, <1>8, <1>9, <1>10

(* The other blocks are as they were, but for the neighbours' links.       *)
Moving(h, h2, bs, js, b, d, u, p, n) ==
  /\ FastLists(h, bs, js) /\ b \in In(js)
  /\ d \in Blocks /\ (d = b \/ (d \notin In(bs) /\ d \notin In(js)))
  /\ (p # 0 => p \in In(js)) /\ (n # 0 => n \in In(js))
  /\ u \in Nat /\ u >= 2 /\ JumboMoved(h, h2, b, d, u, p, n)

LEMMA JumboMovedOthers ==
  ASSUME NEW h, NEW h2, NEW bs, NEW js, NEW b, NEW d, NEW u, NEW p, NEW n,
         Moving(h, h2, bs, js, b, d, u, p, n)
  PROVE  /\ \A x \in In(bs) \cup In(js) : x # b =>
              /\ x # d /\ h2.mem[x + 1] = h.mem[x + 1]
              /\ x # p /\ x # n => h2.mem[x] = h.mem[x]
         /\ h2.mem[d] = h.mem[b] /\ h2.mem[d + 1] = h.mem[b + 1]
<1> USE DEF Moving
<1>1. /\ b \in Blocks /\ \A x \in In(bs) \cup In(js) : x \in Blocks /\ x \in Nat /\ x # 0
  BY InBlocks DEF FastLists, Linked
<1>2. SlotSize \in Nat /\ SlotSize >= 3 /\ b \in Nat /\ d \in Nat
  BY <1>1, FastFacts, BlockFacts
<1>3. ASSUME NEW x \in In(bs) \cup In(js), x # b
      PROVE  x # d /\ h2.mem[x + 1] = h.mem[x + 1] /\ (x # p /\ x # n => h2.mem[x] = h.mem[x])
  <2>1. x # d /\ x \in Blocks /\ x \in Nat /\ x \in Strict!Address /\ x + 1 \in Strict!Address
    BY <1>1, <1>3, BlocksApart
  <2>2. /\ x + SlotSize <= d \/ d + SlotSize <= x
        /\ x + SlotSize <= b \/ b + SlotSize <= x
    BY <1>1, <1>3, <2>1, BlockFacts
  <2>3. /\ x \notin d .. d + SlotSize - 1 /\ x \notin b .. b + SlotSize - 1
        /\ x + 1 \notin d .. d + SlotSize - 1 /\ x + 1 \notin b .. b + SlotSize - 1
    BY <1>2, <2>1, <2>2
  <2>4. x + 1 # p /\ x + 1 # n
    <3>1. (p = 0 \/ p \in Blocks) /\ (n = 0 \/ n \in Blocks)
      BY <1>1
    <3>2. x + 1 # 0
      BY <2>1
    <3> QED
      BY <2>1, <3>1, <3>2, BlocksApart
  <2> QED
    BY <2>1, <2>3, <2>4 DEF JumboMoved
<1>4. h2.mem[d] = h.mem[b] /\ h2.mem[d + 1] = h.mem[b + 1]
  <2>1. /\ d \in d .. d + SlotSize - 1 /\ d - d < u /\ d - d + b = b
        /\ d + 1 \in d .. d + SlotSize - 1 /\ d + 1 - d < u /\ d + 1 - d + b = b + 1
    BY <1>2
  <2>2. d \in Strict!Address /\ d + 1 \in Strict!Address
    BY BlocksApart
  <2>3. \A a \in Strict!Address : a \in d .. d + SlotSize - 1 /\ a - d < u => h2.mem[a] = h.mem[a - d + b]
    BY DEF JumboMoved
  <2>4. h2.mem[d] = h.mem[d - d + b] /\ h2.mem[d + 1] = h.mem[d + 1 - d + b]
    BY <2>1, <2>2, <2>3
  <2> QED
    BY <2>1, <2>4
<1> QED
  BY <1>3, <1>4

(* The two ways to say at once what LinkedMoved and ToldMoved ask for.      *)
Relinks(m, m2, first, c, k, b, d) ==
  /\ Linked(m, first, c) /\ k \in 1 .. Len(c) /\ b = c[k]
  /\ d \in Blocks /\ (d = b \/ d \notin In(c))
  /\ m2[d].next = m[b].next /\ (k # 1 => m2[c[k - 1]].next = d)
  /\ \A j \in 1 .. Len(c) : j # k /\ j # k - 1 => m2[c[j]].next = m[c[j]].next
Tells(m, m2, J, b, d, p, n) ==
  /\ Told(m, J) /\ 0 \notin J /\ b \in J /\ (d = b \/ d \notin J)
  /\ p = m[b].prev /\ n = m[b].next
  /\ (p # 0 => p \in J /\ p # b /\ p # n) /\ (n # 0 => n \in J /\ n # b)
  /\ m2[d].prev = p /\ m2[d].next = n
  /\ (p # 0 => m2[p].next = d /\ m2[p].prev = m[p].prev)
  /\ (n # 0 => m2[n].prev = d /\ m2[n].next = m[n].next)
  /\ \A x \in J : x # b /\ x # p /\ x # n => m2[x].prev = m[x].prev /\ m2[x].next = m[x].next

LEMMA Relinked ==
  ASSUME NEW m, NEW m2, NEW first, NEW c, NEW k, NEW b, NEW d, Relinks(m, m2, first, c, k, b, d)
  PROVE  /\ Linked(m2, IF k = 1 THEN d ELSE first, Replaced(c, k, d))
         /\ In(Replaced(c, k, d)) = (In(c) \ {b}) \cup {d}
BY LinkedMoved DEF Relinks

LEMMA ToldAgain ==
  ASSUME NEW m, NEW m2, NEW J, NEW b, NEW d, NEW p, NEW n, Tells(m, m2, J, b, d, p, n)
  PROVE  Told(m2, (J \ {b}) \cup {d})
BY ToldMoved DEF Tells

(* The lists hold the moved block in the place of the old one              *)
LEMMA JumboMovedLists ==
  ASSUME NEW h, NEW h2, NEW bs, NEW js, NEW b, NEW d, NEW u, NEW p, NEW n,
         Moving(h, h2, bs, js, b, d, u, p, n), NEW k \in 1 .. Len(js), b = js[k],
         h.jumbo_list = b \/ h.mem[b].prev # 0, p = h.mem[b].prev, n = h.mem[b].next,
         NEW e, e = Replaced(js, k, d)
  PROVE  FastLists(h2, bs, e) /\ In(e) = (In(js) \ {b}) \cup {d}
<1> DEFINE J == (In(js) \ {b}) \cup {d}
           m == h.mem
           m2 == h2.mem
<1>1. FastLists(h, bs, js) /\ d \in Blocks /\ (d = b \/ (d \notin In(bs) /\ d \notin In(js)))
      /\ JumboMoved(h, h2, b, d, u, p, n)
  BY DEF Moving
<1>2. /\ FastShaped(h) /\ Linked(m, h.block_list, bs) /\ Linked(m, h.jumbo_list, js)
      /\ In(bs) \cap In(js) = {} /\ Told(m, In(js))
      /\ \A s \in Strict!Slot : s \in h.os <=> Strict!Base(s) \in In(bs) \cup In(js)
      /\ \A x \in In(bs) : BlockAt(m, x)
      /\ \A x \in In(js) : JumboAt(m, x)
  BY <1>1 DEF FastLists
<1>3. /\ p # 0 => p \in In(js) /\ p # b /\ p # n
      /\ n # 0 => n \in In(js) /\ n # b
      /\ p = 0 <=> k = 1
      /\ k # 1 => k - 1 \in 1 .. Len(js) /\ p = js[k - 1]
  BY <1>1, JumboNeighbours
<1>4. b \in In(js) /\ b \in Blocks /\ 0 \notin In(js)
  <2>1. b \in In(js)
    BY DEF In
  <2>2. \A x \in In(js) : x \in Blocks /\ x \in Nat /\ x >= 1
    BY <1>2, InBlocks DEF Linked
  <2> QED
    BY <2>1, <2>2
<1>5. /\ \A x \in In(bs) \cup In(js) : x # b =>
           /\ x # d /\ m2[x + 1] = m[x + 1]
           /\ x # p /\ x # n => m2[x] = m[x]
      /\ m2[d] = m[b] /\ m2[d + 1] = m[b + 1]
  BY JumboMovedOthers
<1>6. /\ FastShaped(h2) /\ h2.block_list = h.block_list
      /\ h2.jumbo_list = IF p = 0 THEN d ELSE h.jumbo_list
      /\ h2.os = (h.os \ {Strict!SlotOf(b)}) \cup {Strict!SlotOf(d)}
      /\ p # 0 => m2[p] = Fast!Jumbo(m[p].prev, d)
      /\ n # 0 => m2[n] = Fast!Jumbo(d, m[n].next)
  BY <1>1 DEF JumboMoved
<1>7. /\ p # 0 => m2[p].next = d /\ m2[p].prev = m[p].prev
      /\ n # 0 => m2[n].prev = d /\ m2[n].next = m[n].next
  BY <1>6 DEF Fast!Jumbo
<1> HIDE DEF m, m2
<1>8. Linked(m2, h2.jumbo_list, e) /\ In(e) = J
  <2>1. \A j \in 1 .. Len(js) : js[j] \in In(js) /\ (j # k => js[j] # b) /\ (k # 1 /\ j # k - 1 => js[j] # p)
    BY <1>2, <1>3 DEF Linked, Chain, In
  <2>2. ASSUME NEW j \in 1 .. Len(js), j # k, j # k - 1 PROVE m2[js[j]].next = m[js[j]].next
    <3> DEFINE x == js[j]
    <3>1. x \in In(js) /\ x # b /\ x # p /\ x # 0
      BY <1>3, <1>4, <2>1, <2>2
    <3> HIDE DEF x
    <3>2. m2[x].next = m[x].next
      BY <1>5, <1>7, <3>1
    <3> QED
      BY <3>2 DEF x
  <2>3. m2[d].next = m[b].next /\ (k # 1 => m2[js[k - 1]].next = d)
    BY <1>3, <1>5, <1>7
  <2>4. Linked(m, h.jumbo_list, js) /\ (d = b \/ d \notin In(js))
    BY <1>1, <1>2
  <2>5. \A j \in 1 .. Len(js) : j # k /\ j # k - 1 => m2[js[j]].next = m[js[j]].next
    BY <2>2
  <2>6. Linked(m2, IF k = 1 THEN d ELSE h.jumbo_list, e) /\ In(e) = (In(js) \ {b}) \cup {d}
    <3>1. Relinks(m, m2, h.jumbo_list, js, k, b, d)
      BY <1>1, <2>3, <2>4, <2>5 DEF Relinks
    <3> QED
      BY <3>1, Relinked
  <2> QED
    BY <1>3, <1>6, <2>6
<1>9. \A x \in In(bs) : x # b /\ x # p /\ x # n /\ m2[x] = m[x] /\ x # d
  <2>1. \A x \in In(bs) : x # b /\ x # p /\ x # n
    <3>1. \A x \in In(bs) : x # 0
      BY <1>2, InBlocks DEF Linked
    <3> QED
      BY <1>2, <1>3, <1>4, <3>1
  <2> QED
    BY <1>5, <2>1
<1>10. Linked(m2, h2.block_list, bs) /\ \A x \in In(bs) : BlockAt(m2, x)
  <2>1. \A j \in 1 .. Len(bs) : m2[bs[j]].next = m[bs[j]].next
    BY <1>9 DEF In
  <2> QED
    BY <1>2, <1>6, <1>9, <2>1 DEF Linked, BlockAt
<1>11. In(bs) \cap J = {}
  BY <1>1, <1>2, <1>9
<1>12. ASSUME NEW s \in Strict!Slot PROVE s \in h2.os <=> Strict!Base(s) \in In(bs) \cup J
  <2>1. s = Strict!SlotOf(b) <=> Strict!Base(s) = b
    BY <1>4, <1>12, BlockFacts, SlotFacts
  <2>2. s = Strict!SlotOf(d) <=> Strict!Base(s) = d
    BY <1>1, <1>12, BlockFacts, SlotFacts
  <2>3. s \in h.os <=> Strict!Base(s) \in In(bs) \cup In(js)
    BY <1>2, <1>12
  <2> QED
    BY <1>4, <1>6, <1>9, <2>1, <2>2, <2>3
<1>13. ASSUME NEW x \in J PROVE JumboAt(m2, x)
  <2>1. CASE x = d
    BY <1>2, <1>4, <1>5, <2>1 DEF JumboAt
  <2>2. CASE x # d
    <3>1. x \in In(js) /\ x # b /\ m2[x + 1] = m[x + 1] /\ JumboAt(m, x)
      BY <1>2, <1>5, <1>13, <2>2
    <3>2. m2[x] = Fast!Jumbo(m2[x].prev, m2[x].next)
      <4>1. CASE x = p
        BY <1>4, <1>6, <1>7, <3>1, <4>1
      <4>2. CASE x = n
        BY <1>4, <1>6, <1>7, <3>1, <4>2
      <4>3. CASE x # p /\ x # n
        BY <1>5, <3>1, <4>3 DEF JumboAt
      <4> QED
        BY <4>1, <4>2, <4>3
    <3> QED
      BY <3>1, <3>2 DEF JumboAt
  <2> QED
    BY <2>1, <2>2
<1>14. Told(m2, J)
  <2>1. m2[d].prev = p /\ m2[d].next = n /\ p = m[b].prev /\ n = m[b].next
    BY <1>5 DEF m
  <2>2. \A x \in In(js) : x # b /\ x # p /\ x # n => m2[x].prev = m[x].prev /\ m2[x].next = m[x].next
    BY <1>5
  <2> QED
    <3>1. Told(m, In(js)) /\ 0 \notin In(js) /\ b \in In(js) /\ (d = b \/ d \notin In(js))
      BY <1>1, <1>2, <1>4
    <3>2. (p # 0 => p \in In(js) /\ p # b /\ p # n) /\ (n # 0 => n \in In(js) /\ n # b)
      BY <1>3
    <3> QED
      <4>1. Tells(m, m2, In(js), b, d, p, n)
        BY <1>7, <2>1, <2>2, <3>1, <3>2 DEF Tells
      <4> QED
        BY <4>1, ToldAgain
<1> QED
  BY <1>6, <1>8, <1>10, <1>11, <1>12, <1>13, <1>14 DEF FastLists, m2

(* The other allocations are in no slot that the move touches              *)
LEMMA OthersElsewhere ==
  ASSUME NEW h, NEW bs, NEW js, FastLists(h, bs, js), NEW lv, Housed(h, lv, In(bs), In(js)),
         NEW i \in DOMAIN lv, NEW b \in In(js), lv[i].ptr = b + 2,
         NEW d \in Blocks, d = b \/ (d \notin In(bs) /\ d \notin In(js)),
         NEW j \in DOMAIN lv, j # i
  PROVE  /\ lv[j].ptr - 2 # b
         /\ \A a \in Span(h, lv[j]) : /\ a \in Strict!Address /\ a \notin Blocks /\ a \in Int
                                      /\ a \notin d .. d + SlotSize - 1 /\ a \notin b .. b + SlotSize - 1
<1>1. House(h, lv[i], In(bs), In(js)) /\ House(h, lv[j], In(bs), In(js)) /\ Apart(h, lv[i], lv[j])
  BY DEF Housed
<1>2. PICK x \in In(bs) \cup In(js) :
         /\ \A a \in Span(h, lv[j]) : x < a /\ a <= x + SlotSize - 1
         /\ x \in In(js) => lv[j].ptr = x + 2
  BY <1>1, InHouse
<1>3. lv[i].ptr - 1 \in Span(h, lv[i]) /\ lv[j].ptr - 1 \in Span(h, lv[j])
  BY <1>1, SpanIs
<1>4. lv[j].ptr # lv[i].ptr
  BY <1>1, <1>3 DEF Apart
<1>5. lv[j].ptr \in Nat /\ b \in Blocks /\ b \in Nat /\ x \in Blocks /\ x \in Nat
  BY <1>1, InBlocks DEF House, FastLists, Linked
<1>6. lv[j].ptr - 2 # b
  BY <1>4, <1>5
<1>7. x # b /\ x # d
  BY <1>2, <1>4
<1>8. /\ x + SlotSize <= d \/ d + SlotSize <= x
      /\ x + SlotSize <= b \/ b + SlotSize <= x
  BY <1>5, <1>7, BlockFacts
<1>9. SlotSize \in Nat /\ d \in Nat
  BY FastFacts, BlockFacts
<1>10. ASSUME NEW a \in Span(h, lv[j]) PROVE a \notin d .. d + SlotSize - 1 /\ a \notin b .. b + SlotSize - 1 /\ a \in Int
  <2>1. a \in Strict!Address
    BY <1>10, CellsPlain
  <2>2. a \in Int
    BY <2>1 DEF Strict!Address
  <2> QED
    BY <1>2, <1>5, <1>8, <1>9, <1>10, <2>2
<1> QED
  BY <1>6, <1>10, CellsPlain

(* and keep their places and what they hold; the one that was moved finds  *)
(* what it held in its new place.                                          *)
LEMMA JumboMovedPlaces ==
  ASSUME NEW h, NEW h2, NEW bs, NEW js, NEW b, NEW d, NEW v, NEW p, NEW n,
         Moving(h, h2, bs, js, b, d, v, p, n), NEW lv, Housed(h, lv, In(bs), In(js)),
         NEW i \in DOMAIN lv, lv[i].ptr = b + 2, NEW size \in Size, v = Strict!Units(size) + 2,
         NEW J, J = (In(js) \ {b}) \cup {d},
         NEW r, r = [ptr |-> r.ptr, size |-> r.size], r.ptr = d + 2, r.size = size,
         NEW lv2, lv2 = Fast!With(lv, i, r)
  PROVE  /\ Housed(h2, lv2, In(bs), J) /\ lv2[i] = r /\ i \in DOMAIN lv2
         /\ \A j \in DOMAIN lv2 : j # i => j \in DOMAIN lv /\ lv2[j] = lv[j]
         /\ Copy(h, h2, lv2, i, r, lv[i].ptr, Strict!Units(lv[i].size))
<1> DEFINE lvm == Fast!Without(lv, {i})
           K == In(js) \ {b}
           S == In(bs)
           u == Strict!Units(size)
           old == Strict!Units(lv[i].size)
<1>1. /\ FastLists(h, bs, js) /\ b \in In(js)
      /\ d \in Blocks /\ (d = b \/ (d \notin In(bs) /\ d \notin In(js)))
      /\ (p # 0 => p \in In(js)) /\ (n # 0 => n \in In(js))
      /\ JumboMoved(h, h2, b, d, v, p, n)
  BY DEF Moving
<1>2. /\ b \in Blocks /\ b \in Nat /\ \A x \in In(bs) \cup In(js) : x \in Blocks /\ x \in Nat /\ x # 0
      /\ \A x \in In(bs) : x \notin In(js) /\ h.mem[x].pos \in 1 .. BlockSize
      /\ \A x \in In(js) : h.mem[x + 1] = Fast!Chunk(-1)
  BY <1>1, InBlocks DEF FastLists, Linked, BlockAt, JumboAt
<1>3. SlotSize \in Nat /\ u \in Nat /\ u + 2 <= SlotSize /\ d \in Nat /\ v = u + 2
  BY <1>1, FastFacts, BlockFacts
<1> HIDE DEF u
<1>4. /\ \A x \in In(bs) \cup In(js) : x # b =>
           /\ x # d /\ h2.mem[x + 1] = h.mem[x + 1]
           /\ x # p /\ x # n => h2.mem[x] = h.mem[x]
      /\ h2.mem[d] = h.mem[b] /\ h2.mem[d + 1] = h.mem[b + 1]
  BY JumboMovedOthers
<1>5. ASSUME NEW j \in DOMAIN lv, j # i
      PROVE  /\ lv[j].ptr - 2 # b
             /\ \A a \in Span(h, lv[j]) : a \notin d .. d + SlotSize - 1 /\ h2.mem[a] = h.mem[a] /\ a \in Int
  <2>1. /\ lv[j].ptr - 2 # b
        /\ \A a \in Span(h, lv[j]) : /\ a \in Strict!Address /\ a \notin Blocks /\ a \in Int
                                     /\ a \notin d .. d + SlotSize - 1 /\ a \notin b .. b + SlotSize - 1
    BY <1>1, <1>5, OthersElsewhere
  <2>2. ASSUME NEW a \in Span(h, lv[j]) PROVE h2.mem[a] = h.mem[a]
    <3>1. a \in Strict!Address /\ a \notin d .. d + SlotSize - 1 /\ a \notin b .. b + SlotSize - 1
      BY <2>1, <2>2
    <3>2. a # p /\ a # n
      <4>1. (p = 0 \/ p \in Blocks) /\ (n = 0 \/ n \in Blocks)
        BY <1>1, <1>2
      <4>2. 0 \notin Strict!Address
        BY OsAssumption DEF Strict!Address
      <4> QED
        BY <2>1, <2>2, <4>1, <4>2
    <3> QED
      BY <1>1, <3>1, <3>2 DEF JumboMoved
  <2> QED
    BY <2>1, <2>2
<1>6. DOMAIN lvm = DOMAIN lv \ {i} /\ \A j \in DOMAIN lvm : j \in DOMAIN lv /\ j # i /\ lvm[j] = lv[j]
  BY DEF Fast!Without
<1> HIDE DEF lvm
<1>7. Housed(h, lvm, S, K)
  <2>1. ASSUME NEW j \in DOMAIN lvm PROVE House(h, lvm[j], S, K)
    <3>1. House(h, lv[j], S, In(js)) /\ lv[j].ptr - 2 # b
      BY <1>5, <1>6 DEF Housed
    <3> HIDE DEF S
    <3>2. House(h, lv[j], S, K)
      BY <3>1 DEF House
    <3> QED
      BY <1>6, <2>1, <3>2
  <2> QED
    BY <1>6, <2>1 DEF Housed
<1>8. PlacesKept(h, h2, lvm, S)
  <2>1. ASSUME NEW j \in DOMAIN lvm PROVE h2.mem[lvm[j].ptr - 1] = h.mem[lvm[j].ptr - 1]
    <3>1. House(h, lv[j], In(bs), In(js)) /\ lvm[j] = lv[j] /\ j # i /\ j \in DOMAIN lv
      BY <1>6 DEF Housed
    <3>2. lv[j].ptr - 1 \in Span(h, lv[j])
      BY <3>1, SpanIs
    <3> QED
      BY <1>5, <3>1, <3>2
  <2>2. ASSUME NEW x \in S PROVE x \in Nat /\ h.mem[x].pos \in Nat /\ h2.mem[x].pos \in Nat /\ h.mem[x].pos <= h2.mem[x].pos
    <3>1. x # b /\ x # p /\ x # n /\ x \in Nat
      BY <1>1, <1>2
    <3>2. h2.mem[x] = h.mem[x] /\ h.mem[x].pos \in 1 .. BlockSize
      BY <1>2, <1>4, <3>1
    <3> QED
      BY <3>1, <3>2, FastFacts
  <2> QED
    BY <2>1, <2>2 DEF PlacesKept
<1>9. Housed(h2, lvm, S, J) /\ \A j \in DOMAIN lvm : Span(h2, lvm[j]) = Span(h, lvm[j])
  <2>1. K \subseteq J /\ S \subseteq S
    OBVIOUS
  <2> HIDE DEF K, S
  <2> QED
    BY <1>7, <1>8, <2>1, HousedKept
<1>10. h2.mem[r.ptr - 1] = Fast!Chunk(-1) /\ r.ptr - 1 = d + 1 /\ r.ptr - 2 = d /\ r.ptr \in Nat
  <2>1. r.ptr - 1 = d + 1 /\ r.ptr - 2 = d /\ r.ptr \in Nat
    BY <1>3
  <2> QED
    BY <1>1, <1>2, <1>4, <2>1
<1>11. House(h2, r, S, J)
  BY <1>10 DEF House
<1>12. Span(h2, r) = d + 1 .. d + 1 + u
  BY <1>10 DEF Span, Room, Fast!Chunk, u
<1>13. ASSUME NEW j \in DOMAIN lvm PROVE Apart(h2, r, lvm[j])
  <2>1. \A a \in Span(h2, lvm[j]) : a \notin d .. d + SlotSize - 1
    BY <1>5, <1>6, <1>9
  <2>2. \A a \in Span(h2, r) : a \in d .. d + SlotSize - 1
    BY <1>3, <1>12
  <2> QED
    BY <2>1, <2>2 DEF Apart
<1>14. lv2 = Fast!With(lvm, i, r)
  <2>1. DOMAIN lvm \cup {i} = DOMAIN lv \cup {i}
    BY <1>6
  <2>2. \A j \in DOMAIN lv \cup {i} : j # i => lvm[j] = lv[j]
    BY <1>6
  <2> QED
    BY <2>1, <2>2 DEF Fast!With
<1>15. /\ Housed(h2, lv2, S, J) /\ lv2[i] = r /\ i \in DOMAIN lv2
       /\ \A j \in DOMAIN lv2 : j # i => j \in DOMAIN lvm /\ lv2[j] = lvm[j]
  <2>1. i \in Id
    BY DEF Housed
  <2> HIDE DEF S
  <2> QED
    BY <1>9, <1>11, <1>13, <1>14, <2>1, HousedPut
<1>16. ASSUME NEW a \in Strict!CellsOf(r), a < r.ptr + old PROVE h2.mem[a] = h.mem[a - r.ptr + lv[i].ptr]
  <2>1. a \in Int /\ a >= d + 2 /\ a <= d + 2 + u - 1
    BY <1>3, <1>16 DEF Strict!CellsOf, u
  <2>2. a \in d .. d + SlotSize - 1 /\ a - d < u + 2 /\ a - d + b = a - r.ptr + lv[i].ptr
    BY <1>2, <1>3, <2>1
  <2>3. a \in Strict!Address /\ a - d < v
    BY <1>1, <1>3, <2>2, BlockFacts
  <2>4. JumboMoved(h, h2, b, d, v, p, n)
    BY <1>1
  <2>5. h2.mem[a] = h.mem[a - d + b]
    BY <2>2, <2>3, <2>4 DEF JumboMoved
  <2> QED
    BY <2>2, <2>5
<1>17. ASSUME NEW j \in DOMAIN lv2, j # i, NEW a \in Strict!CellsOf(lv2[j]) PROVE h2.mem[a] = h.mem[a]
  <2>1. j \in DOMAIN lv /\ lv2[j] = lv[j] /\ House(h, lv[j], In(bs), In(js))
    BY <1>6, <1>15, <1>17 DEF Housed
  <2>2. a \in Span(h, lv[j])
    BY <1>17, <2>1, SpanIs
  <2> QED
    BY <1>5, <1>17, <2>1, <2>2
<1>18. Copy(h, h2, lv2, i, r, lv[i].ptr, old)
  BY <1>16, <1>17 DEF Copy
<1> QED
  BY <1>6, <1>15, <1>18

(* So does wmem_block_fast_realloc of a jumbo that is first or knows its   *)
(* predecessor.                                                            *)
LEMMA FastReallocOfJumboKeeps ==
  ASSUME FastSound(heap, live), Mine(heap, live),
         NEW i \in Id, NEW size \in Size, Fast!ReallocOfJumbo(i, size), Fast!KnowsPredecessor(i)
  PROVE  FastKept
<1> DEFINE b == live[i].ptr - 2
           old == Strict!Units(live[i].size)
           p == heap.mem[b].prev
           n == heap.mem[b].next
           u == Strict!Units(size) + 2
<1>1. i \in DOMAIN live /\ Fast!IsJumbo(heap, live[i].ptr)
  BY DEF Fast!ReallocOfJumbo
<1>2. PICK bs, js : FastLists(heap, bs, js) /\ Housed(heap, live, In(bs), In(js))
  BY DEF FastSound
<1>3. House(heap, live[i], In(bs), In(js))
  BY <1>1, <1>2 DEF Housed
<1>4. b \in In(js) /\ live[i].ptr \in Nat /\ live[i].ptr = b + 2
  <2>1. heap.mem[live[i].ptr - 1].len = -1
    BY <1>1 DEF Fast!IsJumbo, Fast!JumboMagic
  <2>2. \A k \in Nat : heap.mem[live[i].ptr - 1] # Fast!Chunk(k)
    BY <2>1 DEF Fast!Chunk
  <2> QED
    BY <1>3, <2>2 DEF House
<1>5. PICK k \in 1 .. Len(js) : b = js[k]
  BY <1>4 DEF In
<1>6. heap.jumbo_list = b \/ p # 0
  BY DEF Fast!KnowsPredecessor, Fast!Null
<1>7. PICK t \in Fast!FreeSlots(heap) \cup {Fast!SlotOf(live[i].ptr)} :
         Fast!HandedOut(i, size, [heap |-> Fast!ReallocJumbo(heap, live[i].ptr, size, t),
                                  ptr |-> Fast!Base(t) + 2], Fast!Units(live[i].size))
  BY DEF Fast!ReallocOfJumbo
<1> DEFINE d == Fast!Base(t)
           h2 == Fast!ReallocJumbo(heap, live[i].ptr, size, t)
           r == [ptr |-> d + 2, size |-> size]
           e == Replaced(js, k, d)
           J == (In(js) \ {b}) \cup {d}
<1>8. live' = Fast!With(live, i, r) /\ heap' = Fast!Forget(Fast!Write(h2, i, r, old), live')
  <2> DEFINE new == [heap |-> h2, ptr |-> d + 2]
  <2>1. Fast!HandedOut(i, size, new, Fast!Units(live[i].size))
    BY <1>7
  <2>2. new.heap = h2 /\ new.ptr = d + 2 /\ Fast!Units(live[i].size) = old
    BY FastOs
  <2> HIDE DEF new, h2, d, old
  <2> QED
    BY <2>1, <2>2 DEF Fast!HandedOut
<1>9. r.ptr = d + 2 /\ r.size = size /\ r = [ptr |-> r.ptr, size |-> r.size]
  OBVIOUS
<1> HIDE DEF r
<1>10. /\ p # 0 => p \in In(js) /\ p # b /\ p # n
       /\ n # 0 => n \in In(js) /\ n # b
  <2> HIDE DEF b
  <2> QED
    BY <1>2, <1>5, <1>6, JumboNeighbours
<1>11. h2 = Fast!ReallocJumbo(heap, b + 2, size, t) /\ t \in Fast!FreeSlots(heap) \cup {Fast!SlotOf(b + 2)}
  BY <1>4
<1>12. /\ d \in Blocks
       /\ d = b \/ (d \notin In(bs) /\ d \notin In(js))
       /\ JumboMoved(heap, h2, b, d, u, p, n)
  <2> HIDE DEF b, d, h2
  <2>1. d = Fast!Base(t)
    BY DEF d
  <2>2. d \in Blocks /\ (d = b \/ (d \notin In(bs) /\ d \notin In(js)))
    BY <1>2, <1>4, <1>11, <2>1, NewPlace
  <2>3. JumboMoved(heap, Fast!ReallocJumbo(heap, b + 2, size, t), b, d, u, p, n)
    <3> HIDE DEF p, n
    <3>1. p = heap.mem[b].prev /\ n = heap.mem[b].next
      BY DEF p, n
    <3> QED
      BY <1>2, <1>4, <1>10, <1>11, <2>1, <3>1, JumboMovedIs
  <2> QED
    BY <1>11, <2>2, <2>3
<1> HIDE DEF d, h2
<1>13. Moving(heap, h2, bs, js, b, d, u, p, n)
  <2>1. u \in Nat /\ u >= 2
    <3> DEFINE w == Strict!Units(size)
    <3>1. w \in Nat
      BY FastFacts
    <3> HIDE DEF w
    <3>2. w + 2 \in Nat /\ w + 2 >= 2
      BY <3>1
    <3> QED
      BY <3>2 DEF w
  <2> HIDE DEF u, b, p, n
  <2> QED
    BY <1>2, <1>4, <1>10, <1>12, <2>1 DEF Moving
<1>14. FastLists(h2, bs, e) /\ In(e) = J
  <2> HIDE DEF u, b, p, n, e
  <2>1. p = heap.mem[b].prev /\ n = heap.mem[b].next /\ e = Replaced(js, k, d)
    BY DEF p, n, e
  <2> QED
    BY <1>5, <1>6, <1>13, <2>1, JumboMovedLists
<1> HIDE DEF e
<1>15. /\ Housed(h2, live', In(bs), In(e)) /\ live'[i] = r /\ i \in DOMAIN live'
       /\ \A j \in DOMAIN live' : j # i => j \in DOMAIN live /\ live'[j] = live[j]
       /\ Copy(heap, h2, live', i, r, live[i].ptr, old)
  <2> DEFINE lv == live'
  <2>1. lv = Fast!With(live, i, r)
    BY <1>8
  <2>2. u = Strict!Units(size) + 2 /\ J = (In(js) \ {b}) \cup {d}
    OBVIOUS
  <2> HIDE DEF lv, b, p, n, u, J
  <2>3. /\ Housed(h2, lv, In(bs), J) /\ lv[i] = r /\ i \in DOMAIN lv
        /\ \A j \in DOMAIN lv : j # i => j \in DOMAIN live /\ lv[j] = live[j]
        /\ Copy(heap, h2, lv, i, r, live[i].ptr, Strict!Units(live[i].size))
    BY <1>1, <1>2, <1>4, <1>9, <1>13, <2>1, <2>2, JumboMovedPlaces
  <2> QED
    BY <1>14, <2>3 DEF lv
<1> HIDE DEF b, p, n, u, J
<1>16. /\ FastLists(heap', bs, e) /\ Housed(heap', live', In(bs), In(e))
       /\ \A j \in DOMAIN live' : \A a \in Strict!CellsOf(live'[j]) :
            heap'.mem[a] = IF j = i /\ a >= live'[i].ptr + old THEN Strict!Data(i) ELSE h2.mem[a]
  BY <1>8, <1>14, <1>15, FastSettled
<1>17. ASSUME NEW j \in DOMAIN live', NEW a \in Strict!CellsOf(live'[j]) PROVE heap'.mem[a] = Strict!Data(j)
  <2>1. CASE j = i /\ a >= r.ptr + old
    BY <1>15, <1>16, <1>17, <2>1
  <2>2. CASE j = i /\ ~(a >= r.ptr + old)
    <3>1. a \in Int /\ a >= r.ptr
      BY <1>14, <1>15, <1>17, <2>2, HeldPlain
    <3>2. r.ptr \in Nat /\ live[i].ptr \in Nat /\ old \in Nat
          /\ Strict!CellsOf(live[i]) = live[i].ptr .. live[i].ptr + old - 1
      <4>1. d \in Nat
        BY <1>12, BlockFacts
      <4>2. House(heap, live[i], In(bs), In(js))
        BY <1>3
      <4> QED
        BY <1>4, <1>9, <4>1, <4>2, SpanIs DEF Strict!CellsOf, old
    <3> DEFINE x == a - r.ptr + live[i].ptr
    <3> HIDE DEF old
    <3>3. x \in live[i].ptr .. live[i].ptr + old - 1 /\ a < r.ptr + old
      BY <2>2, <3>1, <3>2
    <3> HIDE DEF x
    <3>4. x \in Strict!CellsOf(live[i])
      BY <3>2, <3>3
    <3>5. h2.mem[a] = heap.mem[x]
      BY <1>15, <1>17, <2>2, <3>3 DEF Copy, x
    <3>6. heap.mem[x] = Strict!Data(i)
      BY <1>1, <3>4 DEF Mine, Holds
    <3> QED
      BY <1>15, <1>16, <1>17, <2>2, <3>5, <3>6
  <2>3. CASE j # i
    <3>1. j \in DOMAIN live /\ live'[j] = live[j]
      BY <1>15, <2>3
    <3>2. heap'.mem[a] = heap.mem[a]
      BY <1>15, <1>16, <1>17, <2>3, <3>1 DEF Copy
    <3> QED
      BY <1>17, <3>1, <3>2 DEF Mine, Holds
  <2> QED
    BY <2>1, <2>2, <2>3
<1>18. Mine(heap', live')
  BY <1>17 DEF Mine, Holds
<1> QED
  BY <1>16, <1>18 DEF FastKept, FastSound

-----------------------------------------------------------------------------
(***************************************************************************)
(* free_all and the end of the fast block allocator.                       *)
(***************************************************************************)

(* h without the blocks in the slots T.                                    *)
Gone(h, T) ==
  [mem |-> [a \in Strict!Address |-> IF \E s \in T : a \in Strict!SlotCells(s) THEN Fast!Junk ELSE h.mem[a]],
   os |-> h.os \ T, block_list |-> h.block_list, jumbo_list |-> h.jumbo_list]

SlotsOf(S) == {Strict!SlotOf(b) : b \in S}

LEMMA GoneFirst == ASSUME NEW h, FastShaped(h) PROVE Gone(h, {}) = h
<1>1. h = [mem |-> h.mem, os |-> h.os, block_list |-> h.block_list, jumbo_list |-> h.jumbo_list]
      /\ h.mem = [a \in Strict!Address |-> h.mem[a]]
  BY DEF FastShaped
<1> DEFINE m == [a \in Strict!Address |-> IF \E s \in {} : a \in Strict!SlotCells(s) THEN Fast!Junk ELSE h.mem[a]]
<1>2. m = h.mem
  BY <1>1
<1>3. h.os \ {} = h.os
  OBVIOUS
<1>4. Gone(h, {}) = [mem |-> m, os |-> h.os \ {}, block_list |-> h.block_list, jumbo_list |-> h.jumbo_list]
  BY DEF Gone
<1> HIDE DEF m
<1> QED
  BY <1>1, <1>2, <1>3, <1>4

LEMMA GoneNext ==
  ASSUME NEW h, NEW T, NEW b PROVE Fast!OsFree(Gone(h, T), b) = Gone(h, T \cup {Strict!SlotOf(b)})
<1> DEFINE t == Strict!SlotOf(b)
           g == Gone(h, T)
           m == [a \in Strict!Address |-> IF \E s \in T : a \in Strict!SlotCells(s) THEN Fast!Junk ELSE h.mem[a]]
           m2 == [a \in Strict!Address |-> IF a \in Strict!SlotCells(t) THEN Fast!Junk ELSE m[a]]
           m3 == [a \in Strict!Address |-> IF \E s \in T \cup {t} : a \in Strict!SlotCells(s) THEN Fast!Junk ELSE h.mem[a]]
           os == h.os \ T
<1>1. g = [mem |-> m, os |-> os, block_list |-> h.block_list, jumbo_list |-> h.jumbo_list]
  BY DEF Gone
<1>2. m2 = m3
  <2> HIDE DEF t
  <2> QED
    OBVIOUS
<1>3. os \ {t} = h.os \ (T \cup {t})
  OBVIOUS
<1>4. Gone(h, T \cup {t}) = [mem |-> m3, os |-> h.os \ (T \cup {t}), block_list |-> h.block_list, jumbo_list |-> h.jumbo_list]
  BY DEF Gone
<1>5. Fast!OsFree(g, b) = [g EXCEPT !.os = os \ {t}, !.mem = m2]
  <2>1. g.mem = m /\ g.os = os
    BY <1>1
  <2> HIDE DEF g, m, os, t
  <2> QED
    BY <2>1, FastOs DEF Fast!OsFree, t
<1> HIDE DEF g, m, m2, m3, os, t
<1>6. Fast!OsFree(g, b) = [mem |-> m2, os |-> os \ {t}, block_list |-> h.block_list, jumbo_list |-> h.jumbo_list]
  BY <1>1, <1>5
<1> QED
  BY <1>2, <1>3, <1>4, <1>6 DEF g, t

(* The cells of other blocks stay.                                         *)
LEMMA GoneIs ==
  ASSUME NEW h, FastShaped(h), NEW S \in SUBSET Blocks, NEW g, g = Gone(h, SlotsOf(S))
  PROVE  /\ FastShaped(g) /\ g.os = h.os \ SlotsOf(S)
         /\ g.block_list = h.block_list /\ g.jumbo_list = h.jumbo_list
         /\ \A b \in Blocks : b \notin S => g.mem[b] = h.mem[b]
<1> DEFINE T == SlotsOf(S)
           m == [a \in Strict!Address |-> IF \E s \in T : a \in Strict!SlotCells(s) THEN Fast!Junk ELSE h.mem[a]]
<1>1. g = [mem |-> m, os |-> h.os \ T, block_list |-> h.block_list, jumbo_list |-> h.jumbo_list]
  BY DEF Gone
<1>2. m = [a \in Strict!Address |-> m[a]]
  OBVIOUS
<1>3. h.os \ T \in SUBSET Strict!Slot
  BY DEF FastShaped
<1>4. ASSUME NEW b \in Blocks, b \notin S PROVE m[b] = h.mem[b]
  <2>1. b \in Strict!Address
    BY BlocksApart
  <2>2. ASSUME NEW s \in T, b \in Strict!SlotCells(s) PROVE FALSE
    <3>1. PICK d \in S : s = Strict!SlotOf(d)
      BY DEF SlotsOf
    <3>2. d \in Blocks /\ d # b
      BY <1>4, <3>1
    <3>3. b \in d .. d + SlotSize - 1 /\ (b + SlotSize <= d \/ d + SlotSize <= b) /\ b \in Nat /\ d \in Nat
      BY <2>2, <3>1, <3>2, BlockFacts
    <3>4. SlotSize \in Nat \ {0}
      BY OsAssumption
    <3> QED
      BY <3>3, <3>4
  <2> HIDE DEF T
  <2> QED
    BY <2>1, <2>2
<1> HIDE DEF m, T
<1> QED
  BY <1>1, <1>2, <1>3, <1>4 DEF FastShaped, T

(* Freeing along a list frees all of it: the next block is read before     *)
(* its own is freed.                                                       *)
LEMMA FreeListIs ==
  ASSUME NEW h, FastShaped(h), NEW first, NEW c, Linked(h.mem, first, c)
  PROVE  Fast!FreeList(h, first) = Gone(h, SlotsOf(In(c)))
<1> DEFINE Step(w) == IF w.cur = 0 THEN w
                      ELSE [heap |-> Fast!OsFree(w.heap, w.cur), cur |-> w.heap.mem[w.cur].next]
           P(g) == g = [k \in 0 .. NumSlots |->
                          IF k = 0 THEN [heap |-> h, cur |-> first] ELSE Step(g[k - 1])]
           after == CHOOSE g : P(g)
           Part(k) == {c[j] : j \in {i \in 1 .. Len(c) : i <= k}}
           G(k) == Gone(h, SlotsOf(Part(k)))
           f == [k \in 0 .. NumSlots |-> [heap |-> G(k), cur |-> At(c, k + 1)]]
<1>1. Len(c) \in Nat /\ Len(c) <= NumSlots /\ NumSlots \in Nat
  BY ChainFits, OsAssumption DEF Linked
<1>2. \A j \in 1 .. Len(c) : c[j] \in Blocks /\ c[j] # 0 /\ h.mem[c[j]].next = At(c, j + 1)
  <2>1. \A j \in 1 .. Len(c) : c[j] \in Blocks
    BY DEF Linked, Chain
  <2> QED
    BY <2>1, BlockFacts DEF Linked
<1>3. \A j, k \in 1 .. Len(c) : c[j] = c[k] => j = k
  BY DEF Linked, Chain
<1>4. ASSUME NEW k \in 1 .. NumSlots PROVE f[k] = Step(f[k - 1])
  <2>1. /\ f[k] = [heap |-> G(k), cur |-> At(c, k + 1)]
        /\ f[k - 1] = [heap |-> G(k - 1), cur |-> At(c, k)]
    <3>1. k \in 0 .. NumSlots /\ k - 1 \in 0 .. NumSlots /\ k - 1 + 1 = k
      BY <1>1
    <3> HIDE DEF G
    <3> QED
      BY <3>1
  <2>2. CASE k <= Len(c)
    <3>1. k \in 1 .. Len(c) /\ At(c, k) = c[k]
      BY <1>1, <2>2 DEF At
    <3>2. c[k] \notin Part(k - 1) /\ Part(k) = Part(k - 1) \cup {c[k]} /\ Part(k - 1) \in SUBSET Blocks
      <4>1. {i \in 1 .. Len(c) : i <= k} = {i \in 1 .. Len(c) : i <= k - 1} \cup {k}
        BY <1>1, <3>1
      <4>2. k \notin {i \in 1 .. Len(c) : i <= k - 1}
        BY <3>1
      <4> QED
        BY <1>2, <1>3, <3>1, <4>1, <4>2
    <3>3. SlotsOf(Part(k)) = SlotsOf(Part(k - 1)) \cup {Strict!SlotOf(c[k])}
      <4> HIDE DEF Part
      <4> QED
        BY <3>2 DEF SlotsOf
    <3>4. G(k) = Fast!OsFree(G(k - 1), c[k])
      <4> HIDE DEF Part
      <4> QED
        BY <3>3, GoneNext
    <3>5. G(k - 1).mem[c[k]] = h.mem[c[k]]
      <4> HIDE DEF Part
      <4> QED
        BY <1>2, <3>1, <3>2, GoneIs
    <3> HIDE DEF G, f, Part
    <3>6. f[k - 1].cur = c[k] /\ f[k - 1].heap = G(k - 1) /\ f[k - 1].cur # 0
      BY <1>2, <2>1, <3>1
    <3>7. Step(f[k - 1]) = [heap |-> Fast!OsFree(G(k - 1), c[k]), cur |-> G(k - 1).mem[c[k]].next]
      BY <3>6
    <3> HIDE DEF Step
    <3> QED
      BY <1>2, <2>1, <3>1, <3>4, <3>5, <3>7
  <2>3. CASE ~(k <= Len(c))
    <3>1. At(c, k) = 0 /\ At(c, k + 1) = 0
      BY <1>1, <2>3 DEF At
    <3>2. {i \in 1 .. Len(c) : i <= k} = {i \in 1 .. Len(c) : i <= k - 1}
      BY <1>1, <2>3
    <3>3. G(k) = G(k - 1)
      BY <3>2
    <3> HIDE DEF G, f
    <3> QED
      BY <1>1, <2>1, <3>1, <3>3
  <2> QED
    BY <2>2, <2>3
<1>5. f[0] = [heap |-> h, cur |-> first]
  <2>1. 0 \in 0 .. NumSlots /\ first = At(c, 1) /\ 0 + 1 = 1
    BY <1>1 DEF Linked
  <2>2. G(0) = h
    <3>1. Part(0) = {}
      BY <1>1
    <3> HIDE DEF Part
    <3>2. SlotsOf(Part(0)) = {}
      BY <3>1 DEF SlotsOf
    <3> QED
      BY <3>2, GoneFirst
  <2> HIDE DEF G
  <2> QED
    BY <2>1, <2>2
<1> HIDE DEF G
<1>6. P(f)
  <2>1. \A k \in 0 .. NumSlots : k = 0 \/ k \in 1 .. NumSlots
    BY <1>1
  <2>2. f = [k \in 0 .. NumSlots |-> f[k]]
    OBVIOUS
  <2> HIDE DEF f, Step
  <2> QED
    BY <1>4, <1>5, <2>1, <2>2
<1>7. P(after)
  <2> HIDE DEF P, f
  <2> QED
    BY <1>6, Zenon
<1>8. Fast!FreeList(h, first) = after[NumSlots].heap
  BY Zenon DEF Fast!FreeList, Fast!Null
<1> HIDE DEF after
<1>9. after[0] = f[0] /\ \A k \in 1 .. NumSlots : after[k] = Step(after[k - 1])
  <2> HIDE DEF f, Step
  <2>1. \A k \in 1 .. NumSlots : k \in 0 .. NumSlots /\ k # 0
    BY <1>1
  <2>2. \A k \in 0 .. NumSlots :
          after[k] = IF k = 0 THEN [heap |-> h, cur |-> first] ELSE Step(after[k - 1])
    BY <1>7, Zenon
  <2>3. 0 \in 0 .. NumSlots
    BY <1>1
  <2> QED
    BY <1>5, <2>1, <2>2, <2>3
<1> DEFINE Wrong == {k \in 0 .. NumSlots : after[k] # f[k]}
<1>10. Wrong = {}
  <2> SUFFICES ASSUME Wrong # {} PROVE FALSE
    OBVIOUS
  <2>1. Wrong \in SUBSET Nat
    BY <1>1
  <2> HIDE DEF f, Step
  <2>2. PICK k \in Wrong : \A n \in Wrong : k <= n
    <3> HIDE DEF Wrong
    <3> QED
      BY <2>1, Least
  <2>3. k \in 1 .. NumSlots /\ k - 1 \in 0 .. NumSlots /\ ~(k <= k - 1)
    BY <1>1, <1>9, <2>2
  <2>4. after[k - 1] = f[k - 1]
    BY <2>2, <2>3
  <2> QED
    BY <1>4, <1>9, <2>2, <2>3, <2>4
<1>11. after[NumSlots] = f[NumSlots] /\ NumSlots \in 0 .. NumSlots
  <2> HIDE DEF f
  <2> QED
    BY <1>1, <1>10
<1>12. {i \in 1 .. Len(c) : i <= NumSlots} = 1 .. Len(c)
  BY <1>1
<1>13. f[NumSlots].heap = G(NumSlots)
  BY <1>11
<1> QED
  BY <1>8, <1>11, <1>12, <1>13 DEF G, In

LEMMA SlotsOfIs ==
  ASSUME NEW S \in SUBSET Blocks, NEW s \in Strict!Slot PROVE s \in SlotsOf(S) <=> Strict!Base(s) \in S
<1>1. ASSUME s \in SlotsOf(S) PROVE Strict!Base(s) \in S
  BY <1>1, BlockFacts DEF SlotsOf
<1>2. ASSUME Strict!Base(s) \in S PROVE s \in SlotsOf(S)
  BY <1>2, SlotFacts DEF SlotsOf
<1> QED
  BY <1>1, <1>2

(* A list without its first block, and one whose links are as they were.   *)
LEMMA LinkedTail ==
  ASSUME NEW m, NEW first, NEW c, Linked(m, first, c), first # 0
  PROVE  Linked(m, m[first].next, Tail(c)) /\ In(Tail(c)) = In(c) \ {first} /\ first \in In(c)
<1> DEFINE e == Tail(c)
<1>1. /\ c \in Seq(Blocks) /\ Len(c) \in Nat /\ \A j \in 1 .. Len(c) : c[j] \in Blocks
      /\ \A j, k \in 1 .. Len(c) : c[j] = c[k] => j = k
      /\ \A j \in 1 .. Len(c) : m[c[j]].next = At(c, j + 1)
      /\ first = At(c, 1)
  <2>1. c \in Seq(Blocks)
    BY DEF Linked, Chain
  <2> QED
    BY <2>1 DEF Linked, Chain
<1>2. 1 \in 1 .. Len(c) /\ first = c[1] /\ c # << >>
  BY <1>1 DEF At
<1>3. e \in Seq(Blocks) /\ Len(e) = Len(c) - 1 /\ \A j \in 1 .. Len(e) : e[j] = c[j + 1]
  BY <1>1, <1>2
<1> HIDE DEF e
<1>4. /\ \A j \in 1 .. Len(e) : j + 1 \in 1 .. Len(c) /\ j + 1 # 1
      /\ \A j \in 1 .. Len(c) : j # 1 => j - 1 \in 1 .. Len(e) /\ (j - 1) + 1 = j /\ e[j - 1] = c[j]
  <2>1. ASSUME NEW j \in 1 .. Len(c), j # 1 PROVE j - 1 \in 1 .. Len(e) /\ (j - 1) + 1 = j
    BY <1>1, <1>3, <2>1
  <2> QED
    BY <1>1, <1>3, <2>1
<1>5. Chain(e)
  <2> SUFFICES ASSUME NEW j \in 1 .. Len(e), NEW k \in 1 .. Len(e), e[j] = e[k] PROVE j = k
    BY <1>3 DEF Chain
  <2>1. j + 1 = k + 1
    BY <1>1, <1>3, <1>4
  <2> QED
    BY <2>1
<1>6. \A k \in Nat : At(e, k + 1) = At(c, (k + 1) + 1)
  BY <1>1, <1>3 DEF At
<1>7. m[first].next = At(e, 1)
  <2>1. m[first].next = At(c, 1 + 1)
    BY <1>1, <1>2
  <2>2. At(e, 0 + 1) = At(c, (0 + 1) + 1)
    BY <1>6
  <2> QED
    BY <2>1, <2>2
<1>8. ASSUME NEW j \in 1 .. Len(e) PROVE m[e[j]].next = At(e, j + 1)
  <2>1. m[e[j]].next = At(c, (j + 1) + 1)
    BY <1>1, <1>3, <1>4
  <2> QED
    BY <1>6, <2>1
<1>9. In(e) = In(c) \ {first}
  <2>1. ASSUME NEW x \in In(e) PROVE x \in In(c) /\ x # first
    <3>1. PICK j \in 1 .. Len(e) : x = e[j]
      BY DEF In
    <3> QED
      BY <1>1, <1>2, <1>3, <1>4, <3>1 DEF In
  <2>2. ASSUME NEW x \in In(c), x # first PROVE x \in In(e)
    <3>1. PICK j \in 1 .. Len(c) : x = c[j] /\ j # 1
      BY <1>2, <2>2 DEF In
    <3> QED
      BY <1>4, <3>1 DEF In
  <2> QED
    BY <2>1, <2>2
<1>10. first \in In(c)
  BY <1>2 DEF In
<1> QED
  BY <1>5, <1>7, <1>8, <1>9, <1>10 DEF Linked, e

LEMMA SameLinks ==
  ASSUME NEW m, NEW first, NEW c, Linked(m, first, c), NEW m2, \A x \in In(c) : m2[x].next = m[x].next
  PROVE  Linked(m2, first, c)
BY DEF Linked, In

LEMMA NoBlocks ==
  /\ Chain(<< >>) /\ In(<< >>) = {} /\ At(<< >>, 1) = 0
  /\ \A m, c : Linked(m, 0, c) => In(c) = {}
<1>1. Chain(<< >>) /\ In(<< >>) = {} /\ At(<< >>, 1) = 0
  BY DEF Chain, In, At
<1>2. ASSUME NEW m, NEW c, Linked(m, 0, c) PROVE In(c) = {}
  <2>1. c \in Seq(Blocks) /\ Len(c) \in Nat /\ At(c, 1) = 0
    BY <1>2 DEF Linked, Chain
  <2>2. Len(c) = 0
    <3>1. ASSUME Len(c) # 0 PROVE FALSE
      <4>1. 1 \in 1 .. Len(c) /\ c[1] \in Blocks
        BY <2>1, <3>1
      <4> QED
        BY <2>1, <4>1, BlockFacts DEF At
    <3> QED
      BY <3>1
  <2> QED
    BY <2>2 DEF In
<1> QED
  BY <1>1, <1>2

(* An allocator with at most one block, in which nothing is handed out.    *)
Bare(h) ==
  /\ FastShaped(h) /\ h.jumbo_list = 0
  /\ \/ h.block_list = 0 /\ h.os = {}
     \/ /\ h.block_list \in Blocks /\ h.os = {Strict!SlotOf(h.block_list)}
        /\ h.mem[h.block_list] = Fast!Block(0, 1)

LEMMA BareIs ==
  ASSUME NEW h, Bare(h)
  PROVE  \E bs : FastLists(h, bs, << >>) /\ \A x \in In(bs) : x = h.block_list
<1>1. FastShaped(h) /\ h.jumbo_list = 0 /\ Linked(h.mem, h.jumbo_list, << >>)
  BY NoBlocks DEF Bare, Linked
<1>2. CASE h.block_list = 0 /\ h.os = {}
  <2>1. Linked(h.mem, h.block_list, << >>)
    BY <1>2, NoBlocks DEF Linked
  <2> QED
    BY <1>1, <1>2, <2>1, NoBlocks DEF FastLists, Told
<1>3. CASE h.block_list \in Blocks /\ h.os = {Strict!SlotOf(h.block_list)} /\ h.mem[h.block_list] = Fast!Block(0, 1)
  <2> DEFINE b == h.block_list
             z == << >>
             e == <<b>> \o z
             m == h.mem
  <2>1. Linked(m, 0, z) /\ b \notin In(z) /\ \A y \in In(z) : m[y].next = m[y].next
    BY NoBlocks DEF Linked
  <2>2. h.mem[b].next = 0 /\ h.mem[b].pos = 1
    BY <1>3 DEF Fast!Block
  <2>3. Linked(m, b, e) /\ In(e) = In(z) \cup {b}
    <3> HIDE DEF z
    <3>1. b \in Blocks /\ m[b].next = 0
      BY <1>3, <2>2
    <3> HIDE DEF b, m
    <3> QED
      BY <2>1, <3>1, LinkedPush
  <2>4. In(e) = {b}
    BY <2>3, NoBlocks
  <2>5. BlockAt(h.mem, b)
    BY <1>3, <2>2, FastFacts DEF BlockAt
  <2>6. \A s \in Strict!Slot : s \in h.os <=> Strict!Base(s) = b
    BY <1>3, BlockFacts, SlotFacts
  <2> HIDE DEF e
  <2>7. FastLists(h, e, << >>)
    BY <1>1, <2>3, <2>4, <2>5, <2>6, NoBlocks DEF FastLists, Told
  <2> QED
    BY <2>4, <2>7
<1> QED
  BY <1>2, <1>3 DEF Bare

(* wmem_block_fast_free_all leaves such an allocator.                      *)
LEMMA FreeAllBlocksIs ==
  ASSUME NEW h, NEW bs, NEW js, FastLists(h, bs, js) PROVE Bare(Fast!FreeAllBlocks(h))
<1> DEFINE b == h.block_list
           x == Fast!Block(0, 1)
           hh == [h EXCEPT !.mem[b] = x]
           n == h.mem[b].next
           h1 == IF b = 0 THEN h ELSE Fast!FreeList(hh, n)
           g == Fast!FreeList(h1, h1.jumbo_list)
           h2 == Fast!FreeAllBlocks(h)
<1>1. /\ FastShaped(h) /\ Linked(h.mem, b, bs) /\ Linked(h.mem, h.jumbo_list, js)
      /\ In(bs) \cap In(js) = {}
      /\ \A s \in Strict!Slot : s \in h.os <=> Strict!Base(s) \in In(bs) \cup In(js)
      /\ In(bs) \in SUBSET Blocks /\ In(js) \in SUBSET Blocks
  BY InBlocks DEF FastLists, Linked
<1>2. h2 = [g EXCEPT !.jumbo_list = 0]
  BY Zenon DEF Fast!FreeAllBlocks, Fast!Null
<1> HIDE DEF h2, g, x
<1>3. /\ FastShaped(h1) /\ h1.block_list = b /\ h1.jumbo_list = h.jumbo_list
      /\ h1.os = h.os \ SlotsOf(In(bs) \ {b})
      /\ \A d \in In(js) : h1.mem[d] = h.mem[d]
      /\ b # 0 => h1.mem[b] = x /\ b \in In(bs)
  <2>1. CASE b = 0
    <3>1. h1 = h /\ In(bs) = {}
      BY <1>1, <2>1, NoBlocks
    <3>2. h.os \ SlotsOf(In(bs) \ {b}) = h.os
      BY <3>1 DEF SlotsOf
    <3> HIDE DEF h1
    <3> QED
      BY <1>1, <2>1, <3>1, <3>2
  <2>2. CASE b # 0
    <3>1. Linked(h.mem, n, Tail(bs)) /\ In(Tail(bs)) = In(bs) \ {b} /\ b \in In(bs)
      BY <1>1, <2>2, LinkedTail
    <3> DEFINE S == In(bs) \ {b}
               m == [h.mem EXCEPT ![b] = x]
    <3>2. b \in Strict!Address /\ b \in Blocks
      BY <1>1, <3>1, BlocksApart
    <3>3. h = [mem |-> h.mem, os |-> h.os, block_list |-> h.block_list, jumbo_list |-> h.jumbo_list]
          /\ h.mem = [a \in Strict!Address |-> h.mem[a]] /\ h.os \in SUBSET Strict!Slot
      BY <1>1 DEF FastShaped
    <3>4. m = [a \in Strict!Address |-> m[a]] /\ m[b] = x /\ \A d : d # b /\ d \in Strict!Address => m[d] = h.mem[d]
      BY <3>2, <3>3
    <3>5. hh = [h EXCEPT !.mem = m]
      OBVIOUS
    <3> HIDE DEF hh, m
    <3>6. hh = [mem |-> m, os |-> h.os, block_list |-> b, jumbo_list |-> h.jumbo_list]
      BY <3>3, <3>5
    <3>7. FastShaped(hh) /\ hh.mem = m /\ hh.os = h.os /\ hh.block_list = b /\ hh.jumbo_list = h.jumbo_list
      BY <3>3, <3>4, <3>6 DEF FastShaped
    <3>8. \A d \in In(bs) \cup In(js) : d # b => m[d] = h.mem[d]
      BY <1>1, <3>4, BlocksApart
    <3>9. Linked(m, n, Tail(bs))
      BY <3>1, <3>8, SameLinks
    <3>10. h1 = Gone(hh, SlotsOf(S))
      BY <2>2, <3>1, <3>7, <3>9, FreeListIs
    <3>11. S \in SUBSET Blocks
      BY <1>1
    <3> HIDE DEF h1, S
    <3>12. /\ FastShaped(h1) /\ h1.os = hh.os \ SlotsOf(S)
           /\ h1.block_list = hh.block_list /\ h1.jumbo_list = hh.jumbo_list
           /\ \A d \in Blocks : d \notin S => h1.mem[d] = hh.mem[d]
      BY <3>7, <3>10, <3>11, GoneIs
    <3>13. \A d \in In(js) : d \notin S /\ d # b /\ d \in Blocks
      BY <1>1, <3>1 DEF S
    <3>14. b \notin S
      BY DEF S
    <3> QED
      BY <3>1, <3>2, <3>4, <3>7, <3>8, <3>12, <3>13, <3>14 DEF S
  <2> QED
    BY <2>1, <2>2
<1> HIDE DEF h1
<1>4. Linked(h1.mem, h1.jumbo_list, js)
  BY <1>1, <1>3, SameLinks
<1>5. g = Gone(h1, SlotsOf(In(js)))
  BY <1>3, <1>4, FreeListIs DEF g
<1>6. /\ FastShaped(g) /\ g.os = h1.os \ SlotsOf(In(js)) /\ g.block_list = b
      /\ b # 0 => g.mem[b] = x
  <2>1. /\ FastShaped(g) /\ g.os = h1.os \ SlotsOf(In(js))
        /\ g.block_list = h1.block_list /\ g.jumbo_list = h1.jumbo_list
        /\ \A d \in Blocks : d \notin In(js) => g.mem[d] = h1.mem[d]
    <3> DEFINE J == In(js)
    <3>1. J \in SUBSET Blocks /\ FastShaped(h1) /\ g = Gone(h1, SlotsOf(J))
      BY <1>1, <1>3, <1>5
    <3> HIDE DEF J
    <3>2. /\ FastShaped(g) /\ g.os = h1.os \ SlotsOf(J)
          /\ g.block_list = h1.block_list /\ g.jumbo_list = h1.jumbo_list
          /\ \A d \in Blocks : d \notin J => g.mem[d] = h1.mem[d]
      BY <3>1, GoneIs
    <3> QED
      BY <3>2 DEF J
  <2>2. b # 0 => b \in Blocks /\ b \notin In(js)
    BY <1>1, <1>3
  <2> QED
    BY <1>3, <2>1, <2>2
<1>7. h2 = [mem |-> g.mem, os |-> g.os, block_list |-> b, jumbo_list |-> 0]
  <2>1. g = [mem |-> g.mem, os |-> g.os, block_list |-> g.block_list, jumbo_list |-> g.jumbo_list]
    BY <1>6 DEF FastShaped
  <2> QED
    BY <1>2, <1>6, <2>1
<1>8. FastShaped(h2) /\ h2.mem = g.mem /\ h2.os = g.os /\ h2.block_list = b /\ h2.jumbo_list = 0
  BY <1>6, <1>7 DEF FastShaped
<1>9. \A s \in Strict!Slot : s \in h2.os <=> Strict!Base(s) \in In(bs) /\ Strict!Base(s) = b
  <2> TAKE s \in Strict!Slot
  <2>1. s \in SlotsOf(In(bs) \ {b}) <=> Strict!Base(s) \in In(bs) \ {b}
    BY <1>1, SlotsOfIs
  <2>2. s \in SlotsOf(In(js)) <=> Strict!Base(s) \in In(js)
    BY <1>1, SlotsOfIs
  <2> QED
    BY <1>1, <1>3, <1>6, <1>8, <2>1, <2>2
<1>10. h2.os \in SUBSET Strict!Slot
  BY <1>8 DEF FastShaped
<1>11. CASE b = 0
  <2>1. In(bs) = {}
    BY <1>1, <1>11, NoBlocks
  <2>2. h2.os = {}
    BY <1>9, <1>10, <2>1
  <2> QED
    BY <1>8, <1>11, <2>2 DEF Bare, h2
<1>12. CASE b # 0
  <2>1. b \in Blocks /\ b \in In(bs)
    BY <1>1, <1>3, <1>12
  <2>2. h2.os = {Strict!SlotOf(b)}
    <3>1. Strict!SlotOf(b) \in Strict!Slot /\ Strict!Base(Strict!SlotOf(b)) = b
      BY <2>1, BlockFacts
    <3>2. \A s \in Strict!Slot : Strict!Base(s) = b => s = Strict!SlotOf(b)
      BY SlotFacts
    <3> QED
      BY <1>9, <1>10, <2>1, <3>1, <3>2
  <2> QED
    BY <1>6, <1>8, <1>12, <2>1, <2>2 DEF Bare, h2, x
<1> QED
  BY <1>11, <1>12

LEMMA NoneHoused ==
  ASSUME NEW h, NEW S, NEW J PROVE Housed(h, << >>, S, J) /\ Mine(h, << >>)
BY DEF Housed, Mine

LEMMA BareSound == ASSUME NEW h, Bare(h) PROVE FastSound(h, << >>)
BY BareIs, NoneHoused DEF FastSound

LEMMA BareForgotten ==
  ASSUME NEW h, Bare(h), NEW f, f = Fast!Forget(h, << >>)
  PROVE  /\ FastSound(f, << >>) /\ FastShaped(f) /\ f.os = h.os
         /\ f.block_list = h.block_list /\ f.jumbo_list = 0
<1>1. PICK bs : FastLists(h, bs, << >>)
  BY BareIs
<1> DEFINE js == << >>
           lv == << >>
<1>2. FastLists(h, bs, js) /\ Housed(h, lv, In(bs), In(js)) /\ f = Fast!Forget(h, lv)
  BY <1>1, NoneHoused
<1> HIDE DEF js, lv
<1>3. FastLists(f, bs, js) /\ Housed(f, lv, In(bs), In(js)) /\ f.os = h.os
  BY <1>2, FastForgotten
<1>4. f.block_list = h.block_list /\ f.jumbo_list = h.jumbo_list /\ FastShaped(f)
  BY <1>2, <1>3 DEF FastLists, Linked
<1>5. h.jumbo_list = 0
  BY DEF Bare
<1> QED
  BY <1>3, <1>4, <1>5 DEF FastSound, lv

(* The cleanup frees what is left.                                         *)
LEMMA CleanedUp ==
  ASSUME NEW f, FastShaped(f), f.jumbo_list = 0,
         f.os = IF f.block_list = 0 THEN {} ELSE {Strict!SlotOf(f.block_list)}
  PROVE  Bare(Fast!Cleanup(f)) /\ Fast!Cleanup(f).os = {}
<1>1. f = [mem |-> f.mem, os |-> f.os, block_list |-> f.block_list, jumbo_list |-> 0]
  BY DEF FastShaped
<1>2. CASE f.block_list = 0
  <2>1. Fast!Cleanup(f) = f
    BY <1>2 DEF Fast!Cleanup, Fast!Null
  <2> QED
    BY <1>2, <2>1 DEF Bare
<1>3. CASE f.block_list # 0
  <2> DEFINE b == f.block_list
             t == Strict!SlotOf(b)
             m == [a \in Strict!Address |-> IF a \in Strict!SlotCells(t) THEN Fast!Junk ELSE f.mem[a]]
             o == Fast!OsFree(f, b)
             c == Fast!Cleanup(f)
  <2>1. o = [f EXCEPT !.os = f.os \ {t}, !.mem = m]
    BY <1>1, FastOs DEF Fast!OsFree
  <2>2. m = [a \in Strict!Address |-> m[a]]
    OBVIOUS
  <2>3. f.os \ {t} = {}
    BY <1>3
  <2>4. c = [o EXCEPT !.block_list = 0]
    BY <1>3 DEF Fast!Cleanup, Fast!Null
  <2> HIDE DEF o, m, t, c
  <2>5. o = [mem |-> m, os |-> {}, block_list |-> b, jumbo_list |-> 0]
    BY <1>1, <2>1, <2>3
  <2>6. c = [mem |-> m, os |-> {}, block_list |-> 0, jumbo_list |-> 0]
    BY <2>4, <2>5
  <2>7. /\ c.mem = m /\ c.os = {} /\ c.block_list = 0 /\ c.jumbo_list = 0
        /\ c = [mem |-> c.mem, os |-> c.os, block_list |-> c.block_list, jumbo_list |-> c.jumbo_list]
    BY <2>6
  <2>8. Bare(c)
    BY <2>2, <2>7 DEF Bare, FastShaped
  <2> QED
    BY <2>7, <2>8 DEF c
<1> QED
  BY <1>2, <1>3

LEMMA FastFreeAllKeeps ==
  ASSUME FastSound(heap, live), Fast!FreeAll \/ Fast!Destroy
  PROVE  FastKept /\ live' = << >> /\ (Fast!Destroy => heap'.os = {})
<1> DEFINE g == Fast!FreeAllBlocks(heap)
           f == Fast!Forget(g, << >>)
<1>1. live' = << >>
  BY DEF Fast!FreeAll, Fast!Destroy
<1>2. Bare(g)
  BY FreeAllBlocksIs DEF FastSound
<1>3. /\ FastSound(f, << >>) /\ FastShaped(f) /\ f.os = g.os
      /\ f.block_list = g.block_list /\ f.jumbo_list = 0
  BY <1>2, BareForgotten
<1>4. CASE Fast!FreeAll /\ ~Fast!Destroy
  <2>1. heap' = f
    BY <1>1, <1>4 DEF Fast!FreeAll
  <2> QED
    BY <1>1, <1>3, <1>4, <2>1, NoneHoused DEF FastKept
<1>5. CASE Fast!Destroy
  <2>1. heap' = Fast!Cleanup(f)
    BY <1>1, <1>5 DEF Fast!Destroy
  <2> HIDE DEF f, g
  <2>2. f.os = IF f.block_list = 0 THEN {} ELSE {Strict!SlotOf(f.block_list)}
    <3>1. \A b \in Blocks : b # 0
      BY BlockFacts
    <3> QED
      BY <1>2, <1>3, <3>1 DEF Bare
  <2>3. Bare(heap') /\ heap'.os = {}
    BY <1>3, <2>1, <2>2, CleanedUp
  <2> DEFINE hh == heap'
  <2>4. FastSound(hh, << >>)
    <3>1. Bare(hh)
      BY <2>3
    <3> HIDE DEF hh
    <3> QED
      BY <3>1, BareSound
  <2>5. Mine(hh, << >>)
    BY NoneHoused
  <2> QED
    BY <1>1, <2>3, <2>4, <2>5 DEF FastKept
<1> QED
  BY <1>4, <1>5

FastHolding ==
  OfFast => /\ created \in BOOLEAN
            /\ FastSound(heap, live) /\ Mine(heap, live)
            /\ ~created => heap.os = {} /\ live = << >>

LEMMA NewListsBare ==
  ASSUME NEW h, FastShaped(h), h.os = {},
         NEW h2, h2 = [h EXCEPT !.block_list = 0, !.jumbo_list = 0]
  PROVE  Bare(h2)
<1>1. h = [mem |-> h.mem, os |-> h.os, block_list |-> h.block_list, jumbo_list |-> h.jumbo_list]
      /\ h.mem = [a \in Strict!Address |-> h.mem[a]]
  BY DEF FastShaped
<1>2. h2 = [mem |-> h.mem, os |-> h.os, block_list |-> 0, jumbo_list |-> 0]
  BY <1>1
<1>3. /\ h2.mem = h.mem /\ h2.os = {} /\ h2.block_list = 0 /\ h2.jumbo_list = 0
      /\ h2 = [mem |-> h2.mem, os |-> h2.os, block_list |-> h2.block_list, jumbo_list |-> h2.jumbo_list]
  BY <1>2
<1> QED
  BY <1>1, <1>3 DEF Bare, FastShaped

LEMMA FastCreateKeeps ==
  ASSUME FastSound(heap, live), heap.os = {}, live = << >>, Fast!Create
  PROVE  FastKept /\ live' = live
<1>1. heap' = [heap EXCEPT !.block_list = 0, !.jumbo_list = 0] /\ live' = << >>
  BY DEF Fast!Create, Fast!Null
<1>2. FastShaped(heap)
  BY DEF FastSound, FastLists
<1> DEFINE h2 == heap'
<1>3. Bare(h2)
  BY <1>1, <1>2, NewListsBare
<1>4. FastSound(h2, << >>) /\ Mine(h2, << >>)
  <2> HIDE DEF h2
  <2> QED
    BY <1>3, BareSound, NoneHoused
<1> QED
  BY <1>1, <1>4 DEF FastKept

LEMMA InitFast == Init => FastHolding
<1> SUFFICES ASSUME Init, OfFast PROVE FastHolding
  BY DEF FastHolding
<1>1. Fast!Init
  BY DEF Init, OfBlock, OfFast, OfSimple, OfStrict
<1>2. /\ heap = [mem |-> [a \in Strict!Address |-> Fast!Junk], os |-> {}, block_list |-> 0, jumbo_list |-> 0]
      /\ live = << >> /\ created = TRUE
  BY <1>1, FastOs DEF Fast!Init, Fast!Null
<1> DEFINE m == [a \in Strict!Address |-> Fast!Junk]
<1>3. m = [a \in Strict!Address |-> m[a]]
  OBVIOUS
<1>4. heap = [mem |-> m, os |-> {}, block_list |-> 0, jumbo_list |-> 0]
  BY <1>2
<1> HIDE DEF m
<1>5. Bare(heap)
  BY <1>3, <1>4 DEF Bare, FastShaped
<1> QED
  BY <1>2, <1>5, BareSound, NoneHoused DEF FastHolding

LEMMA StepFast == FastHolding /\ [Next]_vars => FastHolding'
<1> SUFFICES ASSUME FastHolding, [Next]_vars, OfFast
             PROVE  /\ created' \in BOOLEAN /\ FastKept
                    /\ ~created' => heap'.os = {} /\ live' = << >>
  BY DEF FastHolding, FastKept, Next, vars, OfBlock, OfFast, OfSimple, OfStrict
<1>1. Fast!CarefulNext \/ UNCHANGED vars
  BY DEF Next, OfBlock, OfFast, OfSimple, OfStrict
<1>2. /\ created \in BOOLEAN /\ FastSound(heap, live) /\ Mine(heap, live)
      /\ ~created => heap.os = {} /\ live = << >>
  BY DEF FastHolding
<1>3. CASE UNCHANGED vars
  BY <1>2, <1>3 DEF vars, FastKept
<1>4. ASSUME NEW i \in Id, NEW size \in Size, Fast!Alloc(i, size)
      PROVE  FastKept /\ created /\ created' = created
  BY <1>2, <1>4, FastAllocKeeps DEF Fast!Alloc, Fast!HandedOut
<1>5. ASSUME NEW i \in Id, NEW size \in Size, Fast!Realloc(i, size)
      PROVE  FastKept /\ created /\ created' = created
  <2>1. FastKept
    BY <1>2, <1>5, FastReallocStays, FastReallocMoves
  <2> QED
    BY <1>5, <2>1 DEF Fast!Realloc, Fast!HandedOut
<1>6. ASSUME NEW i \in Id, Fast!Free(i) PROVE FastKept /\ created /\ created' = created
  BY <1>2, <1>6, FastFreeKeeps DEF Fast!Free
<1>7. ASSUME NEW i \in Id, NEW size \in Size, Fast!ReallocOfJumbo(i, size), Fast!KnowsPredecessor(i)
      PROVE  FastKept /\ created /\ created' = created
  <2>1. FastKept
    BY <1>2, <1>7, FastReallocOfJumboKeeps
  <2> QED
    BY <1>7, <2>1 DEF Fast!ReallocOfJumbo, Fast!HandedOut
<1>8. CASE Fast!FreeAll
  <2>1. FastKept /\ created' = created /\ created
    BY <1>2, <1>8, FastFreeAllKeeps DEF Fast!FreeAll
  <2> QED
    BY <1>2, <2>1
<1>9. CASE Fast!Destroy
  <2>1. FastKept /\ created' = FALSE /\ heap'.os = {} /\ live' = << >>
    BY <1>2, <1>9, FastFreeAllKeeps DEF Fast!Destroy
  <2> QED
    BY <2>1
<1>10. CASE Fast!Create
  <2>1. ~created /\ created' = TRUE
    BY <1>10 DEF Fast!Create
  <2> QED
    BY <1>2, <1>10, <2>1, FastCreateKeeps
<1> QED
  <2>1. \/ UNCHANGED vars
        \/ \E i \in Id, size \in Size : Fast!Alloc(i, size)
        \/ \E i \in Id, size \in Size : Fast!Realloc(i, size)
        \/ \E i \in Id, size \in Size : Fast!ReallocOfJumbo(i, size) /\ Fast!KnowsPredecessor(i)
        \/ \E i \in Id : Fast!Free(i)
        \/ Fast!FreeAll \/ Fast!Destroy \/ Fast!Create
    BY <1>1 DEF Fast!CarefulNext, Fast!Calls
  <2> QED
    BY <1>2, <1>3, <1>4, <1>5, <1>6, <1>7, <1>8, <1>9, <1>10, <2>1

(* An allocation has a unit at least.                                      *)
LEMMA UnitsPositive == \A size \in Size : Strict!Units(size) \in Nat /\ Strict!Units(size) >= 1
<1> SUFFICES ASSUME NEW size \in Size PROVE Strict!Units(size) \in Nat /\ Strict!Units(size) >= 1
  OBVIOUS
<1>1. size \in Nat /\ size >= 1 /\ AlignAmount \in Nat \ {0} /\ Strict!Units(size) \in Nat
  BY CoreAssumption, OsAssumption, UnitsFacts DEF CoreAssumption, Strict!StrictAssumption
<1> QED
  BY <1>1 DEF Strict!Units

(* Allocations of the fast block allocator are apart, as WmemAlloc wants.  *)
LEMMA FastPlaced == ASSUME NEW h, NEW lv, FastSound(h, lv) PROVE Placed(lv)
<1>1. PICK bs, js : FastLists(h, bs, js) /\ Housed(h, lv, In(bs), In(js))
  BY DEF FastSound
<1>2. \A k \in DOMAIN lv : Promise!Cells(lv[k]) = Strict!CellsOf(lv[k])
  BY DEF Promise!Cells, Promise!Units, Strict!CellsOf, Strict!Units
<1>3. ASSUME NEW i \in DOMAIN lv PROVE lv[i].ptr \in Address /\ lv[i].size \in Size
  <2>1. lv[i].ptr \in Nat /\ lv[i].size \in Size
    BY <1>1 DEF Housed, House
  <2>2. lv[i].ptr \in Strict!CellsOf(lv[i])
    BY <2>1, UnitsPositive DEF Strict!CellsOf
  <2>3. Address = Strict!Address
    BY DEF Address, Strict!Address
  <2> QED
    BY <1>1, <2>1, <2>2, <2>3, HeldPlain
<1>4. ASSUME NEW i \in DOMAIN lv, NEW j \in DOMAIN lv \ {i}
      PROVE  Promise!Cells(lv[i]) \cap Promise!Cells(lv[j]) = {}
  <2>1. ASSUME NEW a \in Strict!CellsOf(lv[i]) PROVE a \notin Strict!CellsOf(lv[j])
    BY <1>1, <1>4, <2>1, HeldPlain
  <2> QED
    BY <1>2, <2>1
<1> QED
  BY <1>3, <1>4 DEF Placed

LEMMA StepFastPromised ==
  FastHolding /\ [Next]_vars /\ OfFast => [Promise!Next]_(Promise!vars)
<1> SUFFICES ASSUME FastHolding, [Next]_vars, OfFast PROVE [Promise!Next]_(Promise!vars)
  OBVIOUS
<1>1. OfFast' /\ (Fast!CarefulNext \/ UNCHANGED vars)
  BY DEF Next, vars, OfBlock, OfFast, OfSimple, OfStrict
<1>2. FastSound(heap, live) /\ Mine(heap, live)
  BY DEF FastHolding
<1>3. FastHolding'
  BY StepFast
<1>4. FastSound(heap', live') /\ Mine(heap', live')
  BY <1>1, <1>3 DEF FastHolding
<1>5. Seen
  <2>1. Placed(live) /\ Placed(live')
    BY <1>2, <1>4, FastPlaced
  <2> QED
    BY <1>2, <1>4, <2>1, ContentIs DEF Seen
<1>6. ASSUME NEW i \in Id, NEW size \in Size, Fast!Alloc(i, size) PROVE Promise!Alloc(i, size)
  <2> DEFINE r == [ptr |-> Fast!FastAlloc(heap, size).ptr, size |-> size]
  <2>1. i \notin DOMAIN live /\ live' = Strict!With(live, i, r)
    BY <1>6 DEF Fast!Alloc, Fast!HandedOut, Fast!With, Strict!With
  <2>2. r = [ptr |-> r.ptr, size |-> size]
    OBVIOUS
  <2> HIDE DEF r
  <2> QED
    BY <1>5, <2>1, <2>2, AllocPromised
<1>7. ASSUME NEW i \in Id, NEW size \in Size, NEW p, i \in DOMAIN live,
             live' = Strict!With(live, i, [ptr |-> p, size |-> size])
      PROVE  Promise!Realloc(i, size)
  <2> DEFINE r == [ptr |-> p, size |-> size]
  <2>1. r = [ptr |-> r.ptr, size |-> size] /\ live' = Strict!With(live, i, r)
    BY <1>7
  <2> HIDE DEF r
  <2> QED
    BY <1>5, <1>7, <2>1, ReallocPromised
<1>8. ASSUME NEW i \in Id, NEW size \in Size, Fast!Realloc(i, size) PROVE Promise!Realloc(i, size)
  <2>1. /\ i \in DOMAIN live
        /\ live' = Strict!With(live, i, [ptr |-> Fast!FastRealloc(heap, live[i].ptr, size).ptr, size |-> size])
    BY <1>8 DEF Fast!Realloc, Fast!HandedOut, Fast!With, Strict!With
  <2> QED
    BY <1>7, <2>1
<1>9. ASSUME NEW i \in Id, NEW size \in Size, Fast!ReallocOfJumbo(i, size) PROVE Promise!Realloc(i, size)
  <2>1. i \in DOMAIN live
    BY <1>9 DEF Fast!ReallocOfJumbo
  <2>2. PICK t : live' = Strict!With(live, i, [ptr |-> Fast!Base(t) + 2, size |-> size])
    BY <1>9 DEF Fast!ReallocOfJumbo, Fast!HandedOut, Fast!With, Strict!With
  <2> QED
    BY <1>7, <2>1, <2>2
<1>10. ASSUME NEW i \in Id, Fast!Free(i) PROVE Promise!Free(i)
  <2>1. i \in DOMAIN live /\ live' = Strict!Without(live, {i})
    BY <1>10 DEF Fast!Free, Fast!Without, Strict!Without
  <2> QED
    BY <1>5, <2>1, FreePromised
<1>11. CASE Fast!FreeAll \/ Fast!Destroy
  <2>1. live' = << >>
    BY <1>11 DEF Fast!FreeAll, Fast!Destroy
  <2> QED
    BY <1>5, <2>1, FreeAllPromised DEF Promise!Next
<1>12. CASE Fast!Create \/ UNCHANGED vars
  <2>1. live' = live
    BY <1>12 DEF Fast!Create, vars
  <2> QED
    BY <1>5, <2>1, NothingPromised
<1> QED
  <2>1. \/ UNCHANGED vars
        \/ \E i \in Id, size \in Size : Fast!Alloc(i, size)
        \/ \E i \in Id, size \in Size : Fast!Realloc(i, size)
        \/ \E i \in Id, size \in Size : Fast!ReallocOfJumbo(i, size)
        \/ \E i \in Id : Fast!Free(i)
        \/ Fast!FreeAll \/ Fast!Destroy \/ Fast!Create
    BY <1>1 DEF Fast!CarefulNext, Fast!Calls
  <2>2. \/ UNCHANGED Promise!vars
        \/ \E i \in Id, size \in Size : Promise!Alloc(i, size) \/ Promise!Realloc(i, size)
        \/ \E i \in Id : Promise!Free(i)
        \/ [Promise!Next]_(Promise!vars)
    BY <1>6, <1>8, <1>9, <1>10, <1>11, <1>12, <2>1
  <2> QED
    BY <2>2 DEF Promise!Next

(* The fast block allocator implements WmemAlloc, as KeepsPromise maps it, *)
(* for users who reallocate no jumbo whose predecessor is not known.       *)
THEOREM FastKeepsPromise == OfFast /\ Spec => KeepsPromise
<1>1. FastHolding /\ [Next]_vars /\ OfFast => [Promise!Next]_(Promise!vars)
  BY StepFastPromised
<1>2. OfFast /\ [Next]_vars => OfFast'
  BY DEF Next, vars, OfBlock, OfFast, OfSimple, OfStrict
<1>3. OfFast /\ Init => Promise!Init
  <2> SUFFICES ASSUME OfFast, Init PROVE Promise!Init
    OBVIOUS
  <2>1. Fast!Init
    BY DEF Init, OfBlock, OfFast, OfSimple, OfStrict
  <2>2. live = << >>
    BY <2>1 DEF Fast!Init
  <2>3. [i \in DOMAIN live |-> Held(heap, live[i], 0)] = << >>
    BY <2>2
  <2> QED
    BY <2>2, <2>3 DEF Promise!Init
<1> QED
  BY InitFast, StepFast, <1>1, <1>2, <1>3, PTL DEF Spec, KeepsPromise, Promise!Spec

(* The fast allocator's part of BooksExact and DestroyReturnsAll.          *)
LEMMA FastBooks ==
  ASSUME FastHolding, OfFast
  PROVE  Fast!TypeOK /\ Fast!ListsExact /\ Fast!PredecessorsRight /\ (~created => heap.os = {})
<1>1. /\ created \in BOOLEAN /\ FastSound(heap, live)
      /\ ~created => heap.os = {}
  BY DEF FastHolding
<1>2. PICK bs, js : FastLists(heap, bs, js) /\ Housed(heap, live, In(bs), In(js))
  BY <1>1 DEF FastSound
<1>3. /\ FastShaped(heap)
      /\ Linked(heap.mem, heap.block_list, bs) /\ Linked(heap.mem, heap.jumbo_list, js)
  BY <1>2 DEF FastLists
<1>4. Fast!BlockList(heap) = In(bs) /\ Fast!JumboList(heap) = In(js)
  <2>1. Fast!BlockList(heap) = Walked(heap.mem, heap.block_list)
    BY Zenon DEF Fast!BlockList, Fast!Walk, Fast!Null, Walked
  <2>2. Fast!JumboList(heap) = Walked(heap.mem, heap.jumbo_list)
    BY Zenon DEF Fast!JumboList, Fast!Walk, Fast!Null, Walked
  <2> QED
    BY <1>3, <2>1, <2>2, WalkedIs
<1>5. \A b \in In(bs) \cup In(js) : b \in Blocks
  BY <1>3, InBlocks DEF Linked
<1>6. /\ heap.block_list \in Strict!Address \cup {0} /\ heap.jumbo_list \in Strict!Address \cup {0}
  <2>1. \A b \in Blocks : b \in Strict!Address
    BY BlockFacts, FastFacts
  <2>2. ASSUME NEW c, \A b \in In(c) : b \in Blocks PROVE At(c, 1) \in Strict!Address \cup {0}
    BY <2>1, <2>2 DEF At, In
  <2> QED
    BY <1>3, <1>5, <2>2 DEF Linked
<1>7. Fast!TypeOK
  <2>1. heap.os \subseteq Fast!Slot /\ DOMAIN heap.mem = Fast!Address
    BY <1>3, FastOs DEF FastShaped
  <2>2. DOMAIN live \subseteq Id
    BY <1>2 DEF Housed
  <2>3. ASSUME NEW i \in DOMAIN live PROVE live[i] \in [ptr : Fast!Address, size : Size]
    <3>1. live[i] = [ptr |-> live[i].ptr, size |-> live[i].size]
      BY <1>2 DEF Housed, House
    <3>2. live[i].ptr \in Address /\ live[i].size \in Size
      BY <1>1, FastPlaced DEF Placed
    <3>3. Address = Fast!Address
      BY DEF Address, Fast!Address
    <3> QED
      BY <3>1, <3>2, <3>3
  <2> QED
    BY <1>1, <1>6, <2>1, <2>2, <2>3, FastOs DEF Fast!TypeOK, Fast!Null
<1>8. Fast!ListsExact
  <2>1. ASSUME NEW b \in In(bs) \cup In(js) PROVE \E s \in heap.os : b = Fast!Base(s)
    <3>1. PICK s \in Strict!Slot : b = Strict!Base(s)
      BY <1>5 DEF Blocks
    <3> QED
      BY <1>2, <3>1, FastOs DEF FastLists
  <2>2. ASSUME NEW s \in heap.os PROVE Fast!Base(s) \in In(bs) \cup In(js)
    <3>1. s \in Strict!Slot
      BY <1>3 DEF FastShaped
    <3> QED
      BY <1>2, <3>1, FastOs DEF FastLists
  <2>3. {Fast!Base(s) : s \in heap.os} = In(bs) \cup In(js)
    BY <2>1, <2>2
  <2>4. \A b \in In(bs) : heap.mem[b].pos \in 1 .. BlockSize
    BY <1>2 DEF FastLists, BlockAt
  <2>5. In(bs) \cap In(js) = {}
    BY <1>2 DEF FastLists
  <2> QED
    BY <1>4, <2>3, <2>4, <2>5 DEF Fast!ListsExact
<1>9. Fast!PredecessorsRight
  <2>1. Told(heap.mem, In(js))
    BY <1>2 DEF FastLists
  <2> QED
    BY <1>4, <2>1 DEF Fast!PredecessorsRight, Fast!Null, Told
<1> QED
  BY <1>1, <1>7, <1>8, <1>9

=============================================================================
