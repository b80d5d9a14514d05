---------------------------- MODULE WmemBlockHeap ----------------------------
(***************************************************************************)
(* The heap of WmemBlock, for any number of slots and any of their sizes:  *)
(* what the operations of wmem_allocator_block.c do to the chunks of the   *)
(* blocks and to the two lists of free chunks.                             *)
(*                                                                         *)
(* A block is tiled by its chunks: the first begins where the block does,  *)
(* each other one where the one before it ends, and the last ends where    *)
(* the block does. Sound says so of all of the carved blocks and their     *)
(* free lists, Kept, Same and Serves what a step from one such heap to the *)
(* next leaves alone. The master list and the recycler are sequences of    *)
(* chunks, the one linked with null ends and the other in a ring; the      *)
(* walks of the module find exactly what these sequences hold, by          *)
(* induction along them (a least counterexample in the order of the        *)
(* natural numbers, WFMin).                                                *)
(***************************************************************************)
EXTENDS WmemBlock, Sequences, WellFoundedInduction, FiniteSetTheorems, TLAPS

-----------------------------------------------------------------------------
(***************************************************************************)
(* Slots, blocks and sizes.                                                *)
(***************************************************************************)

(* The slots of the OS lie one after the other.                            *)
LEMMA SlotFacts ==
  /\ \A s \in Slot :
       /\ Base(s) \in Nat /\ Base(s) >= 1
       /\ Base(s) + SlotSize - 1 <= NumSlots * SlotSize
       /\ \A i \in 0 .. SlotSize - 1 : SlotOf(Base(s) + i) = s
  /\ \A s, t \in Slot : s # t =>
       \/ Base(s) + SlotSize <= Base(t)
       \/ Base(t) + SlotSize <= Base(s)
<1>1. NumSlots \in Nat \ {0} /\ SlotSize \in Nat \ {0}
  BY OsAssumption
<1>2. ASSUME NEW s \in 1 .. NumSlots
      PROVE  /\ Base(s) \in Nat /\ Base(s) >= 1
             /\ Base(s) + SlotSize - 1 <= NumSlots * SlotSize
             /\ \A i \in 0 .. SlotSize - 1 : SlotOf(Base(s) + i) = s
  <2>1. (s - 1) * SlotSize \in Nat /\ (s - 1) * SlotSize + SlotSize = s * SlotSize
    BY <1>1
  <2>2. s * SlotSize <= NumSlots * SlotSize
    BY <1>1
  <2>3. ASSUME NEW i \in 0 .. SlotSize - 1 PROVE ((s - 1) * SlotSize + i) \div SlotSize = s - 1
    BY <1>1
  <2>4. ASSUME NEW i \in 0 .. SlotSize - 1 PROVE SlotOf(Base(s) + i) = s
    <3>1. (s - 1) * SlotSize + 1 + i - 1 = (s - 1) * SlotSize + i
      BY <2>1
    <3>2. ((s - 1) * SlotSize + 1 + i - 1) \div SlotSize = s - 1
      BY <2>3, <3>1
    <3> QED
      BY <1>1, <3>2 DEF Base, SlotOf
  <2> QED
    BY <1>1, <2>1, <2>2, <2>4 DEF Base
<1>3. ASSUME NEW s \in 1 .. NumSlots, NEW t \in 1 .. NumSlots, s < t
      PROVE  Base(s) + SlotSize <= Base(t)
  <2>1. (t - 1) * SlotSize = (t - 1 - s) * SlotSize + s * SlotSize
    BY <1>1
  <2>2. (t - 1 - s) * SlotSize >= 0
    BY <1>1, <1>3
  <2>3. (s - 1) * SlotSize + SlotSize = s * SlotSize
    BY <1>1
  <2>4. /\ (t - 1) * SlotSize \in Int /\ (s - 1) * SlotSize \in Int /\ s * SlotSize \in Int
        /\ (t - 1 - s) * SlotSize \in Int
    BY <1>1
  <2> QED
    BY <1>1, <2>1, <2>2, <2>3, <2>4 DEF Base
<1>4. \A s, t \in 1 .. NumSlots : s # t => s < t \/ t < s
  BY <1>1
<1> QED
  BY <1>2, <1>3, <1>4 DEF Slot

(* What a block is known by is where its slot begins.                      *)
Block == {Base(s) : s \in Slot}
Home(a) == Base(SlotOf(a))

LEMMA BlockFacts ==
  /\ \A b \in Block :
       /\ b \in Nat /\ b >= 1 /\ SlotOf(b) \in Slot /\ Base(SlotOf(b)) = b
       /\ SlotCells(SlotOf(b)) = b .. b + SlotSize - 1
       /\ \A a \in b .. b + SlotSize - 1 : a \in Address /\ Home(a) = b /\ SlotOf(a) = SlotOf(b)
  /\ \A b, d \in Block : b # d => b + SlotSize <= d \/ d + SlotSize <= b
<1>1. NumSlots \in Nat \ {0} /\ SlotSize \in Nat \ {0}
  BY OsAssumption
<1>2. NumSlots * SlotSize \in Nat
  BY <1>1
<1>3. ASSUME NEW s \in Slot, NEW b, b = Base(s)
      PROVE  /\ b \in Nat /\ b >= 1 /\ SlotOf(b) = s
             /\ SlotCells(s) = b .. b + SlotSize - 1
             /\ \A a \in b .. b + SlotSize - 1 : a \in Address /\ SlotOf(a) = s
  <2>1. b \in Nat /\ b >= 1 /\ b + SlotSize - 1 <= NumSlots * SlotSize
    BY <1>3, SlotFacts
  <2>2. ASSUME NEW a \in b .. b + SlotSize - 1 PROVE a \in Address /\ SlotOf(a) = s
    <3>1. a - b \in 0 .. SlotSize - 1 /\ b + (a - b) = a
      BY <1>1, <2>1
    <3>2. SlotOf(a) = s
      BY <1>3, <3>1, SlotFacts
    <3> QED
      BY <1>1, <1>2, <2>1, <3>2 DEF Address
  <2>3. b \in b .. b + SlotSize - 1
    BY <1>1, <2>1
  <2> QED
    BY <1>3, <2>1, <2>2, <2>3 DEF SlotCells
<1>4. \A b \in Block : \E s \in Slot : b = Base(s)
  BY DEF Block
<1>5. ASSUME NEW b \in Block
      PROVE  /\ b \in Nat /\ b >= 1 /\ SlotOf(b) \in Slot /\ Base(SlotOf(b)) = b
             /\ SlotCells(SlotOf(b)) = b .. b + SlotSize - 1
             /\ \A a \in b .. b + SlotSize - 1 : a \in Address /\ Home(a) = b /\ SlotOf(a) = SlotOf(b)
  <2>1. PICK s \in Slot : b = Base(s)
    BY <1>4
  <2> QED
    BY <1>3, <2>1 DEF Home
<1>6. ASSUME NEW b \in Block, NEW d \in Block, b # d
      PROVE  b + SlotSize <= d \/ d + SlotSize <= b
  <2>1. PICK s \in Slot : b = Base(s)
    BY <1>4
  <2>2. PICK t \in Slot : d = Base(t)
    BY <1>4
  <2> QED
    BY <1>6, <2>1, <2>2, SlotFacts
<1> QED
  BY <1>5, <1>6

LEMMA Sizes ==
  /\ BlockSize \in Nat /\ BlockSize >= 4 /\ SlotSize \in Nat /\ SlotSize >= BlockSize
  /\ NumSlots \in Nat /\ NumSlots >= 1 /\ AlignAmount \in Nat /\ AlignAmount >= 1
BY OsAssumption, BlockAssumption

(* Sizes in units.                                                         *)
LEMMA UnitsFacts ==
  /\ \A m \in Nat : Units(m) \in Nat
  /\ \A m \in Nat, n \in Nat : m <= n * AlignAmount <=> Units(m) <= n
<1>1. AlignAmount \in Nat \ {0}
  BY OsAssumption
<1>2. \A m \in Nat : Units(m) \in Nat
  BY <1>1 DEF Units
<1>3. ASSUME NEW m \in Nat, NEW n \in Nat PROVE m <= n * AlignAmount <=> Units(m) <= n
  <2> DEFINE q == (m + AlignAmount - 1) \div AlignAmount
  <2>1. n * AlignAmount \in Nat /\ (n + 1) * AlignAmount = n * AlignAmount + AlignAmount
    BY <1>1
  <2>2. /\ q \in Int /\ q * AlignAmount <= m + AlignAmount - 1
        /\ m + AlignAmount - 1 < q * AlignAmount + AlignAmount /\ q * AlignAmount \in Int
    BY <1>1
  <2> HIDE DEF q
  <2>3. ASSUME m <= n * AlignAmount PROVE q <= n
    <3>1. q * AlignAmount < (n + 1) * AlignAmount
      BY <1>1, <2>1, <2>2, <2>3
    <3>2. q < n + 1
      BY <1>1, <2>2, <3>1
    <3> QED
      BY <2>2, <3>2
  <2>4. ASSUME q <= n PROVE m <= n * AlignAmount
    <3>1. q * AlignAmount <= n * AlignAmount
      BY <1>1, <2>2, <2>4
    <3> QED
      BY <1>1, <2>1, <2>2, <3>1
  <2> QED
    BY <2>3, <2>4 DEF q, Units
<1> QED
  BY <1>2, <1>3

LEMMA SizeFacts ==
  \A size \in Size : size \in Nat /\ size >= 1 /\ Units(size) \in Nat
                     /\ Units(size) >= 1 /\ Units(size) <= SlotSize - 2
<1> TAKE size \in Size
<1>1. size \in 1 .. (SlotSize - 2) * AlignAmount
  BY BlockAssumption
<1>2. SlotSize - 2 \in Nat /\ 0 * AlignAmount = 0 /\ (SlotSize - 2) * AlignAmount \in Int
  BY Sizes
<1>3. size \in Nat /\ size >= 1 /\ size <= (SlotSize - 2) * AlignAmount
  BY <1>1, <1>2
<1>4. Units(size) <= SlotSize - 2 /\ Units(size) \in Nat /\ ~(Units(size) <= 0)
  BY <1>2, <1>3, UnitsFacts
<1> QED
  BY <1>3, <1>4

(* A set of natural numbers has a least member.                            *)
LEMMA Least ==
    ASSUME NEW S \in SUBSET Nat, S # {}
    PROVE  \E n \in S : \A m \in S : n <= m
  <1>1. IsWellFoundedOn(OpToRel(<, Nat), Nat)
    BY NatLessThanWellFounded
  <1>2. PICK n \in S : \A m \in S : <<m, n>> \notin OpToRel(<, Nat)
    BY <1>1, WFMin
  <1>3. ASSUME NEW m \in S PROVE n <= m
    <2>1. n \in Nat /\ m \in Nat /\ ~(m < n)
      BY <1>2 DEF OpToRel
    <2> QED
      BY <2>1
  <1> QED
    BY <1>2, <1>3

(* The slot that g_malloc takes is a free one.                             *)
LEMMA NewSlotFree ==
  ASSUME NEW h, FreeSlots(h) # {} PROVE NewSlot(h) \in FreeSlots(h)
<1>1. FreeSlots(h) \in SUBSET Nat
  BY OsAssumption DEF FreeSlots, Slot
<1>2. \E s \in FreeSlots(h) : \A t \in FreeSlots(h) : s <= t
  BY <1>1, Least
<1> QED
  BY <1>2 DEF NewSlot

-----------------------------------------------------------------------------
(***************************************************************************)
(* Walks. Where a walk goes from x is nx[x]; it never leaves S.            *)
(***************************************************************************)
Onward(nx, w) ==
  IF w.at \in w.seen \cup {0} THEN w
  ELSE [seen |-> w.seen \cup {w.at}, at |-> nx[w.at]]

Began(a) == [seen |-> {}, at |-> a]

(* A walk of n steps from a.                                               *)
IsWalk(g, S, nx, a, n) ==
  /\ g = [k \in 0 .. n |-> g[k]] /\ g[0] = Began(a)
  /\ \A k \in 1 .. n : g[k] = Onward(nx, g[k - 1])
  /\ \A k \in 0 .. n : g[k].at \in S \cup {0}

(* What W is when it is finished.                                          *)
Finished(W, S, nx, a) ==
  W \subseteq S /\ (a # 0 => a \in W) /\ \A x \in W : nx[x] \in W \cup {0}

(* There is such a walk.                                                   *)
LEMMA WalkThere ==
  ASSUME NEW S, NEW nx \in [S -> S \cup {0}], NEW a \in S \cup {0}, NEW n \in Nat
  PROVE  \E g : IsWalk(g, S, nx, a, n)
<1> DEFINE Walks(g, k) == /\ g = [j \in 0 .. k |-> g[j]] /\ g[0] = Began(a)
                          /\ \A j \in 1 .. k : g[j] = Onward(nx, g[j - 1])
                          /\ \A j \in 0 .. k : g[j].at \in S \cup {0}
           None == {k \in Nat : ~\E g : Walks(g, k)}
<1>1. 0 \notin None
  <2> DEFINE g == [j \in 0 .. 0 |-> Began(a)]
  <2>1. Walks(g, 0)
    BY DEF Began
  <2> QED
    BY <2>1
<1>2. ASSUME NEW k \in Nat, k \notin None PROVE k + 1 \notin None
  <2>1. PICK g : Walks(g, k)
    BY <1>2
  <2> DEFINE f == [j \in 0 .. k + 1 |-> IF j = k + 1 THEN Onward(nx, g[k]) ELSE g[j]]
  <2>2. f = [j \in 0 .. k + 1 |-> f[j]] /\ f[k + 1] = Onward(nx, g[k])
        /\ \A j \in 0 .. k : f[j] = g[j]
    BY <1>2
  <2>c. /\ g[0] = Began(a) /\ \A j \in 1 .. k : g[j] = Onward(nx, g[j - 1])
        /\ \A j \in 0 .. k : g[j].at \in S \cup {0}
    <3> HIDE DEF f
    <3> QED
      BY <2>1
  <2>a. /\ g[0] = Began(a) /\ 0 \in 0 .. k
        /\ \A j \in 1 .. k : g[j] = Onward(nx, g[j - 1]) /\ j \in 0 .. k /\ j - 1 \in 0 .. k
        /\ \A j \in 0 .. k : g[j].at \in S \cup {0}
    <3> HIDE DEF f, Walks
    <3> QED
      BY <1>2, <2>c
  <2>b. \A j \in 0 .. k + 1 : j = k + 1 \/ j \in 0 .. k
    BY <1>2
  <2> HIDE DEF f, Walks
  <2>3. \A j \in 1 .. k + 1 : f[j] = Onward(nx, f[j - 1])
    <3> TAKE j \in 1 .. k + 1
    <3>1. CASE j = k + 1
      BY <1>2, <2>2, <3>1
    <3>2. CASE j \in 1 .. k
      BY <2>a, <2>2, <3>2
    <3> QED
      BY <1>2, <3>1, <3>2
  <2>4. Onward(nx, g[k]).at \in S \cup {0}
    <3>1. g[k].at \in S \cup {0}
      BY <1>2, <2>a
    <3> QED
      BY <3>1 DEF Onward
  <2>5. \A j \in 0 .. k + 1 : f[j].at \in S \cup {0}
    BY <2>a, <2>b, <2>2, <2>4
  <2>6. f[0] = Began(a)
    BY <2>a, <2>2
  <2>7. Walks(f, k + 1)
    BY <2>2, <2>3, <2>5, <2>6 DEF Walks
  <2> QED
    BY <2>7
<1> HIDE DEF Walks
<1>3. None = {}
  <2> SUFFICES ASSUME None # {} PROVE FALSE
    OBVIOUS
  <2>1. PICK k \in None : \A j \in None : k <= j
    <3>1. None \in SUBSET Nat
      OBVIOUS
    <3> HIDE DEF None
    <3> QED
      BY <3>1, Least
  <2>2. k \in Nat /\ k # 0
    BY <1>1, <2>1
  <2>3. k - 1 \in Nat /\ ~(k <= k - 1) /\ k - 1 + 1 = k
    BY <2>2
  <2>4. k - 1 \notin None
    BY <2>1, <2>3
  <2> HIDE DEF None
  <2> QED
    BY <1>2, <2>1, <2>3, <2>4
<1>4. \E g : Walks(g, n)
  BY <1>3
<1> QED
  BY <1>4 DEF Walks, IsWalk

(* What has been seen in the end: nothing outside S, where the walk began, *)
(* and all that follows.                                                   *)
LEMMA WalkSees ==
  ASSUME NEW S, IsFiniteSet(S), 0 \notin S, NEW nx \in [S -> S \cup {0}], NEW a \in S \cup {0},
         NEW n \in Nat, Cardinality(S) <= n, NEW v, v[0] = Began(a),
         \A k \in 1 .. n : v[k - 1].at \in S \cup {0} => v[k] = Onward(nx, v[k - 1])
  PROVE  Finished(v[n].seen, S, nx, a)
<1> DEFINE Stopped(w) == w.at \in w.seen \cup {0}
           Right(k) == /\ v[k].seen \subseteq S /\ v[k].at \in S \cup {0}
                       /\ Stopped(v[k]) \/ Cardinality(v[k].seen) = k
                       /\ a \in v[k].seen \cup {v[k].at}
                       /\ \A x \in v[k].seen : nx[x] \in v[k].seen \cup {v[k].at}
<1>1. Right(0)
  BY FS_EmptySet DEF Began
<1>2. ASSUME NEW k \in 1 .. n, Right(k - 1) PROVE Right(k)
  <2>1. v[k] = Onward(nx, v[k - 1])
    BY <1>2
  <2>2. CASE Stopped(v[k - 1])
    BY <1>2, <2>1, <2>2 DEF Onward
  <2>3. CASE ~Stopped(v[k - 1])
    <3>1. v[k] = [seen |-> v[k - 1].seen \cup {v[k - 1].at}, at |-> nx[v[k - 1].at]]
      BY <2>1, <2>3 DEF Onward
    <3>2. v[k].seen = v[k - 1].seen \cup {v[k - 1].at} /\ v[k].at = nx[v[k - 1].at]
      BY <3>1
    <3>3. v[k - 1].at \in S /\ v[k - 1].at \notin v[k - 1].seen
      BY <1>2, <2>3
    <3>4. IsFiniteSet(v[k - 1].seen)
      BY <1>2, FS_Subset
    <3>5. Cardinality(v[k].seen) = Cardinality(v[k - 1].seen) + 1
      <4>1. Cardinality(v[k - 1].seen \cup {v[k - 1].at}) = Cardinality(v[k - 1].seen) + 1
        <5> DEFINE T == v[k - 1].seen
                   y == v[k - 1].at
        <5>1. IsFiniteSet(T) /\ y \notin T
          BY <3>3, <3>4
        <5> HIDE DEF T, y
        <5>2. Cardinality(T \cup {y}) = Cardinality(T) + 1
          BY <5>1, FS_AddElement
        <5> QED
          BY <5>2 DEF T, y
      <4> QED
        BY <3>2, <4>1
    <3>6. Cardinality(v[k - 1].seen) = k - 1
      BY <1>2, <2>3
    <3>7. k - 1 + 1 = k
      OBVIOUS
    <3>8. v[k].at \in S \cup {0} /\ v[k].seen \subseteq S
      BY <1>2, <3>2, <3>3
    <3>9. \A x \in v[k].seen : nx[x] \in v[k].seen \cup {v[k].at}
      BY <1>2, <3>2
    <3> QED
      BY <1>2, <3>2, <3>5, <3>6, <3>7, <3>8, <3>9
  <2> QED
    BY <2>2, <2>3
<1> DEFINE Wrong == {k \in 0 .. n : ~Right(k)}
<1> HIDE DEF Right
<1>3. Wrong = {}
  <2> SUFFICES ASSUME Wrong # {} PROVE FALSE
    OBVIOUS
  <2>1. PICK k \in Wrong : \A j \in Wrong : k <= j
    <3>1. Wrong \in SUBSET Nat
      OBVIOUS
    <3> HIDE DEF Wrong
    <3> QED
      BY <3>1, Least
  <2>2. k \in 1 .. n /\ k - 1 \in 0 .. n /\ ~(k <= k - 1)
    BY <1>1, <2>1
  <2>3. Right(k - 1)
    BY <2>1, <2>2
  <2> QED
    BY <1>2, <2>1, <2>2, <2>3
<1>4. Right(n)
  BY <1>3
<1>5. Stopped(v[n])
  <2> SUFFICES ASSUME ~Stopped(v[n]) PROVE FALSE
    OBVIOUS
  <2>1. /\ v[n].seen \subseteq S /\ Cardinality(v[n].seen) = n
        /\ v[n].at \in S /\ v[n].at \notin v[n].seen
    BY <1>4 DEF Right
  <2>2. v[n].seen # S
    BY <2>1
  <2>3. Cardinality(v[n].seen) < Cardinality(S)
    <3>1. v[n].seen \in SUBSET S
      BY <2>1
    <3>2. Cardinality(v[n].seen) <= Cardinality(S) /\ Cardinality(S) # Cardinality(v[n].seen)
      BY <2>2, <3>1, FS_Subset
    <3>3. Cardinality(S) \in Nat
      BY FS_CardinalityType
    <3> QED
      BY <2>1, <3>2, <3>3
  <2>4. Cardinality(S) \in Nat
    BY FS_CardinalityType
  <2> QED
    BY <2>1, <2>3, <2>4
<1> QED
  BY <1>4, <1>5 DEF Right, Finished

(* The walks of the module: along the chunks of a block, along the links   *)
(* of block headers and along those of free headers.                       *)
ChunkWalk(h, a, n) == LET next(x) == ChunkNext(h, x) IN Walk(a, n, next, Null)
BlockWalk(h, a, n) == LET next(x) == h.mem[x].next IN Walk(a, n, next, Null)
FreeWalk(h, a, n) == LET next(x) == GetFree(h, x).next IN Walk(a, n, next, Null)

LEMMA ChunkWalkIs ==
  ASSUME NEW h, NEW S, IsFiniteSet(S), 0 \notin S, NEW a \in S \cup {0}, NEW n \in Nat,
         Cardinality(S) <= n, NEW nx \in [S -> S \cup {0}], \A x \in S : nx[x] = ChunkNext(h, x)
  PROVE  Finished(ChunkWalk(h, a, n), S, nx, a)
<1> DEFINE Step(w) == IF w.at \in w.seen \cup {Null} THEN w
                      ELSE [seen |-> w.seen \cup {w.at}, at |-> ChunkNext(h, w.at)]
           P(g) == g = [k \in 0 .. n |->
                          IF k = 0 THEN [seen |-> {}, at |-> a] ELSE Step(g[k - 1])]
           visit == CHOOSE g : P(g)
<1>1. \A w : w.at \in S \cup {0} => Step(w) = Onward(nx, w)
  BY DEF Onward, Null
<1>2. \E g : P(g)
  <2>0. PICK g : IsWalk(g, S, nx, a, n)
    <3> HIDE DEF P, Step
    <3> QED
      BY WalkThere
  <2>1. /\ g = [k \in 0 .. n |-> g[k]] /\ g[0] = Began(a)
        /\ \A k \in 1 .. n : g[k] = Onward(nx, g[k - 1])
        /\ \A k \in 0 .. n : g[k].at \in S \cup {0}
    BY <2>0 DEF IsWalk
  <2>2. \A k \in 1 .. n : k - 1 \in 0 .. n
    OBVIOUS
  <2> HIDE DEF Step
  <2>3. \A k \in 1 .. n : g[k] = Step(g[k - 1])
    BY <1>1, <2>1, <2>2
  <2>4. \A k \in 0 .. n : k = 0 \/ k \in 1 .. n
    OBVIOUS
  <2>5. \A k \in 0 .. n : g[k] = IF k = 0 THEN [seen |-> {}, at |-> a] ELSE Step(g[k - 1])
    BY <2>1, <2>3, <2>4 DEF Began
  <2>6. P(g)
    BY <2>1, <2>5
  <2> HIDE DEF P
  <2> QED
    BY <2>6
<1>3. P(visit)
  <2> HIDE DEF P
  <2> QED
    BY <1>2, Zenon
<1>4. ChunkWalk(h, a, n) = visit[n].seen
  BY Zenon DEF ChunkWalk, Walk
<1> HIDE DEF visit
<1>5. visit[0] = Began(a) /\ \A k \in 1 .. n : visit[k] = Step(visit[k - 1])
  <2> HIDE DEF Step
  <2>1. \A k \in 0 .. n :
          visit[k] = IF k = 0 THEN [seen |-> {}, at |-> a] ELSE Step(visit[k - 1])
    BY <1>3, Zenon
  <2>2. 0 \in 0 .. n /\ \A k \in 1 .. n : k \in 0 .. n /\ k # 0
    OBVIOUS
  <2> QED
    BY <2>1, <2>2 DEF Began
<1> HIDE DEF P, Step
<1>6. \A k \in 1 .. n : visit[k - 1].at \in S \cup {0} => visit[k] = Onward(nx, visit[k - 1])
  BY <1>1, <1>5
<1>7. Finished(visit[n].seen, S, nx, a)
  BY <1>5, <1>6, WalkSees
<1> QED
  BY <1>4, <1>7

LEMMA BlockWalkIs ==
  ASSUME NEW h, NEW S, IsFiniteSet(S), 0 \notin S, NEW a \in S \cup {0}, NEW n \in Nat,
         Cardinality(S) <= n, NEW nx \in [S -> S \cup {0}], \A x \in S : nx[x] = h.mem[x].next
  PROVE  Finished(BlockWalk(h, a, n), S, nx, a)
<1> DEFINE Step(w) == IF w.at \in w.seen \cup {Null} THEN w
                      ELSE [seen |-> w.seen \cup {w.at}, at |-> h.mem[w.at].next]
           P(g) == g = [k \in 0 .. n |->
                          IF k = 0 THEN [seen |-> {}, at |-> a] ELSE Step(g[k - 1])]
           visit == CHOOSE g : P(g)
<1>1. \A w : w.at \in S \cup {0} => Step(w) = Onward(nx, w)
  BY DEF Onward, Null
<1>2. \E g : P(g)
  <2>0. PICK g : IsWalk(g, S, nx, a, n)
    <3> HIDE DEF P, Step
    <3> QED
      BY WalkThere
  <2>1. /\ g = [k \in 0 .. n |-> g[k]] /\ g[0] = Began(a)
        /\ \A k \in 1 .. n : g[k] = Onward(nx, g[k - 1])
        /\ \A k \in 0 .. n : g[k].at \in S \cup {0}
    BY <2>0 DEF IsWalk
  <2>2. \A k \in 1 .. n : k - 1 \in 0 .. n
    OBVIOUS
  <2> HIDE DEF Step
  <2>3. \A k \in 1 .. n : g[k] = Step(g[k - 1])
    BY <1>1, <2>1, <2>2
  <2>4. \A k \in 0 .. n : k = 0 \/ k \in 1 .. n
    OBVIOUS
  <2>5. \A k \in 0 .. n : g[k] = IF k = 0 THEN [seen |-> {}, at |-> a] ELSE Step(g[k - 1])
    BY <2>1, <2>3, <2>4 DEF Began
  <2>6. P(g)
    BY <2>1, <2>5
  <2> HIDE DEF P
  <2> QED
    BY <2>6
<1>3. P(visit)
  <2> HIDE DEF P
  <2> QED
    BY <1>2, Zenon
<1>4. BlockWalk(h, a, n) = visit[n].seen
  BY Zenon DEF BlockWalk, Walk
<1> HIDE DEF visit
<1>5. visit[0] = Began(a) /\ \A k \in 1 .. n : visit[k] = Step(visit[k - 1])
  <2> HIDE DEF Step
  <2>1. \A k \in 0 .. n :
          visit[k] = IF k = 0 THEN [seen |-> {}, at |-> a] ELSE Step(visit[k - 1])
    BY <1>3, Zenon
  <2>2. 0 \in 0 .. n /\ \A k \in 1 .. n : k \in 0 .. n /\ k # 0
    OBVIOUS
  <2> QED
    BY <2>1, <2>2 DEF Began
<1> HIDE DEF P, Step
<1>6. \A k \in 1 .. n : visit[k - 1].at \in S \cup {0} => visit[k] = Onward(nx, visit[k - 1])
  BY <1>1, <1>5
<1>7. Finished(visit[n].seen, S, nx, a)
  BY <1>5, <1>6, WalkSees
<1> QED
  BY <1>4, <1>7

LEMMA FreeWalkIs ==
  ASSUME NEW h, NEW S, IsFiniteSet(S), 0 \notin S, NEW a \in S \cup {0}, NEW n \in Nat,
         Cardinality(S) <= n, NEW nx \in [S -> S \cup {0}], \A x \in S : nx[x] = GetFree(h, x).next
  PROVE  Finished(FreeWalk(h, a, n), S, nx, a)
<1> DEFINE Step(w) == IF w.at \in w.seen \cup {Null} THEN w
                      ELSE [seen |-> w.seen \cup {w.at}, at |-> GetFree(h, w.at).next]
           P(g) == g = [k \in 0 .. n |->
                          IF k = 0 THEN [seen |-> {}, at |-> a] ELSE Step(g[k - 1])]
           visit == CHOOSE g : P(g)
<1>1. \A w : w.at \in S \cup {0} => Step(w) = Onward(nx, w)
  BY DEF Onward, Null
<1>2. \E g : P(g)
  <2>0. PICK g : IsWalk(g, S, nx, a, n)
    <3> HIDE DEF P, Step
    <3> QED
      BY WalkThere
  <2>1. /\ g = [k \in 0 .. n |-> g[k]] /\ g[0] = Began(a)
        /\ \A k \in 1 .. n : g[k] = Onward(nx, g[k - 1])
        /\ \A k \in 0 .. n : g[k].at \in S \cup {0}
    BY <2>0 DEF IsWalk
  <2>2. \A k \in 1 .. n : k - 1 \in 0 .. n
    OBVIOUS
  <2> HIDE DEF Step
  <2>3. \A k \in 1 .. n : g[k] = Step(g[k - 1])
    BY <1>1, <2>1, <2>2
  <2>4. \A k \in 0 .. n : k = 0 \/ k \in 1 .. n
    OBVIOUS
  <2>5. \A k \in 0 .. n : g[k] = IF k = 0 THEN [seen |-> {}, at |-> a] ELSE Step(g[k - 1])
    BY <2>1, <2>3, <2>4 DEF Began
  <2>6. P(g)
    BY <2>1, <2>5
  <2> HIDE DEF P
  <2> QED
    BY <2>6
<1>3. P(visit)
  <2> HIDE DEF P
  <2> QED
    BY <1>2, Zenon
<1>4. FreeWalk(h, a, n) = visit[n].seen
  BY Zenon DEF FreeWalk, Walk
<1> HIDE DEF visit
<1>5. visit[0] = Began(a) /\ \A k \in 1 .. n : visit[k] = Step(visit[k - 1])
  <2> HIDE DEF Step
  <2>1. \A k \in 0 .. n :
          visit[k] = IF k = 0 THEN [seen |-> {}, at |-> a] ELSE Step(visit[k - 1])
    BY <1>3, Zenon
  <2>2. 0 \in 0 .. n /\ \A k \in 1 .. n : k \in 0 .. n /\ k # 0
    OBVIOUS
  <2> QED
    BY <2>1, <2>2 DEF Began
<1> HIDE DEF P, Step
<1>6. \A k \in 1 .. n : visit[k - 1].at \in S \cup {0} => visit[k] = Onward(nx, visit[k - 1])
  BY <1>1, <1>5
<1>7. Finished(visit[n].seen, S, nx, a)
  BY <1>5, <1>6, WalkSees
<1> QED
  BY <1>4, <1>7

-----------------------------------------------------------------------------
(***************************************************************************)
(* Allocator states, cell by cell.                                         *)
(***************************************************************************)
Shaped(h) ==
  /\ h = [mem |-> h.mem, block_list |-> h.block_list, master_head |-> h.master_head,
          recycler_head |-> h.recycler_head, os |-> h.os]
  /\ h.mem = [a \in Address |-> h.mem[a]]
  /\ h.os \in SUBSET Slot

(* One cell is written.                                                    *)
Wrote(h, h2, a, v) ==
  /\ Shaped(h2) /\ h2.os = h.os /\ h2.block_list = h.block_list
  /\ h2.master_head = h.master_head /\ h2.recycler_head = h.recycler_head
  /\ h2.mem[a] = v
  /\ \A d \in Address : d # a => h2.mem[d] = h.mem[d]

LEMMA CellSet ==
  ASSUME NEW h, Shaped(h), NEW a \in Address, NEW v
  PROVE  Wrote(h, [h EXCEPT !.mem[a] = v], a, v)
<1> DEFINE h2 == [h EXCEPT !.mem[a] = v]
<1>1. h2 = [mem |-> [h.mem EXCEPT ![a] = v], block_list |-> h.block_list,
            master_head |-> h.master_head, recycler_head |-> h.recycler_head, os |-> h.os]
  BY DEF Shaped
<1> HIDE DEF h2
<1>2. DOMAIN h.mem = Address
  BY DEF Shaped
<1>3. /\ h2.mem = [h.mem EXCEPT ![a] = v] /\ h2.os = h.os /\ h2.block_list = h.block_list
      /\ h2.master_head = h.master_head /\ h2.recycler_head = h.recycler_head
  BY <1>1
<1>4. h2.mem[a] = v /\ \A d \in Address : d # a => h2.mem[d] = h.mem[d]
  BY <1>2, <1>3
<1>5. h2.mem = [d \in Address |-> h2.mem[d]]
  BY <1>2, <1>3
<1>6. h2 = [mem |-> h2.mem, block_list |-> h2.block_list, master_head |-> h2.master_head,
          recycler_head |-> h2.recycler_head, os |-> h2.os]
  <2> HIDE <1>3
  <2>1. h2 = [mem |-> h2.mem, block_list |-> h2.block_list, master_head |-> h2.master_head,
          recycler_head |-> h2.recycler_head, os |-> h2.os]
    BY <1>1, <1>3
  <2> QED
    BY <2>1
<1> QED
  BY <1>3, <1>4, <1>5, <1>6 DEF Wrote, Shaped, h2

LEMMA PrevSet ==
  ASSUME NEW h, Shaped(h), NEW a \in Address, NEW x, NEW y, h.mem[a] = Links(x, y), NEW p
  PROVE  Wrote(h, [h EXCEPT !.mem[a].prev = p], a, Links(p, y))
<1>1. [h.mem[a] EXCEPT !.prev = p] = Links(p, y)
  BY DEF Links
<1>2. [h EXCEPT !.mem[a].prev = p] = [h EXCEPT !.mem[a] = [h.mem[a] EXCEPT !.prev = p]]
  BY DEF Shaped
<1> QED
  BY <1>1, <1>2, CellSet

LEMMA NextSet ==
  ASSUME NEW h, Shaped(h), NEW a \in Address, NEW x, NEW y, h.mem[a] = Links(x, y), NEW n
  PROVE  Wrote(h, [h EXCEPT !.mem[a].next = n], a, Links(x, n))
<1>1. [h.mem[a] EXCEPT !.next = n] = Links(x, n)
  BY DEF Links
<1>2. [h EXCEPT !.mem[a].next = n] = [h EXCEPT !.mem[a] = [h.mem[a] EXCEPT !.next = n]]
  BY DEF Shaped
<1> QED
  BY <1>1, <1>2, CellSet

(* One of the heads is set.                                                *)
MasterSet(h, h2, x) ==
  /\ Shaped(h2) /\ h2.os = h.os /\ h2.block_list = h.block_list /\ h2.mem = h.mem
  /\ h2.master_head = x /\ h2.recycler_head = h.recycler_head
RecyclerSet(h, h2, x) ==
  /\ Shaped(h2) /\ h2.os = h.os /\ h2.block_list = h.block_list /\ h2.mem = h.mem
  /\ h2.master_head = h.master_head /\ h2.recycler_head = x
BlocksSet(h, h2, x) ==
  /\ Shaped(h2) /\ h2.os = h.os /\ h2.block_list = x /\ h2.mem = h.mem
  /\ h2.master_head = h.master_head /\ h2.recycler_head = h.recycler_head

LEMMA HeadSet ==
  ASSUME NEW h, Shaped(h), NEW x
  PROVE  /\ MasterSet(h, [h EXCEPT !.master_head = x], x)
         /\ RecyclerSet(h, [h EXCEPT !.recycler_head = x], x)
         /\ BlocksSet(h, [h EXCEPT !.block_list = x], x)
<1>1. [h EXCEPT !.master_head = x] =
        [mem |-> h.mem, block_list |-> h.block_list, master_head |-> x,
         recycler_head |-> h.recycler_head, os |-> h.os]
  BY DEF Shaped
<1>2. [h EXCEPT !.recycler_head = x] =
        [mem |-> h.mem, block_list |-> h.block_list, master_head |-> h.master_head,
         recycler_head |-> x, os |-> h.os]
  BY DEF Shaped
<1>3. [h EXCEPT !.block_list = x] =
        [mem |-> h.mem, block_list |-> x, master_head |-> h.master_head,
         recycler_head |-> h.recycler_head, os |-> h.os]
  BY DEF Shaped
<1> DEFINE h1 == [h EXCEPT !.master_head = x]
           h2 == [h EXCEPT !.recycler_head = x]
           h3 == [h EXCEPT !.block_list = x]
<1> HIDE DEF h1, h2, h3
<1>4. MasterSet(h, h1, x)
  BY <1>1 DEF h1, MasterSet, Shaped
<1>5. RecyclerSet(h, h2, x)
  BY <1>2 DEF h2, RecyclerSet, Shaped
<1>6. BlocksSet(h, h3, x)
  BY <1>3 DEF h3, BlocksSet, Shaped
<1> QED
  BY <1>4, <1>5, <1>6 DEF h1, h2, h3

-----------------------------------------------------------------------------
(***************************************************************************)
(* Sequences of addresses, each one once.                                  *)
(***************************************************************************)
Distinct(s) == s \in Seq(Address) /\ \A j, k \in 1 .. Len(s) : s[j] = s[k] => j = k
In(s) == {s[j] : j \in 1 .. Len(s)}
At(s, j) == IF j \in 1 .. Len(s) THEN s[j] ELSE 0
Around(s, j) == IF j = 0 THEN s[Len(s)] ELSE IF j = Len(s) + 1 THEN s[1] ELSE s[j]

(* With x before the first or after the last; without the p-th; with x as  *)
(* the p-th.                                                               *)
Lead(s, x) == [j \in 1 .. Len(s) + 1 |-> IF j = 1 THEN x ELSE s[j - 1]]
Trail(s, x) == [j \in 1 .. Len(s) + 1 |-> IF j = Len(s) + 1 THEN x ELSE s[j]]
Drop(s, p) == [j \in 1 .. Len(s) - 1 |-> s[IF j < p THEN j ELSE j + 1]]
Swap(s, p, x) == [j \in 1 .. Len(s) |-> IF j = p THEN x ELSE s[j]]

LEMMA IsSeq ==
  ASSUME NEW T, NEW n \in Nat, NEW s \in [1 .. n -> T]
  PROVE  s \in Seq(T) /\ Len(s) = n
OBVIOUS

LEMMA Members ==
  ASSUME NEW s, Distinct(s)
  PROVE  /\ Len(s) \in Nat /\ \A j \in 1 .. Len(s) : s[j] \in Address /\ s[j] \in In(s)
         /\ \A x \in In(s) : x \in Address /\ \E j \in 1 .. Len(s) : s[j] = x
         /\ \A j, k \in 1 .. Len(s) : s[j] = s[k] => j = k
BY DEF Distinct, In

LEMMA AddressPositive == \A a \in Address : a \in Nat /\ a >= 1
<1>1. NumSlots * SlotSize \in Nat
  BY Sizes
<1> QED
  BY <1>1 DEF Address

LEMMA LeadIs ==
  ASSUME NEW s, Distinct(s), NEW x \in Address, x \notin In(s)
  PROVE  /\ Distinct(Lead(s, x)) /\ Len(Lead(s, x)) = Len(s) + 1
         /\ In(Lead(s, x)) = In(s) \cup {x}
         /\ Lead(s, x)[1] = x /\ \A j \in 1 .. Len(s) : Lead(s, x)[j + 1] = s[j]
<1> DEFINE t == Lead(s, x)
<1>1. Len(s) \in Nat /\ \A j \in 1 .. Len(s) : s[j] \in Address /\ s[j] # x
  BY Members DEF In
<1>2. t \in [1 .. Len(s) + 1 -> Address]
  BY <1>1 DEF Lead
<1>3. t \in Seq(Address) /\ Len(t) = Len(s) + 1
  BY <1>1, <1>2, IsSeq
<1>4. t[1] = x /\ \A j \in 1 .. Len(s) : t[j + 1] = s[j]
  BY <1>1 DEF Lead
<1> HIDE DEF t
<1>5. \A j \in 1 .. Len(s) + 1 : j = 1 \/ (j - 1 \in 1 .. Len(s) /\ j - 1 + 1 = j)
  BY <1>1
<1>6. \A j \in 1 .. Len(s) + 1 : j = 1 \/ (j - 1 \in 1 .. Len(s) /\ t[j] = s[j - 1])
  BY <1>4, <1>5
<1>7. \A j, k \in 1 .. Len(s) : s[j] = s[k] => j = k
  BY DEF Distinct
<1>8. \A j, k \in 1 .. Len(t) : t[j] = t[k] => j = k
  <2> SUFFICES ASSUME NEW j \in 1 .. Len(s) + 1, NEW k \in 1 .. Len(s) + 1, t[j] = t[k] PROVE j = k
    BY <1>3
  <2>1. CASE j = 1 \/ k = 1
    BY <1>1, <1>4, <1>6, <2>1
  <2>2. CASE j # 1 /\ k # 1
    <3>1. j - 1 \in 1 .. Len(s) /\ k - 1 \in 1 .. Len(s) /\ s[j - 1] = s[k - 1]
      BY <1>6, <2>2
    <3>2. j - 1 = k - 1
      BY <1>7, <3>1
    <3> QED
      BY <3>2
  <2> QED
    BY <2>1, <2>2
<1>9. In(t) = In(s) \cup {x}
  <2>1. ASSUME NEW y \in In(t) PROVE y \in In(s) \cup {x}
    BY <1>3, <1>4, <1>6 DEF In
  <2>2. ASSUME NEW y \in In(s) PROVE y \in In(t)
    <3>1. PICK j \in 1 .. Len(s) : y = s[j]
      BY DEF In
    <3>2. j + 1 \in 1 .. Len(t) /\ t[j + 1] = y
      BY <1>1, <1>3, <1>4, <3>1
    <3> QED
      BY <3>2 DEF In
  <2>3. 1 \in 1 .. Len(t)
    BY <1>1, <1>3
  <2>4. x \in In(t)
    BY <1>4, <2>3 DEF In
  <2> QED
    BY <2>1, <2>2, <2>4
<1> QED
  BY <1>3, <1>4, <1>8, <1>9 DEF Distinct, t

LEMMA TrailIs ==
  ASSUME NEW s, Distinct(s), NEW x \in Address, x \notin In(s)
  PROVE  /\ Distinct(Trail(s, x)) /\ Len(Trail(s, x)) = Len(s) + 1
         /\ In(Trail(s, x)) = In(s) \cup {x}
         /\ Trail(s, x)[Len(s) + 1] = x /\ \A j \in 1 .. Len(s) : Trail(s, x)[j] = s[j]
<1> DEFINE t == Trail(s, x)
<1>1. Len(s) \in Nat /\ \A j \in 1 .. Len(s) : s[j] \in Address /\ s[j] # x
  BY Members DEF In
<1>2. t \in [1 .. Len(s) + 1 -> Address]
  BY <1>1 DEF Trail
<1>3. t \in Seq(Address) /\ Len(t) = Len(s) + 1
  BY <1>1, <1>2, IsSeq
<1>4. t[Len(s) + 1] = x /\ \A j \in 1 .. Len(s) : t[j] = s[j]
  BY <1>1 DEF Trail
<1> HIDE DEF t
<1>6. \A j \in 1 .. Len(s) + 1 : j = Len(s) + 1 \/ j \in 1 .. Len(s)
  BY <1>1
<1>8. \A j, k \in 1 .. Len(t) : t[j] = t[k] => j = k
  <2> SUFFICES ASSUME NEW j \in 1 .. Len(s) + 1, NEW k \in 1 .. Len(s) + 1, t[j] = t[k] PROVE j = k
    BY <1>3
  <2>1. CASE j = Len(s) + 1 \/ k = Len(s) + 1
    BY <1>1, <1>4, <1>6, <2>1
  <2>2. CASE j # Len(s) + 1 /\ k # Len(s) + 1
    BY <1>4, <1>6, <2>2 DEF Distinct
  <2> QED
    BY <2>1, <2>2
<1>9. In(t) = In(s) \cup {x}
  <2>1. ASSUME NEW y \in In(t) PROVE y \in In(s) \cup {x}
    BY <1>3, <1>4, <1>6 DEF In
  <2>2. ASSUME NEW y \in In(s) PROVE y \in In(t)
    BY <1>1, <1>3, <1>4 DEF In
  <2>3. Len(s) + 1 \in 1 .. Len(t)
    BY <1>1, <1>3
  <2>4. x \in In(t)
    BY <1>4, <2>3 DEF In
  <2> QED
    BY <2>1, <2>2, <2>4
<1> QED
  BY <1>3, <1>4, <1>8, <1>9 DEF Distinct, t

LEMMA DropIs ==
  ASSUME NEW s, Distinct(s), NEW p \in 1 .. Len(s)
  PROVE  /\ Distinct(Drop(s, p)) /\ Len(Drop(s, p)) = Len(s) - 1
         /\ In(Drop(s, p)) = In(s) \ {s[p]}
         /\ \A j \in 1 .. Len(s) - 1 : Drop(s, p)[j] = s[IF j < p THEN j ELSE j + 1]
<1> DEFINE t == Drop(s, p)
           I(j) == IF j < p THEN j ELSE j + 1
<1>1. Len(s) \in Nat /\ Len(s) - 1 \in Nat /\ \A j \in 1 .. Len(s) : s[j] \in Address
  BY Members
<1>2. \A j \in 1 .. Len(s) - 1 : I(j) \in 1 .. Len(s) /\ I(j) # p
  BY <1>1
<1>3. \A j, k \in 1 .. Len(s) - 1 : I(j) = I(k) => j = k
  BY <1>1
<1>4. \A k \in 1 .. Len(s) : k # p => \E j \in 1 .. Len(s) - 1 : I(j) = k
  <2> TAKE k \in 1 .. Len(s)
  <2> HAVE k # p
  <2>1. CASE k < p
    <3>1. k \in 1 .. Len(s) - 1 /\ I(k) = k
      BY <1>1, <2>1
    <3> QED
      BY <3>1
  <2>2. CASE k > p
    <3>1. k - 1 \in 1 .. Len(s) - 1 /\ I(k - 1) = k
      BY <1>1, <2>2
    <3> QED
      BY <3>1
  <2> QED
    BY <1>1, <2>1, <2>2
<1>5. \A j \in 1 .. Len(s) - 1 : t[j] = s[I(j)]
  BY DEF Drop
<1> HIDE DEF I
<1>6. t = [j \in 1 .. Len(s) - 1 |-> s[I(j)]]
  BY DEF Drop, I
<1> HIDE DEF t
<1>7. t \in [1 .. Len(s) - 1 -> Address]
  BY <1>1, <1>2, <1>6
<1>8. t \in Seq(Address) /\ Len(t) = Len(s) - 1
  BY <1>1, <1>7, IsSeq
<1>9. \A j, k \in 1 .. Len(t) : t[j] = t[k] => j = k
  BY <1>2, <1>3, <1>5, <1>8 DEF Distinct
<1>10. \A j, k \in 1 .. Len(s) : s[j] = s[k] => j = k
  BY DEF Distinct
<1>11. In(t) = In(s) \ {s[p]}
  <2>1. ASSUME NEW y \in In(t) PROVE y \in In(s) \ {s[p]}
    BY <1>2, <1>5, <1>8, <1>10 DEF In
  <2>2. ASSUME NEW y \in In(s) \ {s[p]} PROVE y \in In(t)
    <3>1. PICK k \in 1 .. Len(s) : y = s[k]
      BY DEF In
    <3>2. PICK j \in 1 .. Len(s) - 1 : I(j) = k
      BY <1>4, <2>2, <3>1
    <3> QED
      BY <1>5, <1>8, <3>1, <3>2 DEF In
  <2> QED
    BY <2>1, <2>2
<1> QED
  BY <1>5, <1>8, <1>9, <1>11 DEF Distinct, t, I

LEMMA SwapIs ==
  ASSUME NEW s, Distinct(s), NEW p \in 1 .. Len(s), NEW x \in Address, x \notin In(s)
  PROVE  /\ Distinct(Swap(s, p, x)) /\ Len(Swap(s, p, x)) = Len(s)
         /\ In(Swap(s, p, x)) = (In(s) \ {s[p]}) \cup {x}
         /\ Swap(s, p, x)[p] = x
         /\ \A j \in 1 .. Len(s) : j # p => Swap(s, p, x)[j] = s[j]
<1> DEFINE t == Swap(s, p, x)
<1>1. Len(s) \in Nat /\ \A j \in 1 .. Len(s) : s[j] \in Address /\ s[j] # x
  BY Members DEF In
<1>2. t \in [1 .. Len(s) -> Address]
  BY <1>1 DEF Swap
<1>3. t \in Seq(Address) /\ Len(t) = Len(s)
  BY <1>1, <1>2, IsSeq
<1>4. t[p] = x /\ \A j \in 1 .. Len(s) : j # p => t[j] = s[j]
  BY DEF Swap
<1> HIDE DEF t
<1>5. \A j, k \in 1 .. Len(s) : s[j] = s[k] => j = k
  BY DEF Distinct
<1>6. \A j, k \in 1 .. Len(t) : t[j] = t[k] => j = k
  BY <1>1, <1>3, <1>4, <1>5
<1>7. In(t) = (In(s) \ {s[p]}) \cup {x}
  BY <1>3, <1>4, <1>5 DEF In
<1> QED
  BY <1>3, <1>4, <1>6, <1>7 DEF Distinct, t

-----------------------------------------------------------------------------
(***************************************************************************)
(* Doubly linked lists: s in this order, linked by the cells off from its  *)
(* members.                                                                *)
(***************************************************************************)
Dll(h, s, off) ==
  /\ Distinct(s)
  /\ \A j \in 1 .. Len(s) : h.mem[s[j] + off] = Links(At(s, j - 1), At(s, j + 1))

Ring(h, s) ==
  /\ Distinct(s)
  /\ \A j \in 1 .. Len(s) : h.mem[s[j] + 1] = Links(Around(s, j - 1), Around(s, j + 1))

LEMMA DllLead ==
  ASSUME NEW h, NEW s, NEW off, Dll(h, s, off), NEW x \in Address, x \notin In(s), NEW h2,
         h2.mem[x + off] = Links(0, At(s, 1)),
         Len(s) >= 1 => h2.mem[s[1] + off] = Links(x, At(s, 2)),
         \A j \in 2 .. Len(s) : h2.mem[s[j] + off] = h.mem[s[j] + off]
  PROVE  Dll(h2, Lead(s, x), off) /\ In(Lead(s, x)) = In(s) \cup {x} /\ At(Lead(s, x), 1) = x
<1> DEFINE t == Lead(s, x)
<1>1. /\ Distinct(t) /\ Len(t) = Len(s) + 1 /\ In(t) = In(s) \cup {x}
      /\ t[1] = x /\ \A j \in 1 .. Len(s) : t[j + 1] = s[j]
  BY LeadIs DEF Dll
<1>2. Len(s) \in Nat
  BY Members DEF Dll
<1> HIDE DEF t
<1>3. At(t, 0) = 0 /\ At(t, 1) = x /\ \A j \in 1 .. Len(s) + 1 : At(t, j + 1) = At(s, j)
  BY <1>1, <1>2 DEF At
<1>4. ASSUME NEW j \in 1 .. Len(t) PROVE h2.mem[t[j] + off] = Links(At(t, j - 1), At(t, j + 1))
  <2>1. CASE j = 1
    BY <1>1, <1>2, <1>3, <2>1
  <2>2. CASE j = 2
    <3>1. t[2] = s[1] /\ Len(s) >= 1 /\ At(t, 3) = At(s, 2)
      BY <1>1, <1>2, <1>3, <2>2
    <3> QED
      BY <1>3, <2>2, <3>1
  <2>3. CASE j > 2
    <3>1. j - 1 \in 2 .. Len(s) /\ j - 1 \in 1 .. Len(s) /\ j - 2 \in 1 .. Len(s) /\ j \in 1 .. Len(s) + 1
          /\ j - 1 + 1 = j /\ j - 2 + 1 = j - 1 /\ j - 1 - 1 = j - 2
      BY <1>1, <1>2, <2>3
    <3>2. t[j] = s[j - 1] /\ At(t, j + 1) = At(s, j) /\ At(t, j - 1) = At(s, j - 2)
      <4>1. At(t, (j - 2) + 1) = At(s, j - 2) /\ t[(j - 1) + 1] = s[j - 1]
        BY <1>1, <1>3, <3>1
      <4> QED
        BY <1>3, <3>1, <4>1
    <3>3. h.mem[s[j - 1] + off] = Links(At(s, j - 2), At(s, j))
      BY <3>1 DEF Dll
    <3> QED
      BY <3>1, <3>2, <3>3
  <2> QED
    BY <1>1, <1>2, <2>1, <2>2, <2>3
<1> QED
  BY <1>1, <1>3, <1>4 DEF Dll, t

LEMMA DllDrop ==
  ASSUME NEW h, NEW s, NEW off, Dll(h, s, off), NEW p \in 1 .. Len(s), NEW h2,
         p > 1 => h2.mem[s[p - 1] + off] = Links(At(s, p - 2), At(s, p + 1)),
         p < Len(s) => h2.mem[s[p + 1] + off] = Links(At(s, p - 1), At(s, p + 2)),
         \A j \in 1 .. Len(s) : j \notin {p - 1, p, p + 1} => h2.mem[s[j] + off] = h.mem[s[j] + off]
  PROVE  Dll(h2, Drop(s, p), off) /\ In(Drop(s, p)) = In(s) \ {s[p]}
         /\ At(Drop(s, p), 1) = IF p = 1 THEN At(s, 2) ELSE At(s, 1)
<1> DEFINE t == Drop(s, p)
<1>1. /\ Distinct(t) /\ Len(t) = Len(s) - 1 /\ In(t) = In(s) \ {s[p]}
      /\ \A j \in 1 .. Len(s) - 1 : t[j] = s[IF j < p THEN j ELSE j + 1]
  BY DropIs DEF Dll
<1>2. Len(s) \in Nat
  BY Members DEF Dll
<1> HIDE DEF t
<1>3. \A j \in 0 .. Len(s) : At(t, j) = At(s, IF j < p THEN j ELSE j + 1)
  BY <1>1, <1>2 DEF At
<1>4. ASSUME NEW j \in 1 .. Len(t) PROVE h2.mem[t[j] + off] = Links(At(t, j - 1), At(t, j + 1))
  <2>0. j \in 1 .. Len(s) - 1 /\ j - 1 \in 0 .. Len(s) /\ j + 1 \in 0 .. Len(s) /\ j \in 1 .. Len(s)
        /\ j + 1 \in 1 .. Len(s)
    BY <1>1, <1>2
  <2>1. CASE j < p - 1
    <3>1. t[j] = s[j] /\ At(t, j - 1) = At(s, j - 1) /\ At(t, j + 1) = At(s, j + 1)
      <4>1. j < p /\ j - 1 < p /\ j + 1 < p
        BY <2>0, <2>1
      <4> QED
        BY <1>1, <1>3, <2>0, <4>1
    <3>2. h2.mem[s[j] + off] = h.mem[s[j] + off]
      BY <2>0, <2>1
    <3> QED
      BY <2>0, <3>1, <3>2 DEF Dll
  <2>2. CASE j = p - 1
    <3>1. t[j] = s[j] /\ At(t, j - 1) = At(s, j - 1) /\ At(t, j + 1) = At(s, j + 2)
      BY <1>1, <1>2, <1>3, <2>0, <2>2
    <3>2. p > 1 /\ j - 1 = p - 2 /\ j + 2 = p + 1
      BY <2>0, <2>2
    <3> QED
      BY <2>2, <3>1, <3>2
  <2>3. CASE j = p
    <3>1. t[j] = s[j + 1] /\ At(t, j - 1) = At(s, j - 1) /\ At(t, j + 1) = At(s, j + 2)
      BY <1>1, <1>2, <1>3, <2>0, <2>3
    <3>2. p < Len(s)
      BY <1>2, <2>0, <2>3
    <3> QED
      BY <2>3, <3>1, <3>2
  <2>4. CASE j > p
    <3>1. t[j] = s[j + 1] /\ At(t, j - 1) = At(s, j) /\ At(t, j + 1) = At(s, j + 2)
      <4>1. ~(j - 1 < p) /\ ~(j < p) /\ ~(j + 1 < p) /\ j - 1 + 1 = j /\ j + 1 + 1 = j + 2
        BY <2>0, <2>4
      <4> QED
        BY <1>1, <1>3, <2>0, <4>1
    <3>2. h2.mem[s[j + 1] + off] = h.mem[s[j + 1] + off]
      BY <2>0, <2>4
    <3>3. h.mem[s[j + 1] + off] = Links(At(s, j + 1 - 1), At(s, j + 1 + 1))
      BY <2>0 DEF Dll
    <3>4. j + 1 - 1 = j /\ j + 1 + 1 = j + 2
      BY <2>0
    <3> QED
      BY <3>1, <3>2, <3>3, <3>4
  <2> QED
    BY <2>0, <2>1, <2>2, <2>3, <2>4
<1>5. At(t, 1) = IF p = 1 THEN At(s, 2) ELSE At(s, 1)
  BY <1>2, <1>3
<1> QED
  BY <1>1, <1>4, <1>5 DEF Dll, t

LEMMA DllSwap ==
  ASSUME NEW h, NEW s, NEW off, Dll(h, s, off), NEW p \in 1 .. Len(s), NEW x \in Address,
         x \notin In(s), NEW h2,
         h2.mem[x + off] = Links(At(s, p - 1), At(s, p + 1)),
         p > 1 => h2.mem[s[p - 1] + off] = Links(At(s, p - 2), x),
         p < Len(s) => h2.mem[s[p + 1] + off] = Links(x, At(s, p + 2)),
         \A j \in 1 .. Len(s) : j \notin {p - 1, p, p + 1} => h2.mem[s[j] + off] = h.mem[s[j] + off]
  PROVE  Dll(h2, Swap(s, p, x), off) /\ In(Swap(s, p, x)) = (In(s) \ {s[p]}) \cup {x}
         /\ At(Swap(s, p, x), 1) = IF p = 1 THEN x ELSE At(s, 1)
<1> DEFINE t == Swap(s, p, x)
<1>0. Distinct(s)
  BY DEF Dll
<1>1. /\ Distinct(t) /\ Len(t) = Len(s) /\ In(t) = (In(s) \ {s[p]}) \cup {x}
      /\ t[p] = x /\ \A j \in 1 .. Len(s) : j # p => t[j] = s[j]
  BY <1>0, SwapIs
<1>2. Len(s) \in Nat
  BY Members DEF Dll
<1> HIDE DEF t
<1>3. At(t, p) = x /\ \A j \in 0 .. Len(s) + 1 : j # p => At(t, j) = At(s, j)
  BY <1>1, <1>2 DEF At
<1>4. ASSUME NEW j \in 1 .. Len(t) PROVE h2.mem[t[j] + off] = Links(At(t, j - 1), At(t, j + 1))
  <2>0. j \in 1 .. Len(s) /\ j - 1 \in 0 .. Len(s) + 1 /\ j + 1 \in 0 .. Len(s) + 1
    BY <1>1, <1>2
  <2>1. CASE j = p
    <3>1. j - 1 # p /\ j + 1 # p
      BY <2>0, <2>1
    <3> QED
      BY <1>1, <1>3, <2>0, <2>1, <3>1
  <2>2. CASE j = p - 1
    <3>1. p > 1 /\ j # p /\ j - 1 # p /\ j + 1 = p /\ j - 1 = p - 2
      BY <2>0, <2>2
    <3> QED
      BY <1>1, <1>3, <2>0, <2>2, <3>1
  <2>3. CASE j = p + 1
    <3>1. p < Len(s) /\ j # p /\ j - 1 = p /\ j + 1 # p /\ j + 1 = p + 2
      BY <1>2, <2>0, <2>3
    <3> QED
      BY <1>1, <1>3, <2>0, <2>3, <3>1
  <2>4. CASE j \notin {p - 1, p, p + 1}
    <3>1. j # p /\ j - 1 # p /\ j + 1 # p
      BY <2>0, <2>4
    <3> QED
      BY <1>1, <1>3, <2>0, <2>4, <3>1 DEF Dll
  <2> QED
    BY <2>1, <2>2, <2>3, <2>4
<1>5. At(t, 1) = IF p = 1 THEN x ELSE At(s, 1)
  <2>1. 1 \in 0 .. Len(s) + 1
    BY <1>2
  <2> QED
    BY <1>3, <2>1
<1> QED
  BY <1>1, <1>4, <1>5 DEF Dll, t

LEMMA DllSame ==
  ASSUME NEW h, NEW s, NEW off, Dll(h, s, off), NEW h2,
         \A x \in In(s) : h2.mem[x + off] = h.mem[x + off]
  PROVE  Dll(h2, s, off)
BY Members DEF Dll

LEMMA RingSame ==
  ASSUME NEW h, NEW s, Ring(h, s), NEW h2, \A x \in In(s) : h2.mem[x + 1] = h.mem[x + 1]
  PROVE  Ring(h2, s)
BY Members DEF Ring

(* A ring from its second member on, from its last one on, and with its    *)
(* second member as the last.                                              *)
Turn(s) == [j \in 1 .. Len(s) |-> Around(s, j + 1)]
Back(s) == [j \in 1 .. Len(s) |-> Around(s, j - 1)]
Behind(s) == [j \in 1 .. Len(s) |-> IF j = 1 THEN s[1] ELSE IF j = Len(s) THEN s[2] ELSE s[j + 1]]

LEMMA TurnIs ==
  ASSUME NEW h, NEW s, Ring(h, s), Len(s) >= 1
  PROVE  /\ Ring(h, Turn(s)) /\ In(Turn(s)) = In(s) /\ Len(Turn(s)) = Len(s)
         /\ Turn(s)[1] = Around(s, 2) /\ \A j \in 1 .. Len(s) : Turn(s)[j] = Around(s, j + 1)
<1> DEFINE t == Turn(s)
           n == Len(s)
<1>1. n \in Nat /\ n >= 1 /\ \A j \in 1 .. n : s[j] \in Address
  BY Members DEF Ring
<1>2. \A j, k \in 1 .. n : s[j] = s[k] => j = k
  BY DEF Ring, Distinct
<1>3. \A j \in 1 .. n : t[j] = Around(s, j + 1)
  BY DEF Turn
<1>4. \A j \in 1 .. n : t[j] = IF j = n THEN s[1] ELSE s[j + 1]
  BY <1>1, <1>3 DEF Around
<1>5. t \in [1 .. n -> Address]
  <2>1. \A j \in 1 .. n : t[j] \in Address
    <3> HIDE DEF t
    <3> QED
      BY <1>1, <1>4
  <2> QED
    BY <2>1 DEF Turn
<1>6. t \in Seq(Address) /\ Len(t) = n
  BY <1>1, <1>5, IsSeq
<1> HIDE DEF t, n
<1>7. \A j, k \in 1 .. n : t[j] = t[k] => j = k
  <2> TAKE j, k \in 1 .. n
  <2> HAVE t[j] = t[k]
  <2>1. CASE j = n /\ k = n
    BY <2>1
  <2>2. CASE j = n /\ k # n
    <3>1. s[1] = s[k + 1] /\ 1 \in 1 .. n /\ k + 1 \in 1 .. n /\ k + 1 # 1
      BY <1>1, <1>4, <2>2
    <3> QED
      BY <1>2, <3>1
  <2>3. CASE j # n /\ k = n
    <3>1. s[j + 1] = s[1] /\ 1 \in 1 .. n /\ j + 1 \in 1 .. n /\ j + 1 # 1
      BY <1>1, <1>4, <2>3
    <3> QED
      BY <1>2, <3>1
  <2>4. CASE j # n /\ k # n
    <3>1. s[j + 1] = s[k + 1] /\ j + 1 \in 1 .. n /\ k + 1 \in 1 .. n
      BY <1>1, <1>4, <2>4
    <3>2. j + 1 = k + 1
      BY <1>2, <3>1
    <3> QED
      BY <3>2
  <2> QED
    BY <2>1, <2>2, <2>3, <2>4
<1>8. In(t) = In(s)
  <2>1. ASSUME NEW j \in 1 .. n PROVE \E k \in 1 .. n : t[j] = s[k]
    <3>1. (1 \in 1 .. n) /\ (j # n => j + 1 \in 1 .. n)
      BY <1>1
    <3> QED
      BY <1>4, <3>1
  <2>2. ASSUME NEW k \in 1 .. n PROVE \E j \in 1 .. n : t[j] = s[k]
    <3>1. CASE k = 1
      <4>1. n \in 1 .. n
        BY <1>1
      <4> QED
        BY <1>4, <3>1, <4>1
    <3>2. CASE k # 1
      <4>1. k - 1 \in 1 .. n /\ k - 1 # n /\ k - 1 + 1 = k
        BY <1>1, <3>2
      <4> QED
        BY <1>4, <4>1
    <3> QED
      BY <3>1, <3>2
  <2>3. In(t) = {t[j] : j \in 1 .. n} /\ In(s) = {s[k] : k \in 1 .. n}
    BY <1>6 DEF In, n
  <2> QED
    BY <2>1, <2>2, <2>3
<1>9. ASSUME NEW j \in 1 .. n PROVE h.mem[t[j] + 1] = Links(Around(t, j - 1), Around(t, j + 1))
  <2>0. \A k \in 1 .. n : h.mem[s[k] + 1] = Links(Around(s, k - 1), Around(s, k + 1))
    BY DEF Ring, n
  <2>1. CASE j = n
    <3>1. t[j] = s[1] /\ Around(s, 0) = s[n] /\ Around(t, n + 1) = t[1]
      BY <1>1, <1>4, <1>6, <2>1 DEF Around, n
    <3>2. Around(t, n - 1) = s[n]
      BY <1>1, <1>4, <1>6, <2>1 DEF Around, n
    <3>3. t[1] = Around(s, 2)
      BY <1>1, <1>3
    <3>4. h.mem[s[1] + 1] = Links(Around(s, 0), Around(s, 2))
      <4>1. 1 \in 1 .. n /\ 1 - 1 = 0 /\ 1 + 1 = 2
        BY <1>1
      <4> QED
        BY <2>0, <4>1
    <3> QED
      BY <2>1, <3>1, <3>2, <3>3, <3>4
  <2>2. CASE j # n
    <3>1. j + 1 \in 1 .. n /\ j + 1 - 1 = j /\ t[j] = s[j + 1]
      BY <1>1, <1>4, <2>2
    <3>2. Around(t, j + 1) = t[j + 1] /\ t[j + 1] = Around(s, j + 1 + 1)
      BY <1>1, <1>3, <1>6, <2>2, <3>1 DEF Around, n
    <3>3. Around(t, j - 1) = s[j] /\ Around(s, j) = s[j]
      BY <1>1, <1>4, <1>6, <2>2 DEF Around, n
    <3>4. h.mem[s[j + 1] + 1] = Links(Around(s, j + 1 - 1), Around(s, j + 1 + 1))
      BY <2>0, <3>1
    <3> QED
      BY <3>1, <3>2, <3>3, <3>4
  <2> QED
    BY <2>1, <2>2
<1>10. t[1] = Around(s, 2)
  BY <1>1, <1>3
<1> QED
  BY <1>3, <1>6, <1>7, <1>8, <1>9, <1>10 DEF Ring, Distinct, t, n

LEMMA BackIs ==
  ASSUME NEW h, NEW s, Ring(h, s), Len(s) >= 1
  PROVE  /\ Ring(h, Back(s)) /\ In(Back(s)) = In(s) /\ Len(Back(s)) = Len(s)
         /\ Back(s)[1] = s[Len(s)]
<1> DEFINE t == Back(s)
           n == Len(s)
<1>1. n \in Nat /\ n >= 1 /\ \A j \in 1 .. n : s[j] \in Address
  BY Members DEF Ring
<1>2. \A j, k \in 1 .. n : s[j] = s[k] => j = k
  BY DEF Ring, Distinct
<1>3. \A j \in 1 .. n : t[j] = Around(s, j - 1)
  BY DEF Back
<1>4. \A j \in 1 .. n : t[j] = IF j = 1 THEN s[n] ELSE s[j - 1]
  BY <1>1, <1>3 DEF Around
<1>5. t \in [1 .. n -> Address]
  <2>1. \A j \in 1 .. n : t[j] \in Address
    <3> HIDE DEF t
    <3> QED
      BY <1>1, <1>4
  <2> QED
    BY <2>1 DEF Back
<1>6. t \in Seq(Address) /\ Len(t) = n
  BY <1>1, <1>5, IsSeq
<1> HIDE DEF t, n
<1>7. \A j, k \in 1 .. n : t[j] = t[k] => j = k
  <2> TAKE j, k \in 1 .. n
  <2> HAVE t[j] = t[k]
  <2>1. CASE j = 1 /\ k = 1
    BY <2>1
  <2>2. CASE j = 1 /\ k # 1
    <3>1. s[n] = s[k - 1] /\ n \in 1 .. n /\ k - 1 \in 1 .. n /\ k - 1 # n
      BY <1>1, <1>4, <2>2
    <3> QED
      BY <1>2, <3>1
  <2>3. CASE j # 1 /\ k = 1
    <3>1. s[j - 1] = s[n] /\ n \in 1 .. n /\ j - 1 \in 1 .. n /\ j - 1 # n
      BY <1>1, <1>4, <2>3
    <3> QED
      BY <1>2, <3>1
  <2>4. CASE j # 1 /\ k # 1
    <3>1. s[j - 1] = s[k - 1] /\ j - 1 \in 1 .. n /\ k - 1 \in 1 .. n
      BY <1>1, <1>4, <2>4
    <3>2. j - 1 = k - 1
      BY <1>2, <3>1
    <3> QED
      BY <3>2
  <2> QED
    BY <2>1, <2>2, <2>3, <2>4
<1>8. In(t) = In(s)
  <2>1. ASSUME NEW j \in 1 .. n PROVE \E k \in 1 .. n : t[j] = s[k]
    <3>1. (n \in 1 .. n) /\ (j # 1 => j - 1 \in 1 .. n)
      BY <1>1
    <3> QED
      BY <1>4, <3>1
  <2>2. ASSUME NEW k \in 1 .. n PROVE \E j \in 1 .. n : t[j] = s[k]
    <3>1. CASE k = n
      <4>1. 1 \in 1 .. n
        BY <1>1
      <4> QED
        BY <1>4, <3>1, <4>1
    <3>2. CASE k # n
      <4>1. k + 1 \in 1 .. n /\ k + 1 # 1 /\ k + 1 - 1 = k
        BY <1>1, <3>2
      <4> QED
        BY <1>4, <4>1
    <3> QED
      BY <3>1, <3>2
  <2>3. In(t) = {t[j] : j \in 1 .. n} /\ In(s) = {s[k] : k \in 1 .. n}
    BY <1>6 DEF In, n
  <2> QED
    BY <2>1, <2>2, <2>3
<1>9. ASSUME NEW j \in 1 .. n PROVE h.mem[t[j] + 1] = Links(Around(t, j - 1), Around(t, j + 1))
  <2>0. \A k \in 1 .. n : h.mem[s[k] + 1] = Links(Around(s, k - 1), Around(s, k + 1))
    BY DEF Ring, n
  <2>1. CASE j = 1
    <3>1. t[j] = s[n] /\ Around(s, n + 1) = s[1] /\ Around(t, 0) = t[n]
      BY <1>1, <1>4, <1>6, <2>1 DEF Around, n
    <3>2. Around(t, 1 + 1) = s[1]
      BY <1>1, <1>4, <1>6, <2>1 DEF Around, n
    <3>3. t[n] = Around(s, n - 1)
      BY <1>1, <1>3
    <3>4. h.mem[s[n] + 1] = Links(Around(s, n - 1), Around(s, n + 1))
      <4>1. n \in 1 .. n
        BY <1>1
      <4> QED
        BY <2>0, <4>1
    <3>5. 1 - 1 = 0
      OBVIOUS
    <3> QED
      BY <2>1, <3>1, <3>2, <3>3, <3>4, <3>5
  <2>2. CASE j # 1
    <3>1. j - 1 \in 1 .. n /\ j - 1 + 1 = j /\ t[j] = s[j - 1]
      BY <1>1, <1>4, <2>2
    <3>2. Around(t, j - 1) = t[j - 1] /\ t[j - 1] = Around(s, j - 1 - 1)
      BY <1>1, <1>3, <1>6, <2>2, <3>1 DEF Around, n
    <3>3. Around(t, j + 1) = s[j] /\ Around(s, j) = s[j]
      BY <1>1, <1>4, <1>6, <2>2 DEF Around, n
    <3>4. h.mem[s[j - 1] + 1] = Links(Around(s, j - 1 - 1), Around(s, j - 1 + 1))
      BY <2>0, <3>1
    <3> QED
      BY <3>1, <3>2, <3>3, <3>4
  <2> QED
    BY <2>1, <2>2
<1>10. t[1] = s[n]
  BY <1>1, <1>4
<1> QED
  BY <1>6, <1>7, <1>8, <1>9, <1>10 DEF Ring, Distinct, t, n

LEMMA RingTrail ==
  ASSUME NEW h, NEW s, Ring(h, s), Len(s) >= 1, NEW x \in Address, x \notin In(s), NEW h2,
         h2.mem[x + 1] = Links(s[Len(s)], s[1]),
         h2.mem[s[1] + 1] = Links(x, IF Len(s) = 1 THEN x ELSE Around(s, 2)),
         Len(s) > 1 => h2.mem[s[Len(s)] + 1] = Links(Around(s, Len(s) - 1), x),
         \A j \in 2 .. Len(s) - 1 : h2.mem[s[j] + 1] = h.mem[s[j] + 1]
  PROVE  Ring(h2, Trail(s, x)) /\ In(Trail(s, x)) = In(s) \cup {x}
         /\ Trail(s, x)[1] = s[1] /\ Trail(s, x)[Len(s) + 1] = x /\ Len(Trail(s, x)) = Len(s) + 1
<1> DEFINE t == Trail(s, x)
           n == Len(s)
<1>1. n \in Nat /\ n >= 1
  BY Members DEF Ring
<1>2. /\ Distinct(t) /\ Len(t) = n + 1 /\ In(t) = In(s) \cup {x}
      /\ t[n + 1] = x /\ \A j \in 1 .. n : t[j] = s[j]
  BY TrailIs DEF Ring
<1> HIDE DEF t
<1>3. /\ \A j \in 1 .. n : Around(t, j) = s[j]
      /\ Around(t, 0) = x /\ Around(t, n + 1) = x /\ Around(t, n + 2) = s[1]
  BY <1>1, <1>2 DEF Around
<1>4. ASSUME NEW j \in 1 .. n + 1 PROVE h2.mem[t[j] + 1] = Links(Around(t, j - 1), Around(t, j + 1))
  <2>1. CASE j = n + 1
    <3>1. j - 1 = n /\ j + 1 = n + 2 /\ n \in 1 .. n
      BY <1>1, <2>1
    <3> QED
      BY <1>2, <1>3, <2>1, <3>1
  <2>2. CASE j = 1
    <3>0. n # 1 => 2 # n + 1
      <4> HIDE DEF n
      <4> QED
        BY <1>1
    <3>1. 1 \in 1 .. n /\ (n # 1 => 2 \in 1 .. n /\ Around(s, 2) = s[2])
      BY <1>1, <3>0 DEF Around
    <3>2. Around(t, 2) = IF n = 1 THEN x ELSE Around(s, 2)
      BY <1>1, <1>3, <3>1
    <3> QED
      BY <1>2, <1>3, <2>2, <3>1, <3>2
  <2>3. CASE j = n /\ n > 1
    <3>1. n - 1 \in 1 .. n /\ Around(s, n - 1) = s[n - 1] /\ n \in 1 .. n
      BY <1>1, <2>3 DEF Around
    <3> QED
      BY <1>2, <1>3, <2>3, <3>1
  <2>4. CASE j \in 2 .. n - 1
    <3>1. j \in 1 .. n /\ j - 1 \in 1 .. n /\ j + 1 \in 1 .. n
      BY <1>1, <2>4
    <3>2. Around(s, j - 1) = s[j - 1] /\ Around(s, j + 1) = s[j + 1]
      BY <1>1, <2>4 DEF Around
    <3>3. h.mem[s[j] + 1] = Links(Around(s, j - 1), Around(s, j + 1))
      BY <3>1 DEF Ring
    <3> QED
      BY <1>2, <1>3, <2>4, <3>1, <3>2, <3>3
  <2> QED
    BY <1>1, <2>1, <2>2, <2>3, <2>4
<1>5. t[1] = s[1]
  BY <1>1, <1>2
<1> QED
  BY <1>2, <1>4, <1>5 DEF Ring, t

(* The places before and after j in a ring of n.                           *)
Prv(n, j) == IF j = 1 THEN n ELSE j - 1
Nxt(n, j) == IF j = n THEN 1 ELSE j + 1

LEMMA RingLinks ==
  ASSUME NEW h, NEW s, Distinct(s)
  PROVE  /\ \A j \in 1 .. Len(s) : /\ Around(s, j - 1) = s[Prv(Len(s), j)]
                                   /\ Around(s, j + 1) = s[Nxt(Len(s), j)]
                                   /\ Prv(Len(s), j) \in 1 .. Len(s) /\ Nxt(Len(s), j) \in 1 .. Len(s)
         /\ Ring(h, s) <=> \A j \in 1 .. Len(s) :
              h.mem[s[j] + 1] = Links(s[Prv(Len(s), j)], s[Nxt(Len(s), j)])
<1>1. Len(s) \in Nat
  BY Members
<1>2. \A j \in 1 .. Len(s) : /\ Around(s, j - 1) = s[Prv(Len(s), j)]
                             /\ Around(s, j + 1) = s[Nxt(Len(s), j)]
                             /\ Prv(Len(s), j) \in 1 .. Len(s) /\ Nxt(Len(s), j) \in 1 .. Len(s)
  BY <1>1 DEF Around, Prv, Nxt
<1> QED
  BY <1>2 DEF Ring

LEMMA RingSwap ==
  ASSUME NEW h, NEW s, Ring(h, s), NEW p \in 1 .. Len(s), NEW x \in Address, x \notin In(s), NEW h2,
         h2.mem[x + 1] = IF Len(s) = 1 THEN Links(x, x)
                         ELSE Links(s[Prv(Len(s), p)], s[Nxt(Len(s), p)]),
         \A j \in 1 .. Len(s) : j # p =>
           h2.mem[s[j] + 1] = Links(IF Prv(Len(s), j) = p THEN x ELSE s[Prv(Len(s), j)],
                                    IF Nxt(Len(s), j) = p THEN x ELSE s[Nxt(Len(s), j)])
  PROVE  Ring(h2, Swap(s, p, x)) /\ In(Swap(s, p, x)) = (In(s) \ {s[p]}) \cup {x}
         /\ At(Swap(s, p, x), 1) = IF p = 1 THEN x ELSE At(s, 1)
<1> DEFINE t == Swap(s, p, x)
           n == Len(s)
<1>1. n \in Nat /\ Distinct(s)
  BY Members DEF Ring
<1>2. /\ Distinct(t) /\ Len(t) = n /\ In(t) = (In(s) \ {s[p]}) \cup {x}
      /\ t[p] = x /\ \A j \in 1 .. n : j # p => t[j] = s[j]
  BY SwapIs DEF Ring
<1> HIDE DEF t
<1>3. ASSUME NEW j \in 1 .. n PROVE h2.mem[t[j] + 1] = Links(t[Prv(n, j)], t[Nxt(n, j)])
  <2>1. Prv(n, j) \in 1 .. n /\ Nxt(n, j) \in 1 .. n
    BY <1>1, RingLinks
  <2>2. CASE j # p
    BY <1>2, <2>1, <2>2
  <2>3. CASE j = p /\ n = 1
    <3>1. Prv(n, j) = 1 /\ Nxt(n, j) = 1 /\ p = 1
      BY <2>3 DEF Prv, Nxt
    <3> QED
      BY <1>2, <2>3, <3>1
  <2>4. CASE j = p /\ n # 1
    <3>0. p \in 1 .. n
      OBVIOUS
    <3>1. Prv(n, j) # p /\ Nxt(n, j) # p
      <4> HIDE DEF n
      <4> QED
        BY <1>1, <2>4, <3>0 DEF Prv, Nxt
    <3> QED
      BY <1>2, <2>1, <2>4, <3>1
  <2> QED
    BY <2>2, <2>3, <2>4
<1>4. Ring(h2, t)
  <2> HIDE DEF n
  <2>1. \A j \in 1 .. Len(t) : h2.mem[t[j] + 1] = Links(t[Prv(Len(t), j)], t[Nxt(Len(t), j)])
    BY <1>2, <1>3
  <2> QED
    BY <1>2, <2>1, RingLinks
<1>5. At(t, 1) = IF p = 1 THEN x ELSE At(s, 1)
  BY <1>1, <1>2 DEF At
<1> QED
  BY <1>2, <1>4, <1>5 DEF t

LEMMA RingDrop ==
  ASSUME NEW h, NEW s, Ring(h, s), NEW p \in 1 .. Len(s), Len(s) >= 2, NEW h2,
         \A j \in 1 .. Len(s) : j # p =>
           h2.mem[s[j] + 1] = Links(s[IF Prv(Len(s), j) = p THEN Prv(Len(s), p) ELSE Prv(Len(s), j)],
                                    s[IF Nxt(Len(s), j) = p THEN Nxt(Len(s), p) ELSE Nxt(Len(s), j)])
  PROVE  Ring(h2, Drop(s, p)) /\ In(Drop(s, p)) = In(s) \ {s[p]}
         /\ At(Drop(s, p), 1) = IF p = 1 THEN s[Nxt(Len(s), 1)] ELSE s[1]
<1> DEFINE t == Drop(s, p)
           n == Len(s)
           I(j) == IF j < p THEN j ELSE j + 1
<1>1. n \in Nat /\ n >= 2 /\ Distinct(s) /\ p \in 1 .. n
  BY Members DEF Ring
<1>2. /\ Distinct(t) /\ Len(t) = n - 1 /\ In(t) = In(s) \ {s[p]}
      /\ \A j \in 1 .. n - 1 : t[j] = s[I(j)]
  BY DropIs DEF Ring
<1> HIDE DEF t
<1>3. ASSUME NEW j \in 1 .. n - 1
      PROVE  /\ I(j) \in 1 .. n /\ I(j) # p
             /\ Prv(n - 1, j) \in 1 .. n - 1 /\ Nxt(n - 1, j) \in 1 .. n - 1
             /\ I(Prv(n - 1, j)) = IF Prv(n, I(j)) = p THEN Prv(n, p) ELSE Prv(n, I(j))
             /\ I(Nxt(n - 1, j)) = IF Nxt(n, I(j)) = p THEN Nxt(n, p) ELSE Nxt(n, I(j))
  <2> HIDE DEF n
  <2>1. I(j) \in 1 .. n /\ I(j) # p
    BY <1>1
  <2>2. Prv(n - 1, j) \in 1 .. n - 1 /\ Nxt(n - 1, j) \in 1 .. n - 1
    BY <1>1 DEF Prv, Nxt
  <2>3. I(Prv(n - 1, j)) = IF Prv(n, I(j)) = p THEN Prv(n, p) ELSE Prv(n, I(j))
    BY <1>1 DEF Prv
  <2>4. I(Nxt(n - 1, j)) = IF Nxt(n, I(j)) = p THEN Nxt(n, p) ELSE Nxt(n, I(j))
    <3>1. CASE j = n - 1
      BY <1>1, <3>1 DEF Nxt
    <3>2. CASE j < n - 1
      <4>1. Nxt(n - 1, j) = j + 1
        BY <3>2 DEF Nxt
      <4>2. CASE j < p
        BY <1>1, <3>2, <4>1, <4>2 DEF Nxt
      <4>3. CASE j >= p
        BY <1>1, <3>2, <4>1, <4>3 DEF Nxt
      <4> QED
        BY <1>1, <4>2, <4>3
    <3> QED
      BY <1>1, <3>1, <3>2
  <2> QED
    BY <2>1, <2>2, <2>3, <2>4
<1>4. ASSUME NEW j \in 1 .. n - 1
      PROVE  h2.mem[t[j] + 1] = Links(t[Prv(n - 1, j)], t[Nxt(n - 1, j)])
  <2> DEFINE k == I(j)
  <2>1. k \in 1 .. n /\ k # p /\ t[j] = s[k]
    BY <1>2, <1>3
  <2>2. /\ t[Prv(n - 1, j)] = s[IF Prv(n, k) = p THEN Prv(n, p) ELSE Prv(n, k)]
        /\ t[Nxt(n - 1, j)] = s[IF Nxt(n, k) = p THEN Nxt(n, p) ELSE Nxt(n, k)]
    <3>1. t[Prv(n - 1, j)] = s[I(Prv(n - 1, j))] /\ t[Nxt(n - 1, j)] = s[I(Nxt(n - 1, j))]
      <4> HIDE DEF I
      <4> QED
        BY <1>2, <1>3
    <3> HIDE DEF I, n
    <3> QED
      BY <1>3, <3>1
  <2> HIDE DEF k, I
  <2> QED
    BY <2>1, <2>2
<1>5. Ring(h2, t)
  <2> HIDE DEF n
  <2>1. \A j \in 1 .. Len(t) : h2.mem[t[j] + 1] = Links(t[Prv(Len(t), j)], t[Nxt(Len(t), j)])
    BY <1>2, <1>4
  <2> QED
    BY <1>2, <2>1, RingLinks
<1>6. At(t, 1) = IF p = 1 THEN s[Nxt(n, 1)] ELSE s[1]
  <2> HIDE DEF n
  <2>1. 1 \in 1 .. n - 1 /\ Nxt(n, 1) = 2
    BY <1>1 DEF Nxt
  <2>2. At(t, 1) = t[1] /\ t[1] = s[I(1)]
    BY <1>2, <2>1 DEF At
  <2> QED
    BY <1>1, <2>1, <2>2
<1> QED
  BY <1>2, <1>5, <1>6 DEF t

(* The second member goes behind the last; a ring of two stays as it is.   *)
LEMMA BehindIs ==
  ASSUME NEW h, NEW s, Ring(h, s), Len(s) >= 2, NEW h2,
         Len(s) = 2 => \A j \in 1 .. 2 : h2.mem[s[j] + 1] = h.mem[s[j] + 1],
         Len(s) > 2 =>
           /\ h2.mem[s[1] + 1] = Links(s[2], s[3])
           /\ h2.mem[s[2] + 1] = Links(s[Len(s)], s[1])
           /\ h2.mem[s[3] + 1] = Links(s[1], IF Len(s) = 3 THEN s[2] ELSE s[4])
           /\ Len(s) > 3 => h2.mem[s[Len(s)] + 1] = Links(s[Len(s) - 1], s[2])
           /\ \A j \in 4 .. Len(s) - 1 : h2.mem[s[j] + 1] = h.mem[s[j] + 1]
  PROVE  /\ Ring(h2, Behind(s)) /\ In(Behind(s)) = In(s) /\ Len(Behind(s)) = Len(s)
         /\ Behind(s)[1] = s[1]
<1> DEFINE t == Behind(s)
           n == Len(s)
<1>1. n \in Nat /\ n >= 2 /\ Distinct(s) /\ \A j \in 1 .. n : s[j] \in Address
  BY Members DEF Ring
<1>2. \A j, k \in 1 .. n : s[j] = s[k] => j = k
  BY DEF Ring, Distinct
<1> DEFINE I(j) == IF j = 1 THEN 1 ELSE IF j = n THEN 2 ELSE j + 1
<1> HIDE DEF n
<1>3. \A j \in 1 .. n : I(j) \in 1 .. n
  BY <1>1
<1>4. \A j, k \in 1 .. n : I(j) = I(k) => j = k
  BY <1>1
<1>5. \A k \in 1 .. n : \E j \in 1 .. n : I(j) = k
  <2> TAKE k \in 1 .. n
  <2>1. CASE k = 1
    <3>1. 1 \in 1 .. n /\ I(1) = 1
      BY <1>1
    <3> QED
      BY <2>1, <3>1
  <2>2. CASE k = 2
    <3>1. n \in 1 .. n /\ I(n) = 2
      BY <1>1
    <3> QED
      BY <2>2, <3>1
  <2>3. CASE k > 2
    <3>1. k - 1 \in 1 .. n /\ I(k - 1) = k
      BY <1>1, <2>3
    <3> QED
      BY <3>1
  <2> QED
    BY <1>1, <2>1, <2>2, <2>3
<1>6. t = [j \in 1 .. n |-> s[I(j)]]
  BY DEF Behind, n
<1> HIDE DEF t
<1>7. t \in [1 .. n -> Address] /\ \A j \in 1 .. n : t[j] = s[I(j)]
  <2> HIDE DEF I
  <2> QED
    BY <1>1, <1>3, <1>6
<1>8. t \in Seq(Address) /\ Len(t) = n
  BY <1>1, <1>7, IsSeq
<1>9. Distinct(t)
  <2> HIDE DEF I
  <2>1. ASSUME NEW j \in 1 .. n, NEW k \in 1 .. n, t[j] = t[k] PROVE j = k
    <3>1. s[I(j)] = s[I(k)] /\ I(j) \in 1 .. n /\ I(k) \in 1 .. n
      BY <1>3, <1>7, <2>1
    <3>2. I(j) = I(k)
      BY <1>2, <3>1
    <3> QED
      BY <1>4, <3>2
  <2> QED
    BY <1>8, <2>1 DEF Distinct
<1>10. In(t) = In(s)
  <2>1. In(t) = {t[j] : j \in 1 .. n} /\ In(s) = {s[k] : k \in 1 .. n}
    BY <1>8 DEF In, n
  <2> HIDE DEF I
  <2>2. ASSUME NEW j \in 1 .. n PROVE \E k \in 1 .. n : t[j] = s[k]
    BY <1>3, <1>7
  <2>3. ASSUME NEW k \in 1 .. n PROVE \E j \in 1 .. n : t[j] = s[k]
    <3>1. PICK j \in 1 .. n : I(j) = k
      BY <1>5
    <3> QED
      BY <1>7, <3>1
  <2>4. In(t) \subseteq In(s)
    BY <2>1, <2>2
  <2>5. In(s) \subseteq In(t)
    BY <2>1, <2>3
  <2> QED
    BY <2>4, <2>5
<1>11. ASSUME NEW j \in 1 .. n PROVE h2.mem[t[j] + 1] = Links(t[Prv(n, j)], t[Nxt(n, j)])
  <2>0. \A k \in 1 .. n : h.mem[s[k] + 1] = Links(s[Prv(n, k)], s[Nxt(n, k)])
    BY <1>1, RingLinks DEF n
  <2>1. CASE n = 2
    <3>1. \A k \in 1 .. 2 : I(k) = k
      BY <2>1
    <3>2. \A k \in 1 .. 2 : t[k] = s[k]
      BY <1>7, <2>1, <3>1
    <3>3. Prv(2, j) \in 1 .. 2 /\ Nxt(2, j) \in 1 .. 2
      BY <2>1 DEF Prv, Nxt
    <3> QED
      BY <2>0, <2>1, <3>2, <3>3 DEF n
  <2>2. CASE n > 2
    <3>1. CASE j = 1
      <4>1. t[1] = s[1] /\ t[n] = s[2] /\ t[2] = s[3] /\ Prv(n, 1) = n /\ Nxt(n, 1) = 2
        BY <1>1, <1>7, <2>2 DEF Prv, Nxt
      <4> QED
        BY <2>2, <3>1, <4>1 DEF n
    <3>2. CASE j = n
      <4>1. t[1] = s[1] /\ t[n] = s[2] /\ t[n - 1] = s[n] /\ Prv(n, n) = n - 1 /\ Nxt(n, n) = 1
        BY <1>1, <1>7, <2>2 DEF Prv, Nxt
      <4> QED
        BY <2>2, <3>2, <4>1 DEF n
    <3>3. CASE j = 2
      <4>1. t[1] = s[1] /\ t[2] = s[3] /\ Prv(n, 2) = 1 /\ Nxt(n, 2) = 3
        BY <1>1, <1>7, <2>2 DEF Prv, Nxt
      <4>2. t[3] = IF n = 3 THEN s[2] ELSE s[4]
        BY <1>1, <1>7, <2>2
      <4> QED
        BY <2>2, <3>3, <4>1, <4>2 DEF n
    <3>4. CASE j > 2 /\ j = n - 1
      <4>1. t[j] = s[n] /\ t[n] = s[2] /\ Prv(n, j) = n - 2 /\ Nxt(n, j) = n /\ t[n - 2] = s[n - 1] /\ n > 3
        BY <1>1, <1>7, <2>2, <3>4 DEF Prv, Nxt
      <4> QED
        BY <2>2, <3>4, <4>1 DEF n
    <3>5. CASE j > 2 /\ j < n - 1
      <4>1. /\ t[j] = s[j + 1] /\ t[j - 1] = s[j] /\ t[j + 1] = s[j + 2]
            /\ Prv(n, j) = j - 1 /\ Nxt(n, j) = j + 1 /\ j + 1 \in 4 .. n - 1 /\ j + 1 \in 1 .. n
            /\ Prv(n, j + 1) = j /\ Nxt(n, j + 1) = j + 2
        <5>1. j - 1 \in 1 .. n /\ j + 1 \in 1 .. n /\ I(j) = j + 1 /\ I(j - 1) = j /\ I(j + 1) = j + 2
          BY <1>1, <3>5
        <5>2. t[j] = s[j + 1] /\ t[j - 1] = s[j] /\ t[j + 1] = s[j + 2]
          <6> HIDE DEF I
          <6> QED
            BY <1>7, <5>1
        <5>3. /\ Prv(n, j) = j - 1 /\ Nxt(n, j) = j + 1 /\ j + 1 \in 4 .. n - 1 /\ j + 1 \in 1 .. n
              /\ Prv(n, j + 1) = j /\ Nxt(n, j + 1) = j + 2
          BY <1>1, <2>2, <3>5 DEF Prv, Nxt
        <5> QED
          BY <5>2, <5>3
      <4>2. h2.mem[s[j + 1] + 1] = h.mem[s[j + 1] + 1]
        BY <2>2, <4>1 DEF n
      <4>3. h.mem[s[j + 1] + 1] = Links(s[j], s[j + 2])
        BY <2>0, <4>1
      <4> QED
        BY <4>1, <4>2, <4>3
    <3> QED
      BY <1>1, <3>1, <3>2, <3>3, <3>4, <3>5
  <2> QED
    BY <1>1, <2>1, <2>2
<1>12. Ring(h2, t)
  BY <1>8, <1>9, <1>11, RingLinks
<1>13. t[1] = s[1]
  BY <1>1, <1>7
<1> QED
  BY <1>8, <1>10, <1>12, <1>13 DEF t, n

-----------------------------------------------------------------------------
(***************************************************************************)
(* The two lists of free chunks: m is the master stack, r the recycler.    *)
(***************************************************************************)
Lists(h, m, r) ==
  /\ Dll(h, m, 1) /\ h.master_head = At(m, 1)
  /\ Ring(h, r) /\ h.recycler_head = At(r, 1)
  /\ In(m) \cap In(r) = {}
  /\ \A x \in In(m) \cup In(r) : x + 1 \in Address

Filed(m, r) == In(m) \cup In(r)

(* The step from h to h2 writes at most the free headers of X.             *)
Touches(h, h2, X) ==
  /\ Shaped(h2) /\ h2.os = h.os /\ h2.block_list = h.block_list
  /\ \A a \in Address : a - 1 \notin X => h2.mem[a] = h.mem[a]

LEMMA FirstIs ==
  ASSUME NEW s, Distinct(s)
  PROVE  /\ At(s, 1) # 0 <=> Len(s) >= 1
         /\ Len(s) >= 1 => At(s, 1) = s[1] /\ s[1] \in In(s) /\ 1 \in 1 .. Len(s)
         /\ Len(s) >= 1 \/ Len(s) = 0
<1>1. Len(s) \in Nat /\ \A j \in 1 .. Len(s) : s[j] # 0 /\ s[j] \in In(s)
  BY Members, AddressPositive
<1> QED
  BY <1>1 DEF At

LEMMA EmptyIs ==
  ASSUME NEW s, Distinct(s), Len(s) = 0
  PROVE  In(s) = {}
BY DEF In

LEMMA OneIs ==
  ASSUME NEW x \in Address
  PROVE  LET s == [j \in 1 .. 1 |-> x]
         IN  Distinct(s) /\ Len(s) = 1 /\ In(s) = {x} /\ s[1] = x
<1> DEFINE s == [j \in 1 .. 1 |-> x]
<1>1. s \in [1 .. 1 -> Address] /\ 1 \in Nat
  OBVIOUS
<1>2. s \in Seq(Address) /\ Len(s) = 1
  BY <1>1, IsSeq
<1>3. \A j \in 1 .. 1 : j = 1 /\ s[j] = x
  OBVIOUS
<1>4. 1 \in 1 .. 1
  OBVIOUS
<1> HIDE DEF s
<1>5. In(s) = {x}
  BY <1>2, <1>3, <1>4 DEF In
<1>6. Distinct(s)
  BY <1>2, <1>3 DEF Distinct
<1> QED
  BY <1>2, <1>3, <1>4, <1>5, <1>6 DEF s

LEMMA AddIs ==
  ASSUME NEW h, Shaped(h), NEW m, NEW r, Lists(h, m, r), NEW c \in Address, c + 1 \in Address,
         c \notin Filed(m, r), HasRoom(h, c)
  PROVE  /\ Touches(h, AddToRecycler(h, c), Filed(m, r) \cup {c})
         /\ \E r2 : Lists(AddToRecycler(h, c), m, r2) /\ In(r2) = In(r) \cup {c}
<1> DEFINE g == AddToRecycler(h, c)
           n == Len(r)
<1>0. /\ Distinct(r) /\ Distinct(m) /\ n \in Nat /\ Ring(h, r) /\ Dll(h, m, 1)
      /\ h.recycler_head = At(r, 1) /\ h.master_head = At(m, 1)
      /\ In(m) \cap In(r) = {} /\ \A x \in In(m) \cup In(r) : x + 1 \in Address
  BY Members DEF Lists, Ring, Dll
<1>1. \A x \in Address : x \in Nat
  BY AddressPositive
<1>2. \A x, y \in Address : x + 1 = y + 1 => x = y
  BY <1>1
<1>3. \A x \in In(m) : x \in Address /\ x # c /\ x \notin In(r)
  BY <1>0, Members DEF Filed
<1>4. \A x \in In(r) : x \in Address /\ x # c /\ x + 1 \in Address
  BY <1>0, Members DEF Filed
<1>5. CASE n = 0
  <2> DEFINE h1 == [h EXCEPT !.mem[c + 1] = Links(c, c)]
             s == [j \in 1 .. 1 |-> c]
  <2>1. Wrote(h, h1, c + 1, Links(c, c))
    BY CellSet
  <2>2. h.recycler_head = 0
    BY <1>0, <1>5, FirstIs
  <2>3. g = [h1 EXCEPT !.recycler_head = c]
    BY <2>2 DEF AddToRecycler, Null
  <2> HIDE DEF h1, g, s
  <2>4. RecyclerSet(h1, g, c)
    BY <2>1, <2>3, HeadSet DEF Wrote
  <2>5. /\ g.mem[c + 1] = Links(c, c) /\ Shaped(g) /\ g.os = h.os /\ g.block_list = h.block_list
        /\ g.master_head = h.master_head /\ g.recycler_head = c
        /\ \A a \in Address : a # c + 1 => g.mem[a] = h.mem[a]
    BY <2>1, <2>4 DEF Wrote, RecyclerSet
  <2>6. Distinct(s) /\ Len(s) = 1 /\ In(s) = {c} /\ s[1] = c
    BY OneIs DEF s
  <2>7. Ring(g, s)
    <3>1. \A j \in 1 .. 1 : j = 1
      OBVIOUS
    <3>2. Around(s, 0) = c /\ Around(s, 2) = c
      BY <2>6 DEF Around
    <3>3. \A j \in 1 .. Len(s) : g.mem[s[j] + 1] = Links(Around(s, j - 1), Around(s, j + 1))
      BY <2>5, <2>6, <3>1, <3>2
    <3> QED
      BY <2>6, <3>3 DEF Ring
  <2>8. \A x \in In(m) : g.mem[x + 1] = h.mem[x + 1]
    BY <1>0, <1>2, <1>3, <2>5
  <2>9. Dll(g, m, 1)
    BY <1>0, <2>8, DllSame
  <2>10. At(s, 1) = c
    BY <2>6 DEF At
  <2>11. Lists(g, m, s)
    BY <1>0, <1>3, <2>5, <2>6, <2>7, <2>9, <2>10 DEF Lists
  <2>12. In(s) = In(r) \cup {c}
    BY <1>0, <1>5, <2>6, EmptyIs
  <2>13. Touches(h, g, Filed(m, r) \cup {c})
    <3>1. \A a \in Address : a - 1 # c => a # c + 1
      BY <1>1
    <3> QED
      BY <2>5, <3>1 DEF Touches
  <2> QED
    BY <2>11, <2>12, <2>13 DEF g
<1>6. CASE n >= 1
  <2> DEFINE a == r[1]
             z == r[n]
             h1 == [h EXCEPT !.mem[c + 1] = Links(z, a)]
             h2 == [h1 EXCEPT !.mem[a + 1].prev = c]
             h3 == [h2 EXCEPT !.mem[z + 1].next = c]
             big == h.mem[c].len > h.mem[a].len
  <2>1. /\ 1 \in 1 .. n /\ n \in 1 .. n /\ a \in In(r) /\ z \in In(r)
        /\ h.recycler_head = a /\ a # 0
    <3>1. 1 \in 1 .. n /\ n \in 1 .. n
      BY <1>0, <1>6
    <3> QED
      BY <1>0, <1>6, <3>1, FirstIs DEF In
  <2>2. \A j \in 1 .. n : h.mem[r[j] + 1] = Links(r[Prv(n, j)], r[Nxt(n, j)])
    BY <1>0, RingLinks
  <2>3. h.mem[a + 1] = Links(z, r[Nxt(n, 1)])
    BY <2>1, <2>2 DEF Prv
  <2>4. GetFree(h, a).prev = z
    BY <2>3 DEF GetFree, Links
  <2>5. g = [h3 EXCEPT !.recycler_head = IF big THEN c ELSE a]
    <3>1. g = [h EXCEPT !.mem[c + 1] = Links(z, a), !.mem[a + 1].prev = c,
                        !.mem[z + 1].next = c, !.recycler_head = IF big THEN c ELSE a]
      BY <2>1, <2>4 DEF AddToRecycler, Null
    <3> QED
      BY <3>1
  <2>6. Wrote(h, h1, c + 1, Links(z, a))
    BY CellSet
  <2>7. a + 1 \in Address /\ z + 1 \in Address /\ a + 1 # c + 1 /\ z + 1 # c + 1
        /\ (a + 1 = z + 1 => a = z) /\ a \in Address /\ z \in Address
    BY <1>1, <1>4, <2>1
  <2> HIDE DEF h1, h2, h3, g, a, z, big
  <2>8. h1.mem[a + 1] = Links(z, r[Nxt(n, 1)])
    BY <2>3, <2>6, <2>7 DEF Wrote
  <2>9. Wrote(h1, h2, a + 1, Links(c, r[Nxt(n, 1)]))
    BY <2>6, <2>7, <2>8, PrevSet DEF Wrote, h2
  <2> DEFINE y == IF n = 1 THEN c ELSE r[Prv(n, n)]
             w == IF n = 1 THEN Links(c, c) ELSE Links(r[Prv(n, n)], c)
  <2>10. h2.mem[z + 1] = Links(y, a)
    <3>1. CASE n = 1
      <4>1. a = z /\ Nxt(n, 1) = 1
        BY <3>1 DEF a, z, Nxt
      <4> QED
        BY <2>9, <3>1, <4>1 DEF Wrote, a
    <3>2. CASE n # 1
      <4>1. a # z
        BY <1>0, <2>1, <3>2 DEF a, z, Distinct
      <4>2. h2.mem[z + 1] = h.mem[z + 1]
        BY <2>6, <2>7, <2>9, <4>1 DEF Wrote
      <4>3. h.mem[z + 1] = Links(r[Prv(n, n)], r[Nxt(n, n)])
        BY <2>1, <2>2 DEF z
      <4> QED
        BY <3>2, <4>2, <4>3 DEF a, Nxt
    <3> QED
      BY <3>1, <3>2
  <2>11. Wrote(h2, h3, z + 1, Links(y, c))
    BY <2>7, <2>9, <2>10, NextSet DEF Wrote, h3
  <2> HIDE DEF y, w
  <2>12. RecyclerSet(h3, g, IF big THEN c ELSE a)
    BY <2>5, <2>11, HeadSet DEF Wrote
  <2>13. /\ Shaped(g) /\ g.os = h.os /\ g.block_list = h.block_list /\ g.master_head = h.master_head
         /\ g.recycler_head = (IF big THEN c ELSE a)
         /\ g.mem[c + 1] = Links(z, a) /\ g.mem[z + 1] = Links(y, c)
         /\ a # z => g.mem[a + 1] = Links(c, r[Nxt(n, 1)])
         /\ \A x \in Address : x \notin {c + 1, a + 1, z + 1} => g.mem[x] = h.mem[x]
    BY <2>6, <2>7, <2>9, <2>11, <2>12 DEF Wrote, RecyclerSet
  <2>14. Ring(g, Trail(r, c)) /\ In(Trail(r, c)) = In(r) \cup {c} /\ Trail(r, c)[1] = a
         /\ Trail(r, c)[n + 1] = c /\ Len(Trail(r, c)) = n + 1
    <3>1. c \notin In(r)
      BY DEF Filed
    <3>2. g.mem[r[1] + 1] = Links(c, IF n = 1 THEN c ELSE Around(r, 2))
      <4>1. CASE n = 1
        <5>1. a = z /\ y = c
          BY <4>1 DEF a, z, y
        <5> QED
          BY <2>13, <4>1, <5>1 DEF a
      <4>2. CASE n # 1
        <5>1. a # z
          BY <1>0, <2>1, <4>2 DEF a, z, Distinct
        <5>0. \A j \in 1 .. n : Around(r, j + 1) = r[Nxt(n, j)]
          BY <1>0, RingLinks
        <5>2. Around(r, 1 + 1) = r[Nxt(n, 1)] /\ 1 + 1 = 2
          BY <2>1, <5>0
        <5> QED
          BY <2>13, <4>2, <5>1, <5>2 DEF a
      <4> QED
        BY <4>1, <4>2
    <3>a. ASSUME n # 1 PROVE g.mem[r[n] + 1] = Links(Around(r, n - 1), c)
      <4>0. \A j \in 1 .. n : Around(r, j - 1) = r[Prv(n, j)]
        BY <1>0, RingLinks
      <4>1. y = r[Prv(n, n)] /\ Around(r, n - 1) = r[Prv(n, n)]
        BY <2>1, <3>a, <4>0 DEF y
      <4> QED
        BY <2>13, <4>1 DEF z
    <3>3. n > 1 => g.mem[r[n] + 1] = Links(Around(r, n - 1), c)
      BY <1>6, <3>a
    <3>4. \A j \in 2 .. n - 1 : g.mem[r[j] + 1] = h.mem[r[j] + 1]
      <4> TAKE j \in 2 .. n - 1
      <4>1. j \in 1 .. n /\ j # 1 /\ j # n
        BY <1>0
      <4>2. r[j] \in In(r) /\ r[j] # a /\ r[j] # z
        BY <1>0, <2>1, <4>1 DEF a, z, Distinct, In
      <4> QED
        BY <1>2, <1>4, <2>7, <2>13, <4>2
    <3>5. g.mem[c + 1] = Links(r[n], r[1])
      BY <2>13 DEF a, z
    <3> QED
      BY <1>0, <1>6, <3>1, <3>2, <3>3, <3>4, <3>5, RingTrail DEF a
  <2>15. \A x \in In(m) : g.mem[x + 1] = h.mem[x + 1]
    BY <1>0, <1>2, <1>3, <1>4, <2>1, <2>7, <2>13
  <2>16. Dll(g, m, 1)
    BY <1>0, <2>15, DllSame
  <2>17. Touches(h, g, Filed(m, r) \cup {c})
    <3>1. \A x \in Address : x - 1 \notin {c, a, z} => x \notin {c + 1, a + 1, z + 1}
      BY <1>1, <2>7
    <3>2. a \in Filed(m, r) /\ z \in Filed(m, r)
      BY <2>1 DEF Filed
    <3> QED
      BY <2>13, <3>1, <3>2 DEF Touches
  <2>18. \E r2 : Lists(g, m, r2) /\ In(r2) = In(r) \cup {c}
    <3> DEFINE t == Trail(r, c)
    <3>0. n + 1 >= 1 /\ \A x \in In(m) \cup (In(r) \cup {c}) : x + 1 \in Address
      BY <1>0
    <3>1. CASE big
      <4>1. Ring(g, Back(t)) /\ In(Back(t)) = In(t) /\ Len(Back(t)) = Len(t) /\ Back(t)[1] = t[Len(t)]
        BY <2>14, <3>0, BackIs
      <4>2. At(Back(t), 1) = c
        BY <2>14, <3>0, <4>1, FirstIs DEF Ring
      <4>3. Lists(g, m, Back(t))
        BY <1>0, <1>3, <2>13, <2>14, <2>16, <3>0, <3>1, <4>1, <4>2 DEF Lists
      <4> QED
        BY <2>14, <4>1, <4>3
    <3>2. CASE ~big
      <4>2. At(t, 1) = a
        BY <2>14, <3>0, FirstIs DEF Ring
      <4>3. Lists(g, m, t)
        BY <1>0, <1>3, <2>13, <2>14, <2>16, <3>0, <3>2, <4>2 DEF Lists
      <4> QED
        BY <2>14, <4>3
    <3> QED
      BY <3>1, <3>2
  <2> QED
    BY <2>17, <2>18 DEF g
<1> QED
  BY <1>0, <1>5, <1>6

LEMMA ListsFacts ==
  ASSUME NEW h, Shaped(h), NEW m, NEW r, Lists(h, m, r)
  PROVE  /\ Distinct(r) /\ Distinct(m) /\ Len(r) \in Nat /\ Len(m) \in Nat
         /\ Ring(h, r) /\ Dll(h, m, 1) /\ h.recycler_head = At(r, 1) /\ h.master_head = At(m, 1)
         /\ \A x \in In(m) : x \in Address /\ x + 1 \in Address /\ x \notin In(r)
         /\ \A x \in In(r) : x \in Address /\ x + 1 \in Address /\ x \notin In(m)
         /\ \A x, y \in Address : x + 1 = y + 1 => x = y
<1>1. \A x, y \in Address : x + 1 = y + 1 => x = y
  BY AddressPositive
<1> QED
  BY <1>1, Members DEF Lists, Ring, Dll

(* A step that leaves the master list alone, and one that leaves the       *)
(* recycler alone.                                                         *)
LEMMA RingStep ==
  ASSUME NEW h, Shaped(h), NEW m, NEW r, Lists(h, m, r), NEW g, NEW q, Ring(g, q),
         g.master_head = h.master_head, g.recycler_head = At(q, 1),
         \A x \in In(q) : x + 1 \in Address /\ x \notin In(m),
         \A x \in In(m) : g.mem[x + 1] = h.mem[x + 1]
  PROVE  Lists(g, m, q)
<1>1. Dll(g, m, 1)
  BY DllSame DEF Lists
<1> QED
  BY <1>1 DEF Lists

LEMMA MasterStep ==
  ASSUME NEW h, Shaped(h), NEW m, NEW r, Lists(h, m, r), NEW g, NEW q, Dll(g, q, 1),
         g.recycler_head = h.recycler_head, g.master_head = At(q, 1),
         \A x \in In(q) : x + 1 \in Address /\ x \notin In(r),
         \A x \in In(r) : g.mem[x + 1] = h.mem[x + 1]
  PROVE  Lists(g, q, r)
<1>1. Ring(g, r)
  BY RingSame DEF Lists
<1> QED
  BY <1>1 DEF Lists

LEMMA Indices ==
  ASSUME NEW n \in Nat, NEW p \in 1 .. n
  PROVE  /\ Prv(n, p) \in 1 .. n /\ Nxt(n, p) \in 1 .. n
         /\ \A j \in 1 .. n : (Nxt(n, j) = p <=> j = Prv(n, p)) /\ (Prv(n, j) = p <=> j = Nxt(n, p))
         /\ Nxt(n, Prv(n, p)) = p /\ Prv(n, Nxt(n, p)) = p
         /\ n > 1 => Prv(n, p) # p /\ Nxt(n, p) # p
         /\ n = 1 => Prv(n, p) = p /\ Nxt(n, p) = p
BY DEF Prv, Nxt

LEMMA NoneIs == Distinct(<< >>) /\ Len(<< >>) = 0 /\ In(<< >>) = {} /\ At(<< >>, 1) = 0
BY DEF Distinct, In, At

(* The links of the p-th of a ring.                                        *)
LEMMA RingAt ==
  ASSUME NEW h, Shaped(h), NEW r, Ring(h, r), NEW p \in 1 .. Len(r)
  PROVE  /\ r[p] \in In(r) /\ r[Prv(Len(r), p)] \in In(r) /\ r[Nxt(Len(r), p)] \in In(r)
         /\ GetFree(h, r[p]) = Links(r[Prv(Len(r), p)], r[Nxt(Len(r), p)])
         /\ GetFree(h, r[p]).prev = r[Prv(Len(r), p)] /\ GetFree(h, r[p]).next = r[Nxt(Len(r), p)]
         /\ h.mem[r[p] + 1] = Links(r[Prv(Len(r), p)], r[Nxt(Len(r), p)])
<1>1. Distinct(r) /\ Len(r) \in Nat
  BY Members DEF Ring
<1>2. Prv(Len(r), p) \in 1 .. Len(r) /\ Nxt(Len(r), p) \in 1 .. Len(r)
  BY <1>1, Indices
<1>3. \A j \in 1 .. Len(r) : h.mem[r[j] + 1] = Links(r[Prv(Len(r), j)], r[Nxt(Len(r), j)])
  BY <1>1, RingLinks
<1>4. h.mem[r[p] + 1] = Links(r[Prv(Len(r), p)], r[Nxt(Len(r), p)])
  BY <1>3
<1>5. r[p] \in In(r) /\ r[Prv(Len(r), p)] \in In(r) /\ r[Nxt(Len(r), p)] \in In(r)
  BY <1>2 DEF In
<1> QED
  BY <1>4, <1>5 DEF GetFree, Links

(* c, the p-th of two or more, is no longer linked to.                     *)
Bypassed(h, g, r, p) ==
  LET n == Len(r)
      P == Prv(n, p)
      N == Nxt(n, p)
  IN  /\ Shaped(g) /\ g.os = h.os /\ g.block_list = h.block_list
      /\ g.master_head = h.master_head
      /\ g.recycler_head = IF h.recycler_head = r[p] THEN r[N] ELSE h.recycler_head
      /\ P # N => g.mem[r[P] + 1] = Links(r[Prv(n, P)], r[N])
      /\ g.mem[r[N] + 1] = IF P = N THEN Links(r[P], r[N]) ELSE Links(r[P], r[Nxt(n, N)])
      /\ \A d \in Address : d # r[P] + 1 /\ d # r[N] + 1 => g.mem[d] = h.mem[d]

LEMMA BypassIs ==
  ASSUME NEW h, Shaped(h), NEW m, NEW r, Lists(h, m, r), NEW p \in 1 .. Len(r), Len(r) > 1,
         NEW g, Bypassed(h, g, r, p)
  PROVE  /\ Touches(h, g, Filed(m, r))
         /\ \E r2 : Lists(g, m, r2) /\ In(r2) = In(r) \ {r[p]}
<1> DEFINE n == Len(r)
           c == r[p]
           P == Prv(n, p)
           N == Nxt(n, p)
           a == r[P]
           z == r[N]
           x == IF h.recycler_head = c THEN z ELSE h.recycler_head
           w == IF P = N THEN Links(a, z) ELSE Links(a, r[Nxt(n, N)])
<1>0. /\ Distinct(r) /\ n \in Nat /\ Ring(h, r) /\ h.recycler_head = At(r, 1)
      /\ \A q \in In(m) : q \in Address /\ q + 1 \in Address /\ q \notin In(r)
      /\ \A q \in In(r) : q \in Address /\ q + 1 \in Address /\ q \notin In(m)
      /\ \A q, y \in Address : q + 1 = y + 1 => q = y
  BY ListsFacts
<1>1. r[p] = c
  OBVIOUS
<1>2. /\ P \in 1 .. n /\ N \in 1 .. n
      /\ \A j \in 1 .. n : (Nxt(n, j) = p <=> j = P) /\ (Prv(n, j) = p <=> j = N)
      /\ Nxt(n, P) = p /\ Prv(n, N) = p
      /\ (n > 1 => P # p /\ N # p) /\ (n = 1 => P = p /\ N = p)
  BY <1>0, Indices
<1>3. \A j \in 1 .. n : h.mem[r[j] + 1] = Links(r[Prv(n, j)], r[Nxt(n, j)])
  BY <1>0, RingLinks
<1>4. GetFree(h, c).prev = a /\ GetFree(h, c).next = z /\ a \in In(r) /\ z \in In(r)
  BY <1>0, <1>1, RingAt
<1>5. n \in Nat /\ n >= 1
  BY <1>0
<1>6. h.recycler_head = r[1] /\ 1 \in 1 .. n /\ r[1] \in In(r)
  BY <1>0, <1>5, FirstIs
<1>7. \A j, k \in 1 .. n : r[j] = r[k] => j = k
  BY <1>0 DEF Distinct
<1>9. n > 1
  OBVIOUS
<1>10. /\ a + 1 \in Address /\ z + 1 \in Address /\ a \in Address /\ z \in Address
       /\ (a + 1 = z + 1 <=> P = N)
  BY <1>0, <1>2, <1>4, <1>7
<1>11. /\ Shaped(g) /\ g.recycler_head = x /\ g.master_head = h.master_head
       /\ g.os = h.os /\ g.block_list = h.block_list
       /\ P # N => g.mem[a + 1] = Links(r[Prv(n, P)], z)
       /\ g.mem[z + 1] = w
       /\ \A d \in Address : d # a + 1 /\ d # z + 1 => g.mem[d] = h.mem[d]
  BY DEF Bypassed
<1>27. \A j \in 1 .. n : j # p => g.mem[r[j] + 1] =
         Links(r[IF Prv(n, j) = p THEN P ELSE Prv(n, j)], r[IF Nxt(n, j) = p THEN N ELSE Nxt(n, j)])
  <2> TAKE j \in 1 .. n
  <2> HAVE j # p
  <2> HIDE DEF P, N
  <2>1. CASE j = P /\ j # N
    <3>1. Nxt(n, j) = p /\ Prv(n, j) # p
      BY <1>2, <2>1
    <3> QED
      BY <1>11, <2>1, <3>1
  <2>2. CASE j = N /\ j # P
    <3>1. Nxt(n, j) # p /\ Prv(n, j) = p
      BY <1>2, <2>2
    <3> QED
      BY <1>11, <2>2, <3>1
  <2>3. CASE j = N /\ j = P
    <3>1. Nxt(n, j) = p /\ Prv(n, j) = p
      BY <1>2, <2>3
    <3> QED
      BY <1>11, <2>3, <3>1
  <2>4. CASE j # N /\ j # P
    <3>1. Nxt(n, j) # p /\ Prv(n, j) # p
      BY <1>2, <2>4
    <3>2. r[j] # a /\ r[j] # z /\ r[j] \in In(r)
      BY <1>2, <1>7, <2>4 DEF In
    <3>3. g.mem[r[j] + 1] = h.mem[r[j] + 1]
      BY <1>0, <1>10, <1>11, <3>2
    <3> QED
      BY <1>3, <3>1, <3>3
  <2> QED
    BY <2>1, <2>2, <2>3, <2>4
<1>28. Ring(g, Drop(r, p)) /\ In(Drop(r, p)) = In(r) \ {c}
      /\ At(Drop(r, p), 1) = IF p = 1 THEN z ELSE r[1]
  <2>1. n >= 2
    BY <1>0, <1>9
  <2>2. /\ Ring(g, Drop(r, p)) /\ In(Drop(r, p)) = In(r) \ {r[p]}
        /\ At(Drop(r, p), 1) = IF p = 1 THEN r[Nxt(n, 1)] ELSE r[1]
    BY <1>0, <1>27, <2>1, RingDrop
  <2> QED
    BY <1>1, <2>2
<1>29. x = IF p = 1 THEN z ELSE r[1]
  BY <1>1, <1>6, <1>7
<1>30. \A y \in In(m) : g.mem[y + 1] = h.mem[y + 1]
  BY <1>0, <1>4, <1>10, <1>11
<1>31. Lists(g, m, Drop(r, p))
  BY <1>0, <1>11, <1>28, <1>29, <1>30, RingStep
<1>32. Touches(h, g, Filed(m, r))
  <2>1. \A d \in Address : d - 1 # a /\ d - 1 # z => d # a + 1 /\ d # z + 1
    BY <1>10, AddressPositive
  <2> QED
    BY <1>4, <1>11, <2>1 DEF Touches, Filed
<1> QED
  BY <1>28, <1>31, <1>32

(* RemoveFromRecycler.                                                     *)
LEMMA RemoveIs ==
  ASSUME NEW h, Shaped(h), NEW m, NEW r, Lists(h, m, r), NEW c \in In(r)
  PROVE  /\ Touches(h, RemoveFromRecycler(h, c), Filed(m, r))
         /\ \E r2 : Lists(RemoveFromRecycler(h, c), m, r2) /\ In(r2) = In(r) \ {c}
<1> DEFINE g == RemoveFromRecycler(h, c)
           n == Len(r)
<1>0. /\ Distinct(r) /\ n \in Nat /\ Ring(h, r) /\ h.recycler_head = At(r, 1)
      /\ \A x \in In(m) : x \in Address /\ x + 1 \in Address /\ x \notin In(r)
      /\ \A x \in In(r) : x \in Address /\ x + 1 \in Address /\ x \notin In(m)
      /\ \A x, y \in Address : x + 1 = y + 1 => x = y
  BY ListsFacts
<1>1. PICK p \in 1 .. n : r[p] = c
  BY DEF In
<1> DEFINE P == Prv(n, p)
           N == Nxt(n, p)
           a == r[P]
           z == r[N]
<1>2. /\ P \in 1 .. n /\ N \in 1 .. n
      /\ \A j \in 1 .. n : (Nxt(n, j) = p <=> j = P) /\ (Prv(n, j) = p <=> j = N)
      /\ Nxt(n, P) = p /\ Prv(n, N) = p
      /\ (n > 1 => P # p /\ N # p) /\ (n = 1 => P = p /\ N = p)
  BY <1>0, Indices
<1>3. \A j \in 1 .. n : h.mem[r[j] + 1] = Links(r[Prv(n, j)], r[Nxt(n, j)])
  BY <1>0, RingLinks
<1>4. GetFree(h, c).prev = a /\ GetFree(h, c).next = z /\ a \in In(r) /\ z \in In(r)
  BY <1>0, <1>1, RingAt
<1>5. n \in Nat /\ n >= 1
  BY <1>0
<1>6. h.recycler_head = r[1] /\ 1 \in 1 .. n /\ r[1] \in In(r)
  BY <1>0, <1>5, FirstIs
<1>7. \A j, k \in 1 .. n : r[j] = r[k] => j = k
  BY <1>0 DEF Distinct
<1>8. CASE n = 1
  <2>1. g = [h EXCEPT !.recycler_head = 0]
    BY <1>1, <1>2, <1>4, <1>8 DEF RemoveFromRecycler, Null
  <2>2. RecyclerSet(h, g, 0)
    BY <2>1, HeadSet
  <2> HIDE DEF g
  <2>3. /\ Shaped(g) /\ g.mem = h.mem /\ g.recycler_head = 0 /\ g.master_head = h.master_head
        /\ g.os = h.os /\ g.block_list = h.block_list
    BY <2>2 DEF RecyclerSet
  <2>4. Ring(g, << >>)
    BY NoneIs DEF Ring
  <2>5. Lists(g, m, << >>)
    BY <2>3, <2>4, NoneIs, RingStep
  <2>6. In(r) = {c}
    BY <1>0, <1>1, <1>8 DEF In
  <2> QED
    BY <2>3, <2>5, <2>6, NoneIs DEF g, Touches
<1>9. CASE n > 1
  <2> DEFINE h1 == [h EXCEPT !.mem[a + 1].next = z]
             h2 == [h1 EXCEPT !.mem[z + 1].prev = a]
             x == IF h.recycler_head = c THEN z ELSE h.recycler_head
  <2>0. g = [h2 EXCEPT !.recycler_head = x]
    <3>1. a # c
      BY <1>1, <1>2, <1>7, <1>9
    <3>2. g = [h EXCEPT !.mem[a + 1].next = z, !.mem[z + 1].prev = a, !.recycler_head = x]
      BY <1>4, <3>1 DEF RemoveFromRecycler
    <3> QED
      BY <3>2
  <2>1. /\ a + 1 \in Address /\ z + 1 \in Address /\ a \in Address /\ z \in Address
        /\ (a + 1 = z + 1 <=> P = N)
    BY <1>0, <1>2, <1>4, <1>7
  <2>2. /\ h.mem[a + 1] = Links(r[Prv(n, P)], c)
        /\ h.mem[z + 1] = Links(c, r[Nxt(n, N)])
    BY <1>1, <1>2, <1>3
  <2>3. Wrote(h, h1, a + 1, Links(r[Prv(n, P)], z))
    BY <2>1, <2>2, NextSet
  <2> DEFINE w == IF P = N THEN Links(a, z) ELSE Links(a, r[Nxt(n, N)])
  <2> HIDE DEF h1, h2, g
  <2>4. Wrote(h1, h2, z + 1, w)
    <3>1. CASE P = N
      <4>1. h1.mem[z + 1] = Links(r[Prv(n, P)], z)
        BY <2>3, <3>1 DEF Wrote
      <4>2. w = Links(a, z)
        BY <3>1
      <4>3. Shaped(h1)
        BY <2>3 DEF Wrote
      <4> HIDE DEF w
      <4> QED
        BY <2>1, <4>1, <4>2, <4>3, PrevSet DEF h2
    <3>2. CASE P # N
      <4>1. h1.mem[z + 1] = Links(c, r[Nxt(n, N)])
        BY <2>1, <2>2, <2>3, <3>2 DEF Wrote
      <4>2. w = Links(a, r[Nxt(n, N)])
        BY <3>2
      <4>3. Shaped(h1)
        BY <2>3 DEF Wrote
      <4> HIDE DEF w
      <4> QED
        BY <2>1, <4>1, <4>2, <4>3, PrevSet DEF h2
    <3> QED
      BY <3>1, <3>2
  <2>5. RecyclerSet(h2, g, x)
    BY <2>0, <2>4, HeadSet DEF Wrote
  <2>6. /\ Shaped(g) /\ g.recycler_head = x /\ g.master_head = h.master_head
        /\ g.os = h.os /\ g.block_list = h.block_list
        /\ P # N => g.mem[a + 1] = Links(r[Prv(n, P)], z)
        /\ g.mem[z + 1] = w
        /\ \A d \in Address : d # a + 1 /\ d # z + 1 => g.mem[d] = h.mem[d]
    <3> HIDE DEF w
    <3> QED
      BY <2>1, <2>3, <2>4, <2>5 DEF Wrote, RecyclerSet
  <2>7. Bypassed(h, g, r, p)
    BY <1>1, <2>6 DEF Bypassed
  <2>8. n > 1
    BY <1>9
  <2>9. /\ Touches(h, g, Filed(m, r))
        /\ \E r2 : Lists(g, m, r2) /\ In(r2) = In(r) \ {r[p]}
    <3> HIDE DEF a, z, P, N, x, w
    <3> QED
      BY <2>7, <2>8, BypassIs
  <2> QED
    BY <1>1, <2>9 DEF g
<1>10. n = 1 \/ n > 1
  <2>1. n \in Nat /\ n >= 1
    BY <1>5
  <2> HIDE DEF n
  <2> QED
    BY <2>1
<1> QED
  BY <1>8, <1>9, <1>10

(* CycleRecycler: the larger of the first two becomes the head, the other  *)
(* one goes to the end.                                                    *)
Cycled(h, r, q) ==
  /\ Len(q) = Len(r)
  /\ Len(r) >= 1 => q[1] = IF h.mem[r[Nxt(Len(r), 1)]].len < h.mem[r[1]].len
                           THEN r[1] ELSE r[Nxt(Len(r), 1)]
  /\ \A j \in 2 .. Len(r) - 1 : q[j] = r[j + 1]

LEMMA CycleIs ==
  ASSUME NEW h, Shaped(h), NEW m, NEW r, Lists(h, m, r), \A x \in In(r) : h.mem[x].len \in Nat
  PROVE  /\ Touches(h, CycleRecycler(h), Filed(m, r))
         /\ \E r2 : Lists(CycleRecycler(h), m, r2) /\ In(r2) = In(r) /\ Cycled(h, r, r2)
<1> DEFINE g == CycleRecycler(h)
           n == Len(r)
<1>0. /\ Distinct(r) /\ Ring(h, r) /\ h.recycler_head = At(r, 1)
      /\ \A x \in In(m) : x \in Address /\ x + 1 \in Address /\ x \notin In(r)
      /\ \A x \in In(r) : x \in Address /\ x + 1 \in Address /\ x \notin In(m)
      /\ \A x, y \in Address : x + 1 = y + 1 => x = y
  BY ListsFacts
<1>1. n \in Nat
  BY ListsFacts
<1>2. CASE n = 0
  <2>1. h.recycler_head = 0
    BY <1>0, <1>2, FirstIs
  <2>2. g = h
    BY <2>1 DEF CycleRecycler, Null
  <2>3. ~(n >= 1) /\ ~\E j \in 2 .. n - 1 : TRUE
    BY <1>2
  <2>4. Cycled(h, r, r)
    BY <2>3 DEF Cycled
  <2> QED
    BY <2>2, <2>4 DEF Touches
<1>3. CASE n >= 1
  <2>1. 1 \in 1 .. n /\ n \in 1 .. n /\ Prv(n, 1) = n
    BY <1>1, <1>3 DEF Prv
  <2>2. h.recycler_head = r[1] /\ r[1] # 0 /\ r[1] \in In(r)
    BY <1>0, <1>3, FirstIs
  <2>3. /\ GetFree(h, r[1]).prev = r[n] /\ GetFree(h, r[1]).next = r[Nxt(n, 1)]
        /\ r[n] \in In(r) /\ r[Nxt(n, 1)] \in In(r)
    BY <1>0, <2>1, RingAt
  <2> DEFINE small == h.mem[r[Nxt(n, 1)]].len < h.mem[r[1]].len
  <2>4. CASE ~small
    <3>1. g = [h EXCEPT !.recycler_head = r[Nxt(n, 1)]]
      BY <2>2, <2>3, <2>4 DEF CycleRecycler, Null
    <3>2. RecyclerSet(h, g, r[Nxt(n, 1)])
      BY <3>1, HeadSet
    <3> HIDE DEF g
    <3>3. /\ Shaped(g) /\ g.os = h.os /\ g.block_list = h.block_list /\ g.mem = h.mem
          /\ g.master_head = h.master_head /\ g.recycler_head = r[Nxt(n, 1)]
      BY <3>2 DEF RecyclerSet
    <3>4. Ring(h, Turn(r)) /\ In(Turn(r)) = In(r) /\ Len(Turn(r)) = n /\ Turn(r)[1] = Around(r, 2)
      BY <1>0, <1>3, TurnIs
    <3>5. Around(r, 2) = r[Nxt(n, 1)]
      <4>1. \A j \in 1 .. n : Around(r, j + 1) = r[Nxt(n, j)]
        BY <1>0, RingLinks
      <4>2. Around(r, 1 + 1) = r[Nxt(n, 1)] /\ 1 + 1 = 2
        BY <2>1, <4>1
      <4> QED
        BY <4>2
    <3>6. Ring(g, Turn(r))
      BY <3>3, <3>4 DEF Ring
    <3>7. At(Turn(r), 1) = r[Nxt(n, 1)]
      BY <1>3, <3>4, <3>5, FirstIs DEF Ring
    <3>8. Lists(g, m, Turn(r))
      BY <1>0, <3>3, <3>4, <3>6, <3>7, RingStep
    <3>9. Cycled(h, r, Turn(r))
      <4>1. \A j \in 2 .. n - 1 : j \in 1 .. n /\ j + 1 \in 1 .. n /\ j + 1 # 0 /\ j + 1 # n + 1
        BY <1>1
      <4>2. \A j \in 2 .. n - 1 : Turn(r)[j] = r[j + 1]
        BY <4>1 DEF Turn, Around
      <4> QED
        BY <2>4, <3>4, <3>5, <4>2 DEF Cycled
    <3> QED
      BY <3>3, <3>4, <3>8, <3>9 DEF g, Touches
  <2>5. CASE small
    <3>1. n >= 2
      <4> SUFFICES ASSUME n = 1 PROVE FALSE
        <5> HIDE DEF n
        <5> QED
          BY <1>1, <1>3
      <4>1. Nxt(n, 1) = 1 /\ h.mem[r[1]].len \in Nat
        BY <2>2 DEF Nxt
      <4> QED
        BY <2>5, <4>1
    <3>2. /\ 2 \in 1 .. n /\ Nxt(n, 1) = 2
      BY <1>1, <3>1 DEF Nxt
    <3> DEFINE c == r[1]
               b == r[2]
               p == r[n]
               u1 == [h EXCEPT !.mem[b + 1].prev = p]
               u2 == [u1 EXCEPT !.mem[p + 1].next = b]
               nn == GetFree(u2, b).next
               f1 == [u2 EXCEPT !.mem[c + 1] = Links(b, nn)]
               f2 == [f1 EXCEPT !.mem[nn + 1].prev = c]
               f3 == [f2 EXCEPT !.mem[b + 1].next = c]
    <3>3. g = f3
      <4>1. GetFree(h, r[1]).prev = p /\ GetFree(h, r[1]).next = b /\ h.recycler_head = c /\ c # 0
        BY <2>2, <2>3, <3>2
      <4>2. h.mem[b].len < h.mem[c].len
        BY <2>5, <3>2
      <4> DEFINE un == [h EXCEPT !.mem[b + 1].prev = p, !.mem[p + 1].next = b]
      <4>3. g = [un EXCEPT !.mem[c + 1] = Links(b, GetFree(un, b).next),
                           !.mem[GetFree(un, b).next + 1].prev = c, !.mem[b + 1].next = c]
        BY <4>1, <4>2 DEF CycleRecycler, Null
      <4>4. un = u2
        OBVIOUS
      <4> HIDE DEF un, u2
      <4>5. g = [u2 EXCEPT !.mem[c + 1] = Links(b, nn), !.mem[nn + 1].prev = c, !.mem[b + 1].next = c]
        BY <4>3, <4>4
      <4> QED
        BY <4>5
    <3> HIDE DEF g, u1, u2, nn, f1, f2, f3
    <3>4. \A j \in 1 .. n : h.mem[r[j] + 1] = Links(r[Prv(n, j)], r[Nxt(n, j)])
      BY <1>0, RingLinks
    <3>5. \A j \in 1 .. n : r[j] \in In(r) /\ r[j] \in Address /\ r[j] + 1 \in Address
      BY <1>0 DEF In
    <3>6. \A j, k \in 1 .. n : r[j] + 1 = r[k] + 1 => j = k
      BY <1>0, <3>5 DEF Distinct
    <3>7. Prv(n, 2) = 1
      BY DEF Prv
    <3>8. b + 1 \in Address /\ p + 1 \in Address /\ c + 1 \in Address /\ b + 1 # c + 1 /\ p + 1 # c + 1
      BY <2>1, <3>1, <3>2, <3>5, <3>6
    <3>9. h.mem[b + 1] = Links(c, r[Nxt(n, 2)])
      BY <3>2, <3>4, <3>7
    <3>10. Wrote(h, u1, b + 1, Links(p, r[Nxt(n, 2)]))
      BY <3>8, <3>9, PrevSet DEF u1
    <3>11. /\ Shaped(g) /\ g.os = h.os /\ g.block_list = h.block_list
           /\ g.master_head = h.master_head /\ g.recycler_head = h.recycler_head
           /\ \A a \in Address : (\A j \in 1 .. n : a # r[j] + 1) => g.mem[a] = h.mem[a]
           /\ n = 2 => \A j \in 1 .. 2 : g.mem[r[j] + 1] = h.mem[r[j] + 1]
           /\ n > 2 =>
                /\ g.mem[r[1] + 1] = Links(r[2], r[3])
                /\ g.mem[r[2] + 1] = Links(r[n], r[1])
                /\ g.mem[r[3] + 1] = Links(r[1], IF n = 3 THEN r[2] ELSE r[4])
                /\ n > 3 => g.mem[r[n] + 1] = Links(r[n - 1], r[2])
                /\ \A j \in 4 .. n - 1 : g.mem[r[j] + 1] = h.mem[r[j] + 1]
      <4>1. CASE n = 2
        <5>1. p = b /\ Nxt(n, 2) = 1 /\ Prv(n, 1) = 2
          BY <4>1 DEF Nxt, Prv
        <5>2. u1.mem[p + 1] = Links(b, c) /\ Shaped(u1)
          BY <3>10, <5>1 DEF Wrote
        <5>3. Wrote(u1, u2, b + 1, Links(b, b))
          BY <3>8, <5>1, <5>2, NextSet DEF u2
        <5>4. nn = b
          BY <5>3 DEF nn, GetFree, Wrote, Links
        <5>5. Wrote(u2, f1, c + 1, Links(b, b))
          <6>1. Shaped(u2)
            BY <5>3 DEF Wrote
          <6> QED
            BY <3>8, <5>4, <6>1, CellSet DEF f1
        <5>6. f1.mem[b + 1] = Links(b, b) /\ Shaped(f1)
          BY <3>8, <5>3, <5>5 DEF Wrote
        <5>7. Wrote(f1, f2, b + 1, Links(c, b))
          BY <3>8, <5>4, <5>6, PrevSet DEF f2
        <5>8. Wrote(f2, f3, b + 1, Links(c, c))
          BY <3>8, <5>7, NextSet DEF f3, Wrote
        <5>9. h.mem[c + 1] = Links(b, b) /\ h.mem[b + 1] = Links(c, c)
          BY <2>1, <3>2, <3>4, <3>9, <4>1, <5>1
        <5>10. \A j \in 1 .. 2 : j = 1 \/ j = 2
          OBVIOUS
        <5>11. \A a \in Address : a # b + 1 /\ a # c + 1 => f3.mem[a] = h.mem[a]
          BY <3>10, <5>3, <5>5, <5>7, <5>8 DEF Wrote
        <5>12. f3.mem[b + 1] = Links(c, c) /\ f3.mem[c + 1] = Links(b, b)
          BY <3>8, <5>5, <5>7, <5>8 DEF Wrote
        <5>13. /\ Shaped(f3) /\ f3.os = h.os /\ f3.block_list = h.block_list
               /\ f3.master_head = h.master_head /\ f3.recycler_head = h.recycler_head
          BY <3>10, <5>3, <5>5, <5>7, <5>8 DEF Wrote
        <5>14. ~(n > 2)
          BY <4>1
        <5>15. \A j \in 1 .. 2 : f3.mem[r[j] + 1] = h.mem[r[j] + 1]
          BY <5>9, <5>10, <5>12
        <5>16. \A a \in Address : (\A j \in 1 .. n : a # r[j] + 1) => f3.mem[a] = h.mem[a]
          BY <2>1, <3>2, <5>11
        <5> HIDE DEF c, b, p, n
        <5> QED
          BY <3>3, <5>13, <5>14, <5>15, <5>16
      <4>2. CASE n > 2
        <5>1. Nxt(n, 2) = 3 /\ Nxt(n, n) = 1 /\ Prv(n, n) = n - 1 /\ 3 \in 1 .. n /\ n - 1 \in 1 .. n
              /\ 2 # n /\ Prv(n, 3) = 2 /\ (n > 3 => Nxt(n, 3) = 4)
          <6> HIDE DEF n
          <6> QED
            BY <1>1, <4>2 DEF Nxt, Prv
        <5>2. b + 1 # p + 1 /\ h.mem[p + 1] = Links(r[n - 1], c)
          BY <2>1, <3>2, <3>4, <3>6, <5>1
        <5>3. Wrote(u1, u2, p + 1, Links(r[n - 1], b))
          <6>1. u1.mem[p + 1] = Links(r[n - 1], c) /\ Shaped(u1)
            BY <3>8, <3>10, <5>2 DEF Wrote
          <6> QED
            BY <3>8, <6>1, NextSet DEF u2
        <5>4. u2.mem[b + 1] = Links(p, r[3])
          BY <3>8, <3>10, <5>1, <5>2, <5>3 DEF Wrote
        <5>5. nn = r[3]
          BY <5>4 DEF nn, GetFree, Links
        <5>6. Wrote(u2, f1, c + 1, Links(b, r[3]))
          <6>1. Shaped(u2)
            BY <5>3 DEF Wrote
          <6> QED
            BY <3>8, <5>5, <6>1, CellSet DEF f1
        <5>7. r[3] + 1 # b + 1 /\ r[3] + 1 # c + 1 /\ r[3] + 1 \in Address /\ (n > 3 => r[3] + 1 # p + 1)
              /\ (n = 3 => r[3] = p)
          BY <2>1, <3>2, <3>5, <3>6, <5>1
        <5> DEFINE y == IF n = 3 THEN b ELSE r[4]
        <5>8. f1.mem[r[3] + 1] = Links(b, y)
          <6>1. CASE n = 3
            <7>1. n - 1 = 2
              BY <6>1
            <7>2. u2.mem[r[3] + 1] = Links(b, b)
              BY <5>3, <5>7, <6>1, <7>1 DEF Wrote
            <7> QED
              BY <5>6, <5>7, <6>1, <7>2 DEF Wrote
          <6>2. CASE n > 3
            <7>1. h.mem[r[3] + 1] = Links(b, r[4])
              BY <3>4, <5>1, <6>2
            <7>2. f1.mem[r[3] + 1] = h.mem[r[3] + 1]
              BY <3>10, <5>3, <5>6, <5>7, <6>2 DEF Wrote
            <7>3. n # 3
              <8> HIDE DEF n
              <8> QED
                BY <1>1, <6>2
            <7> QED
              BY <7>1, <7>2, <7>3
          <6>3. n = 3 \/ n > 3
            <7> HIDE DEF n
            <7> QED
              BY <1>1, <4>2
          <6> HIDE DEF y
          <6> QED
            BY <6>1, <6>2, <6>3
        <5> HIDE DEF y
        <5>9. Wrote(f1, f2, r[3] + 1, Links(c, y))
          <6>1. Shaped(f1)
            BY <5>6 DEF Wrote
          <6> QED
            BY <5>5, <5>7, <5>8, <6>1, PrevSet DEF f2
        <5>10. f2.mem[b + 1] = Links(p, r[3]) /\ Shaped(f2)
          BY <3>8, <5>4, <5>6, <5>7, <5>9 DEF Wrote
        <5>11. Wrote(f2, f3, b + 1, Links(p, c))
          BY <3>8, <5>10, NextSet DEF f3
        <5>12. /\ Shaped(f3) /\ f3.os = h.os /\ f3.block_list = h.block_list
               /\ f3.master_head = h.master_head /\ f3.recycler_head = h.recycler_head
          BY <3>10, <5>3, <5>6, <5>9, <5>11 DEF Wrote
        <5>13. \A a \in Address : a \notin {c + 1, b + 1, p + 1, r[3] + 1} => f3.mem[a] = h.mem[a]
          BY <3>10, <5>3, <5>6, <5>9, <5>11 DEF Wrote
        <5>14. /\ f3.mem[c + 1] = Links(b, r[3]) /\ f3.mem[b + 1] = Links(p, c)
               /\ f3.mem[r[3] + 1] = Links(c, y)
               /\ n > 3 => f3.mem[p + 1] = Links(r[n - 1], b)
          BY <3>8, <5>2, <5>3, <5>6, <5>7, <5>9, <5>11 DEF Wrote
        <5>15. \A a \in Address : (\A j \in 1 .. n : a # r[j] + 1) => f3.mem[a] = h.mem[a]
          BY <2>1, <3>2, <5>1, <5>13
        <5>16. \A j \in 4 .. n - 1 : f3.mem[r[j] + 1] = h.mem[r[j] + 1]
          <6> TAKE j \in 4 .. n - 1
          <6>1. j \in 1 .. n /\ j # 1 /\ j # 2 /\ j # 3 /\ j # n
            BY <1>1
          <6>2. r[j] + 1 \in Address /\ r[j] + 1 \notin {c + 1, b + 1, p + 1, r[3] + 1}
            BY <2>1, <3>2, <3>5, <3>6, <5>1, <6>1
          <6> QED
            BY <5>13, <6>2
        <5>17. n # 2
          <6> HIDE DEF n
          <6> QED
            BY <1>1, <4>2
        <5> QED
          BY <3>3, <5>12, <5>14, <5>15, <5>16, <5>17 DEF y
      <4>3. n = 2 \/ n > 2
        <5> HIDE DEF n
        <5> QED
          BY <1>1, <3>1
      <4> HIDE DEF n
      <4> QED
        BY <4>1, <4>2, <4>3
    <3>12. Ring(g, Behind(r)) /\ In(Behind(r)) = In(r) /\ Len(Behind(r)) = n /\ Behind(r)[1] = c
      BY <1>0, <3>1, <3>11, BehindIs
    <3>13. At(Behind(r), 1) = c
      BY <1>3, <3>12, FirstIs DEF Ring
    <3>14. \A x \in In(m) : g.mem[x + 1] = h.mem[x + 1]
      BY <1>0, <3>5, <3>11
    <3>15. Lists(g, m, Behind(r))
      BY <1>0, <2>2, <3>11, <3>12, <3>13, <3>14, RingStep
    <3>16. Touches(h, g, Filed(m, r))
      <4>1. \A a \in Address : a - 1 \notin In(r) => \A j \in 1 .. n : a # r[j] + 1
        BY <3>5, AddressPositive
      <4> QED
        BY <3>11, <4>1 DEF Touches, Filed
    <3>17. Cycled(h, r, Behind(r))
      <4>1. \A j \in 2 .. n - 1 : j \in 1 .. n /\ j # 1 /\ j # n
        BY <1>1
      <4>2. \A j \in 2 .. n - 1 : Behind(r)[j] = r[j + 1]
        BY <4>1 DEF Behind
      <4> QED
        BY <2>5, <3>12, <4>2 DEF Cycled, c
    <3> QED
      BY <3>12, <3>15, <3>16, <3>17 DEF g
  <2> QED
    BY <2>4, <2>5
<1>4. n = 0 \/ n >= 1
  BY <1>1
<1> QED
  BY <1>2, <1>3, <1>4

-----------------------------------------------------------------------------
(***************************************************************************)
(* The master list.                                                        *)
(***************************************************************************)
(* c becomes the head, before n.                                           *)
MasterFirst(h, c, n) ==
  SetPrevOf([h EXCEPT !.mem[c + 1] = Links(Null, n), !.master_head = c], n, c)

LEMMA MasterFirstIs ==
  ASSUME NEW h, Shaped(h), NEW c \in Address, c + 1 \in Address, NEW n, NEW x, NEW y,
         n # 0 => n \in Address /\ n + 1 \in Address /\ n # c /\ h.mem[n + 1] = Links(x, y)
  PROVE  LET g == MasterFirst(h, c, n)
         IN  /\ Shaped(g) /\ g.os = h.os /\ g.block_list = h.block_list
             /\ g.recycler_head = h.recycler_head /\ g.master_head = c
             /\ g.mem[c + 1] = Links(0, n)
             /\ n # 0 => g.mem[n + 1] = Links(c, y)
             /\ \A a \in Address : a # c + 1 /\ (n # 0 => a # n + 1) => g.mem[a] = h.mem[a]
<1> DEFINE h1 == [h EXCEPT !.mem[c + 1] = Links(0, n)]
           h2 == [h1 EXCEPT !.master_head = c]
           h3 == [h2 EXCEPT !.mem[n + 1].prev = c]
<1>1. MasterFirst(h, c, n) = IF n = 0 THEN h2 ELSE h3
  <2>1. [h EXCEPT !.mem[c + 1] = Links(0, n), !.master_head = c] = h2
    OBVIOUS
  <2> QED
    BY <2>1 DEF MasterFirst, SetPrevOf, Null
<1> HIDE DEF h1, h2, h3
<1>2. Wrote(h, h1, c + 1, Links(0, n))
  BY CellSet DEF h1
<1>3. MasterSet(h1, h2, c)
  BY <1>2, HeadSet DEF Wrote, h2
<1>4. /\ Shaped(h2) /\ h2.os = h.os /\ h2.block_list = h.block_list
      /\ h2.recycler_head = h.recycler_head /\ h2.master_head = c
      /\ h2.mem[c + 1] = Links(0, n)
      /\ \A a \in Address : a # c + 1 => h2.mem[a] = h.mem[a]
  BY <1>2, <1>3 DEF Wrote, MasterSet
<1>5. CASE n = 0
  BY <1>1, <1>4, <1>5
<1>6. CASE n # 0
  <2>1. n + 1 # c + 1 /\ n + 1 \in Address /\ h2.mem[n + 1] = Links(x, y)
    BY <1>4, <1>6, AddressPositive
  <2>2. Wrote(h2, h3, n + 1, Links(c, y))
    BY <1>4, <2>1, PrevSet DEF h3
  <2> QED
    BY <1>1, <1>4, <1>6, <2>1, <2>2 DEF Wrote
<1> QED
  BY <1>5, <1>6

(* The links of the p-th of a list.                                        *)
LEMMA DllAt ==
  ASSUME NEW h, NEW s, NEW off, Dll(h, s, off), NEW p \in 1 .. Len(s)
  PROVE  /\ s[p] \in In(s) /\ h.mem[s[p] + off] = Links(At(s, p - 1), At(s, p + 1))
         /\ h.mem[s[p] + off].prev = At(s, p - 1) /\ h.mem[s[p] + off].next = At(s, p + 1)
         /\ \A j \in Int : At(s, j) # 0 => j \in 1 .. Len(s) /\ At(s, j) = s[j] /\ s[j] \in In(s)
BY DEF Dll, Links, In, At

(* PushMaster.                                                             *)
LEMMA PushIs ==
  ASSUME NEW h, Shaped(h), NEW m, NEW r, Lists(h, m, r), NEW c \in Address, c + 1 \in Address,
         c \notin Filed(m, r)
  PROVE  /\ Touches(h, PushMaster(h, c), Filed(m, r) \cup {c})
         /\ Lists(PushMaster(h, c), Lead(m, c), r)
<1> DEFINE g == PushMaster(h, c)
           n == h.master_head
<1>0. /\ Distinct(m) /\ Dll(h, m, 1) /\ h.recycler_head = At(r, 1) /\ n = At(m, 1)
      /\ \A x \in In(m) : x \in Address /\ x + 1 \in Address /\ x \notin In(r)
      /\ \A x \in In(r) : x \in Address /\ x + 1 \in Address /\ x \notin In(m)
      /\ \A x, y \in Address : x + 1 = y + 1 => x = y
  BY ListsFacts
<1>1. Len(m) \in Nat
  BY ListsFacts
<1>2. g = MasterFirst(h, c, n)
  BY DEF PushMaster, MasterFirst
<1>3. c \notin In(m) /\ c \notin In(r)
  BY DEF Filed
<1>4. Len(m) >= 1 => 1 \in 1 .. Len(m) /\ n = m[1] /\ n # 0 /\ n \in In(m)
                     /\ h.mem[n + 1] = Links(0, At(m, 2))
  <2> HAVE Len(m) >= 1
  <2>1. 1 \in 1 .. Len(m) /\ n = m[1] /\ n # 0 /\ n \in In(m)
    BY <1>0, FirstIs
  <2>2. h.mem[m[1] + 1] = Links(At(m, 1 - 1), At(m, 1 + 1))
    BY <1>0, <2>1, DllAt
  <2>3. At(m, 0) = 0 /\ 1 - 1 = 0 /\ 1 + 1 = 2
    BY DEF At
  <2> QED
    BY <2>1, <2>2, <2>3
<1>5. Len(m) = 0 => n = 0
  BY <1>0, FirstIs
<1>6. Len(m) = 0 \/ Len(m) >= 1
  BY <1>1
<1>7. n # 0 => n \in Address /\ n + 1 \in Address /\ n # c /\ h.mem[n + 1] = Links(0, At(m, 2))
  BY <1>0, <1>3, <1>4, <1>5, <1>6
<1> HIDE DEF g
<1>8. /\ Shaped(g) /\ g.os = h.os /\ g.block_list = h.block_list
      /\ g.recycler_head = h.recycler_head /\ g.master_head = c
      /\ g.mem[c + 1] = Links(0, n)
      /\ n # 0 => g.mem[n + 1] = Links(c, At(m, 2))
      /\ \A a \in Address : a # c + 1 /\ (n # 0 => a # n + 1) => g.mem[a] = h.mem[a]
  BY <1>2, <1>7, MasterFirstIs
<1>9. Len(m) >= 1 => g.mem[m[1] + 1] = Links(c, At(m, 2))
  BY <1>4, <1>8
<1>10. \A j \in 2 .. Len(m) : g.mem[m[j] + 1] = h.mem[m[j] + 1]
  <2> TAKE j \in 2 .. Len(m)
  <2>1. j \in 1 .. Len(m) /\ j # 1 /\ Len(m) >= 1
    BY <1>1
  <2>2. m[j] \in In(m) /\ m[j] # n /\ m[j] # c
    BY <1>0, <1>3, <1>4, <2>1 DEF Distinct, In
  <2>3. m[j] + 1 # c + 1 /\ (n # 0 => m[j] + 1 # n + 1) /\ m[j] + 1 \in Address
    BY <1>0, <1>7, <2>2
  <2> QED
    BY <1>8, <2>3
<1>11. Dll(g, Lead(m, c), 1) /\ In(Lead(m, c)) = In(m) \cup {c} /\ At(Lead(m, c), 1) = c
  <2>1. g.mem[c + 1] = Links(0, At(m, 1))
    BY <1>0, <1>8
  <2> QED
    BY <1>0, <1>3, <1>9, <1>10, <2>1, DllLead
<1>12. \A x \in In(r) : g.mem[x + 1] = h.mem[x + 1]
  BY <1>0, <1>3, <1>4, <1>5, <1>6, <1>7, <1>8
<1>13. Lists(g, Lead(m, c), r)
  BY <1>0, <1>3, <1>8, <1>11, <1>12, MasterStep
<1>14. Touches(h, g, Filed(m, r) \cup {c})
  <2>1. n # 0 => n \in Filed(m, r)
    BY <1>4, <1>5, <1>6 DEF Filed
  <2>2. \A a \in Address : a - 1 # c => a # c + 1
    BY AddressPositive
  <2>3. \A a \in Address : n # 0 /\ a - 1 # n => a # n + 1
    BY <1>7, AddressPositive
  <2> QED
    BY <1>8, <2>1, <2>2, <2>3 DEF Touches
<1> QED
  BY <1>13, <1>14 DEF g

(* The head of the master list leaves it, and x takes its place.           *)
LEMMA ReplaceIs ==
  ASSUME NEW h, Shaped(h), NEW m, NEW r, Lists(h, m, r), Len(m) >= 1, NEW c \in Address,
         c + 1 \in Address, c \notin Filed(m, r)
  PROVE  LET g == MasterFirst(h, c, GetFree(h, h.master_head).next)
         IN  /\ Touches(h, g, Filed(m, r) \cup {c})
             /\ Lists(g, Swap(m, 1, c), r) /\ In(Swap(m, 1, c)) = (In(m) \ {h.master_head}) \cup {c}
<1> DEFINE n == GetFree(h, h.master_head).next
           g == MasterFirst(h, c, n)
<1>0. /\ Distinct(m) /\ Dll(h, m, 1) /\ h.recycler_head = At(r, 1) /\ h.master_head = At(m, 1)
      /\ \A x \in In(m) : x \in Address /\ x + 1 \in Address /\ x \notin In(r)
      /\ \A x \in In(r) : x \in Address /\ x + 1 \in Address /\ x \notin In(m)
      /\ \A x, y \in Address : x + 1 = y + 1 => x = y
  BY ListsFacts
<1>1. Len(m) \in Nat
  BY ListsFacts
<1>3. c \notin In(m) /\ c \notin In(r)
  BY DEF Filed
<1>4. 1 \in 1 .. Len(m) /\ h.master_head = m[1]
  BY <1>0, FirstIs
<1>5. n = At(m, 2)
  <2>1. h.mem[m[1] + 1].next = At(m, 1 + 1) /\ 1 + 1 = 2
    BY <1>0, <1>4, DllAt
  <2> QED
    BY <1>4, <2>1 DEF GetFree
<1>6. n # 0 => 2 \in 1 .. Len(m) /\ n = m[2] /\ m[2] \in In(m) /\ h.mem[n + 1] = Links(m[1], At(m, 3))
  <2> HAVE n # 0
  <2>1. 2 \in 1 .. Len(m) /\ n = m[2] /\ m[2] \in In(m)
    BY <1>0, <1>4, <1>5, DllAt
  <2>2. h.mem[m[2] + 1] = Links(At(m, 2 - 1), At(m, 2 + 1)) /\ 2 - 1 = 1 /\ 2 + 1 = 3
    BY <1>0, <2>1, DllAt
  <2> QED
    BY <1>0, <1>4, <2>1, <2>2
<1>7. n # 0 => n \in Address /\ n + 1 \in Address /\ n # c /\ h.mem[n + 1] = Links(m[1], At(m, 3))
  BY <1>0, <1>3, <1>6
<1> HIDE DEF g, n
<1>8. /\ Shaped(g) /\ g.os = h.os /\ g.block_list = h.block_list
      /\ g.recycler_head = h.recycler_head /\ g.master_head = c
      /\ g.mem[c + 1] = Links(0, n)
      /\ n # 0 => g.mem[n + 1] = Links(c, At(m, 3))
      /\ \A a \in Address : a # c + 1 /\ (n # 0 => a # n + 1) => g.mem[a] = h.mem[a]
  BY <1>7, MasterFirstIs DEF g
<1>9. 1 < Len(m) => n # 0 /\ n = m[2]
  <2>1. 1 < Len(m) => 2 \in 1 .. Len(m)
    BY <1>1
  <2> QED
    BY <1>0, <1>5, <2>1, Members, AddressPositive DEF At
<1>10. \A j \in 1 .. Len(m) : j \notin {1 - 1, 1, 1 + 1} => g.mem[m[j] + 1] = h.mem[m[j] + 1]
  <2> TAKE j \in 1 .. Len(m)
  <2> HAVE j \notin {1 - 1, 1, 1 + 1}
  <2>2. m[j] \in In(m) /\ (n # 0 => m[j] # n) /\ m[j] # c
    BY <1>0, <1>3, <1>6 DEF Distinct, In
  <2>3. m[j] + 1 # c + 1 /\ (n # 0 => m[j] + 1 # n + 1) /\ m[j] + 1 \in Address
    BY <1>0, <1>7, <2>2
  <2> QED
    BY <1>8, <2>3
<1>11. /\ Dll(g, Swap(m, 1, c), 1) /\ In(Swap(m, 1, c)) = (In(m) \ {m[1]}) \cup {c}
       /\ At(Swap(m, 1, c), 1) = c
  <2>1. g.mem[c + 1] = Links(At(m, 1 - 1), At(m, 1 + 1))
    <3>1. At(m, 0) = 0 /\ 1 - 1 = 0 /\ 1 + 1 = 2
      BY DEF At
    <3> QED
      BY <1>5, <1>8, <3>1
  <2>2. 1 < Len(m) => g.mem[m[1 + 1] + 1] = Links(c, At(m, 1 + 2))
    BY <1>8, <1>9
  <2>3. ~(1 > 1)
    OBVIOUS
  <2> QED
    BY <1>0, <1>3, <1>4, <1>10, <2>1, <2>2, <2>3, DllSwap
<1>12. \A x \in In(r) : g.mem[x + 1] = h.mem[x + 1]
  BY <1>0, <1>3, <1>6, <1>7, <1>8
<1>13. Lists(g, Swap(m, 1, c), r)
  BY <1>0, <1>3, <1>8, <1>11, <1>12, MasterStep
<1>14. Touches(h, g, Filed(m, r) \cup {c})
  <2>1. n # 0 => n \in Filed(m, r)
    BY <1>6 DEF Filed
  <2>2. \A a \in Address : a - 1 # c => a # c + 1
    BY AddressPositive
  <2>3. \A a \in Address : n # 0 /\ a - 1 # n => a # n + 1
    BY <1>7, AddressPositive
  <2> QED
    BY <1>8, <2>1, <2>2, <2>3 DEF Touches
<1> QED
  BY <1>4, <1>11, <1>13, <1>14 DEF g, n

(* The p-th of the master list is no longer linked to.                     *)
Skipped(h, g, m, p) ==
  /\ Shaped(g) /\ g.os = h.os /\ g.block_list = h.block_list
  /\ g.recycler_head = h.recycler_head
  /\ g.master_head = IF p = 1 THEN At(m, 2) ELSE h.master_head
  /\ p > 1 => g.mem[m[p - 1] + 1] = Links(At(m, p - 2), At(m, p + 1))
  /\ p < Len(m) => g.mem[m[p + 1] + 1] = Links(At(m, p - 1), At(m, p + 2))
  /\ \A a \in Address : (p > 1 => a # m[p - 1] + 1) /\ (p < Len(m) => a # m[p + 1] + 1)
                           => g.mem[a] = h.mem[a]

LEMMA SkipIs ==
  ASSUME NEW h, Shaped(h), NEW m, NEW r, Lists(h, m, r), NEW p \in 1 .. Len(m),
         NEW g, Skipped(h, g, m, p)
  PROVE  /\ Touches(h, g, Filed(m, r))
         /\ Lists(g, Drop(m, p), r) /\ In(Drop(m, p)) = In(m) \ {m[p]}
<1>0. /\ Distinct(m) /\ Dll(h, m, 1) /\ h.recycler_head = At(r, 1) /\ h.master_head = At(m, 1)
      /\ \A x \in In(m) : x \in Address /\ x + 1 \in Address /\ x \notin In(r)
      /\ \A x \in In(r) : x \in Address /\ x + 1 \in Address /\ x \notin In(m)
      /\ \A x, y \in Address : x + 1 = y + 1 => x = y
  BY ListsFacts
<1>1. Len(m) \in Nat
  BY ListsFacts
<1>2. (p > 1 => p - 1 \in 1 .. Len(m)) /\ (p < Len(m) => p + 1 \in 1 .. Len(m))
  BY <1>1
<1>3. (p > 1 => m[p - 1] \in In(m)) /\ (p < Len(m) => m[p + 1] \in In(m))
  BY <1>2 DEF In
<1>4. \A j \in 1 .. Len(m) : j \notin {p - 1, p, p + 1} => g.mem[m[j] + 1] = h.mem[m[j] + 1]
  <2> TAKE j \in 1 .. Len(m)
  <2> HAVE j \notin {p - 1, p, p + 1}
  <2>1. m[j] \in In(m) /\ (p > 1 => m[j] # m[p - 1]) /\ (p < Len(m) => m[j] # m[p + 1])
    BY <1>0, <1>2 DEF Distinct, In
  <2>2. m[j] + 1 \in Address /\ (p > 1 => m[j] + 1 # m[p - 1] + 1)
        /\ (p < Len(m) => m[j] + 1 # m[p + 1] + 1)
    BY <1>0, <1>3, <2>1
  <2> QED
    BY <2>2 DEF Skipped
<1>5. /\ Dll(g, Drop(m, p), 1) /\ In(Drop(m, p)) = In(m) \ {m[p]}
      /\ At(Drop(m, p), 1) = IF p = 1 THEN At(m, 2) ELSE At(m, 1)
  <2>1. /\ p > 1 => g.mem[m[p - 1] + 1] = Links(At(m, p - 2), At(m, p + 1))
        /\ p < Len(m) => g.mem[m[p + 1] + 1] = Links(At(m, p - 1), At(m, p + 2))
    BY DEF Skipped
  <2> QED
    BY <1>0, <1>4, <2>1, DllDrop
<1>6. \A x \in In(r) : g.mem[x + 1] = h.mem[x + 1]
  BY <1>0, <1>3 DEF Skipped
<1>7. Lists(g, Drop(m, p), r)
  BY <1>0, <1>5, <1>6, MasterStep DEF Skipped
<1>8. Touches(h, g, Filed(m, r))
  <2>1. \A a \in Address : a - 1 \notin In(m) =>
          (p > 1 => a # m[p - 1] + 1) /\ (p < Len(m) => a # m[p + 1] + 1)
    BY <1>0, <1>3, AddressPositive
  <2> QED
    BY <2>1 DEF Touches, Skipped, Filed
<1> QED
  BY <1>5, <1>7, <1>8

(* PopMaster.                                                              *)
LEMMA PopIs ==
  ASSUME NEW h, Shaped(h), NEW m, NEW r, Lists(h, m, r), Len(m) >= 1
  PROVE  /\ Touches(h, PopMaster(h), Filed(m, r))
         /\ Lists(PopMaster(h), Drop(m, 1), r) /\ In(Drop(m, 1)) = In(m) \ {h.master_head}
<1> DEFINE g == PopMaster(h)
           n == At(m, 2)
           h1 == [h EXCEPT !.master_head = n]
           h2 == [h1 EXCEPT !.mem[n + 1].prev = 0]
<1>0. /\ Distinct(m) /\ Dll(h, m, 1) /\ h.master_head = At(m, 1)
      /\ \A x \in In(m) : x \in Address /\ x + 1 \in Address /\ x \notin In(r)
  BY ListsFacts
<1>1. Len(m) \in Nat
  BY ListsFacts
<1>2. 1 \in 1 .. Len(m) /\ h.master_head = m[1]
  BY <1>0, FirstIs
<1>3. GetFree(h, h.master_head).next = n
  <2>1. h.mem[m[1] + 1].next = At(m, 1 + 1) /\ 1 + 1 = 2
    BY <1>0, <1>2, DllAt
  <2> QED
    BY <1>2, <2>1 DEF GetFree
<1>4. g = IF n = 0 THEN h1 ELSE h2
  BY <1>3 DEF PopMaster, SetPrevOf, Null
<1> HIDE DEF g, h1, h2, n
<1>5. MasterSet(h, h1, n)
  BY HeadSet DEF h1
<1>6. n # 0 <=> 1 < Len(m)
  <2>1. \A j \in 1 .. Len(m) : m[j] # 0
    BY <1>0, Members, AddressPositive
  <2> QED
    BY <1>1, <2>1 DEF n, At
<1>7. 1 < Len(m) => 2 \in 1 .. Len(m) /\ n = m[2] /\ m[2] \in In(m) /\ h.mem[n + 1] = Links(m[1], At(m, 3))
  <2> HAVE 1 < Len(m)
  <2>1. 2 \in 1 .. Len(m)
    BY <1>1
  <2>2. h.mem[m[2] + 1] = Links(At(m, 2 - 1), At(m, 2 + 1)) /\ 2 - 1 = 1 /\ 2 + 1 = 3 /\ m[2] \in In(m)
    BY <1>0, <2>1, DllAt
  <2> QED
    BY <1>0, <1>2, <2>1, <2>2 DEF n, At
<1>8. Skipped(h, g, m, 1)
  <2>1. CASE n = 0
    <3>1. g = h1 /\ ~(1 < Len(m)) /\ ~(1 > 1)
      BY <1>4, <1>6, <2>1
    <3> QED
      BY <1>5, <3>1 DEF MasterSet, Skipped, n
  <2>2. CASE n # 0
    <3>1. 1 < Len(m) /\ ~(1 > 1) /\ n + 1 \in Address
      BY <1>0, <1>6, <1>7, <2>2
    <3>2. Shaped(h1) /\ h1.mem[n + 1] = Links(m[1], At(m, 3))
      BY <1>5, <1>7, <3>1 DEF MasterSet
    <3>3. Wrote(h1, h2, n + 1, Links(0, At(m, 3)))
      BY <3>1, <3>2, PrevSet DEF h2
    <3>4. g = h2
      BY <1>4, <2>2
    <3>5. /\ Shaped(g) /\ g.os = h.os /\ g.block_list = h.block_list
          /\ g.recycler_head = h.recycler_head /\ g.master_head = n
          /\ g.mem[n + 1] = Links(0, At(m, 3))
          /\ \A a \in Address : a # n + 1 => g.mem[a] = h.mem[a]
      BY <1>5, <3>3, <3>4 DEF Wrote, MasterSet
    <3>6. At(m, 1 - 1) = 0 /\ 1 + 2 = 3 /\ 1 + 1 = 2
      BY DEF At
    <3>7. 1 < Len(m) => g.mem[m[1 + 1] + 1] = Links(At(m, 1 - 1), At(m, 1 + 2))
      BY <1>7, <3>5, <3>6
    <3>8. \A a \in Address : (1 > 1 => a # m[1 - 1] + 1) /\ (1 < Len(m) => a # m[1 + 1] + 1)
                           => g.mem[a] = h.mem[a]
      BY <1>7, <3>1, <3>5, <3>6
    <3> QED
      BY <3>1, <3>5, <3>7, <3>8 DEF Skipped, n
  <2> QED
    BY <2>1, <2>2
<1> QED
  BY <1>2, <1>8, SkipIs DEF g

(* What ReleaseBlock does before it gives the block back.                  *)
Unlink(h, c) ==
  LET h1 == SetPrevOf(h, GetFree(h, c).next, GetFree(h, c).prev)
      p == GetFree(h1, c).prev
      h2 == IF p = Null THEN h1 ELSE [h1 EXCEPT !.mem[p + 1].next = GetFree(h1, c).next]
      next == GetFree(h2, c).next
  IN  IF h2.recycler_head = c
      THEN [h2 EXCEPT !.recycler_head = IF next = c THEN Null ELSE next]
      ELSE IF h2.master_head = c THEN [h2 EXCEPT !.master_head = next]
      ELSE h2

LEMMA ReleaseIsUnlink ==
  ASSUME NEW h, NEW b PROVE ReleaseBlock(h, b) = OsFree(Unlink(h, b + 1), b)
BY DEF ReleaseBlock, Unlink

LEMMA UnlinkMaster ==
  ASSUME NEW h, Shaped(h), NEW m, NEW r, Lists(h, m, r), NEW c \in In(m)
  PROVE  /\ Touches(h, Unlink(h, c), Filed(m, r))
         /\ \E m2 : Lists(Unlink(h, c), m2, r) /\ In(m2) = In(m) \ {c}
<1>0. /\ Distinct(m) /\ Dll(h, m, 1) /\ h.recycler_head = At(r, 1) /\ h.master_head = At(m, 1)
      /\ \A x \in In(m) : x \in Address /\ x + 1 \in Address /\ x \notin In(r)
      /\ \A x \in In(r) : x \in Address /\ x + 1 \in Address /\ x \notin In(m)
      /\ \A x, y \in Address : x + 1 = y + 1 => x = y
  BY ListsFacts
<1>1. Len(m) \in Nat
  BY ListsFacts
<1>2. PICK k \in 1 .. Len(m) : m[k] = c
  BY DEF In
<1> DEFINE a == At(m, k - 1)
           z == At(m, k + 1)
           h1 == SetPrevOf(h, z, a)
           h2 == IF a = 0 THEN h1 ELSE [h1 EXCEPT !.mem[a + 1].next = z]
           h3 == IF k = 1 THEN [h2 EXCEPT !.master_head = z] ELSE h2
<1>3. h.mem[c + 1] = Links(a, z) /\ c \in Address /\ c + 1 \in Address
  BY <1>0, <1>2, DllAt
<1>4. \A j \in 1 .. Len(m) : m[j] \in In(m) /\ m[j] \in Address /\ m[j] + 1 \in Address /\ m[j] # 0
  BY <1>0, Members, AddressPositive
<1>5. (a # 0 <=> k > 1) /\ (k > 1 => k - 1 \in 1 .. Len(m) /\ a = m[k - 1])
  BY <1>1, <1>4 DEF At
<1>6. (z # 0 <=> k < Len(m)) /\ (k < Len(m) => k + 1 \in 1 .. Len(m) /\ z = m[k + 1])
  BY <1>1, <1>4 DEF At
<1>7. \A j, i \in 1 .. Len(m) : m[j] + 1 = m[i] + 1 => j = i
  BY <1>0, <1>4 DEF Distinct
<1>8. k < Len(m) => h.mem[z + 1] = Links(c, At(m, k + 2))
  <2> HAVE k < Len(m)
  <2>1. h.mem[m[k + 1] + 1] = Links(At(m, k + 1 - 1), At(m, k + 1 + 1)) /\ k + 1 - 1 = k /\ k + 1 + 1 = k + 2
    BY <1>0, <1>6, DllAt
  <2> QED
    BY <1>2, <1>6, <2>1 DEF At
<1>9. k > 1 => h.mem[a + 1] = Links(At(m, k - 2), c)
  <2> HAVE k > 1
  <2>1. h.mem[m[k - 1] + 1] = Links(At(m, k - 1 - 1), At(m, k - 1 + 1)) /\ k - 1 - 1 = k - 2 /\ k - 1 + 1 = k
    BY <1>0, <1>5, DllAt
  <2> QED
    BY <1>2, <1>5, <2>1 DEF At
<1> HIDE DEF h1, h2, h3, a, z
<1>10. k > 1 /\ k < Len(m) => a + 1 # z + 1
  <2> HAVE k > 1 /\ k < Len(m)
  <2>1. k - 1 # k + 1
    OBVIOUS
  <2> QED
    BY <1>5, <1>6, <1>7, <2>1
<1>11. /\ Shaped(h1) /\ h1.os = h.os /\ h1.block_list = h.block_list
       /\ h1.recycler_head = h.recycler_head /\ h1.master_head = h.master_head
       /\ k < Len(m) => h1.mem[z + 1] = Links(a, At(m, k + 2))
       /\ \A d \in Address : (k < Len(m) => d # z + 1) => h1.mem[d] = h.mem[d]
  <2>1. CASE z = 0
    <3>1. h1 = h
      BY <2>1 DEF h1, SetPrevOf, Null
    <3> QED
      BY <1>6, <2>1, <3>1
  <2>2. CASE z # 0
    <3>1. h1 = [h EXCEPT !.mem[z + 1].prev = a] /\ k < Len(m) /\ z + 1 \in Address
      BY <1>4, <1>6, <2>2 DEF h1, SetPrevOf, Null
    <3>2. Wrote(h, h1, z + 1, Links(a, At(m, k + 2)))
      BY <1>8, <3>1, PrevSet
    <3> QED
      BY <3>1, <3>2 DEF Wrote
  <2> QED
    BY <2>1, <2>2
<1>12. /\ Shaped(h2) /\ h2.os = h.os /\ h2.block_list = h.block_list
       /\ h2.recycler_head = h.recycler_head /\ h2.master_head = h.master_head
       /\ k < Len(m) => h2.mem[z + 1] = Links(a, At(m, k + 2))
       /\ k > 1 => h2.mem[a + 1] = Links(At(m, k - 2), z)
       /\ \A d \in Address : (k > 1 => d # a + 1) /\ (k < Len(m) => d # z + 1) => h2.mem[d] = h.mem[d]
  <2>1. CASE a = 0
    <3>1. h2 = h1 /\ ~(k > 1)
      BY <1>5, <2>1 DEF h2
    <3> QED
      BY <1>11, <3>1
  <2>2. CASE a # 0
    <3>1. h2 = [h1 EXCEPT !.mem[a + 1].next = z] /\ k > 1 /\ a + 1 \in Address
      BY <1>4, <1>5, <2>2 DEF h2
    <3>2. h1.mem[a + 1] = Links(At(m, k - 2), c)
      BY <1>9, <1>10, <1>11, <3>1
    <3>3. Wrote(h1, h2, a + 1, Links(At(m, k - 2), z))
      BY <1>11, <3>1, <3>2, NextSet
    <3>4. k < Len(m) => z + 1 \in Address
      BY <1>4, <1>6
    <3> QED
      BY <1>10, <1>11, <3>1, <3>3, <3>4 DEF Wrote
  <2> QED
    BY <2>1, <2>2
<1>13. (k > 1 => c + 1 # a + 1) /\ (k < Len(m) => c + 1 # z + 1)
  <2>1. k - 1 # k /\ k + 1 # k
    OBVIOUS
  <2> QED
    BY <1>2, <1>5, <1>6, <1>7, <2>1
<1>14. h1.mem[c + 1] = Links(a, z) /\ h2.mem[c + 1] = Links(a, z)
  BY <1>3, <1>11, <1>12, <1>13
<1>15. h.recycler_head # c
  <2>1. h.recycler_head = 0 \/ h.recycler_head \in In(r)
    BY FirstIs, ListsFacts
  <2> QED
    BY <1>0, <1>3, <2>1, AddressPositive
<1>16. h.master_head = c <=> k = 1
  <2>1. 1 \in 1 .. Len(m)
    BY <1>1
  <2>2. h.master_head = m[1]
    BY <1>0, <2>1 DEF At
  <2> QED
    BY <1>2, <1>7, <2>1, <2>2
<1>17. Unlink(h, c) = h3
  <2>1. GetFree(h, c).next = z /\ GetFree(h, c).prev = a
    BY <1>3 DEF GetFree, Links
  <2>2. GetFree(h1, c).next = z /\ GetFree(h1, c).prev = a
    BY <1>14 DEF GetFree, Links
  <2>3. GetFree(h2, c).next = z
    BY <1>14 DEF GetFree, Links
  <2>4. h2 = IF a = Null THEN h1 ELSE [h1 EXCEPT !.mem[a + 1].next = GetFree(h1, c).next]
    BY <2>2 DEF h2, Null
  <2>5. h1 = SetPrevOf(h, GetFree(h, c).next, GetFree(h, c).prev)
    BY <2>1 DEF h1
  <2>6. Unlink(h, c) = IF h2.recycler_head = c
                       THEN [h2 EXCEPT !.recycler_head = IF z = c THEN Null ELSE z]
                       ELSE IF h2.master_head = c THEN [h2 EXCEPT !.master_head = z] ELSE h2
    BY <2>2, <2>3, <2>4, <2>5 DEF Unlink
  <2> QED
    BY <1>12, <1>15, <1>16, <2>6 DEF h3
<1>18. Skipped(h, h3, m, k)
  <2>1. /\ Shaped(h3) /\ h3.os = h.os /\ h3.block_list = h.block_list /\ h3.mem = h2.mem
        /\ h3.recycler_head = h.recycler_head
        /\ h3.master_head = IF k = 1 THEN z ELSE h.master_head
    <3>1. CASE k = 1
      <4>1. MasterSet(h2, h3, z)
        BY <1>12, <3>1, HeadSet DEF h3
      <4> QED
        BY <1>12, <3>1, <4>1 DEF MasterSet
    <3>2. CASE k # 1
      BY <1>12, <3>2 DEF h3
    <3> QED
      BY <3>1, <3>2
  <2>2. k = 1 => z = At(m, 2)
    BY DEF z
  <2>3. /\ k > 1 => h3.mem[m[k - 1] + 1] = Links(At(m, k - 2), At(m, k + 1))
        /\ k < Len(m) => h3.mem[m[k + 1] + 1] = Links(At(m, k - 1), At(m, k + 2))
        /\ \A d \in Address : (k > 1 => d # m[k - 1] + 1) /\ (k < Len(m) => d # m[k + 1] + 1)
                           => h3.mem[d] = h.mem[d]
    BY <1>5, <1>6, <1>12, <2>1 DEF a, z
  <2> QED
    BY <2>1, <2>2, <2>3 DEF Skipped
<1>19. /\ Touches(h, h3, Filed(m, r))
       /\ Lists(h3, Drop(m, k), r) /\ In(Drop(m, k)) = In(m) \ {m[k]}
  BY <1>18, SkipIs
<1> QED
  BY <1>2, <1>17, <1>19

LEMMA UnlinkRecycler ==
  ASSUME NEW h, Shaped(h), NEW m, NEW r, Lists(h, m, r), NEW c \in In(r)
  PROVE  /\ Touches(h, Unlink(h, c), Filed(m, r))
         /\ \E r2 : Lists(Unlink(h, c), m, r2) /\ In(r2) = In(r) \ {c}
<1> DEFINE n == Len(r)
<1>0. /\ Distinct(r) /\ Ring(h, r) /\ h.recycler_head = At(r, 1) /\ h.master_head = At(m, 1)
      /\ \A x \in In(m) : x \in Address /\ x + 1 \in Address /\ x \notin In(r)
      /\ \A x \in In(r) : x \in Address /\ x + 1 \in Address /\ x \notin In(m) /\ x # 0
      /\ \A x, y \in Address : x + 1 = y + 1 => x = y
  BY ListsFacts, AddressPositive
<1>1. n \in Nat
  BY ListsFacts
<1>2. PICK p \in 1 .. n : r[p] = c
  BY DEF In
<1>3. n >= 1
  BY <1>1
<1> DEFINE P == Prv(n, p)
           N == Nxt(n, p)
           a == r[P]
           z == r[N]
           h1 == [h EXCEPT !.mem[z + 1].prev = a]
           h2 == [h1 EXCEPT !.mem[a + 1].next = z]
           h3 == IF h.recycler_head = c THEN [h2 EXCEPT !.recycler_head = IF z = c THEN 0 ELSE z] ELSE h2
<1>4. /\ P \in 1 .. n /\ N \in 1 .. n
      /\ \A j \in 1 .. n : (Nxt(n, j) = p <=> j = P) /\ (Prv(n, j) = p <=> j = N)
      /\ Nxt(n, P) = p /\ Prv(n, N) = p
      /\ (n > 1 => P # p /\ N # p) /\ (n = 1 => P = p /\ N = p)
  BY <1>1, Indices
<1>5. \A j \in 1 .. n : h.mem[r[j] + 1] = Links(r[Prv(n, j)], r[Nxt(n, j)])
  <2>1. Distinct(r) /\ Ring(h, r)
    BY <1>0
  <2> QED
    BY <2>1, RingLinks
<1>6. \A j \in 1 .. n : r[j] \in In(r) /\ r[j] \in Address /\ r[j] + 1 \in Address /\ r[j] # 0
  BY <1>0 DEF In
<1>7. \A j, i \in 1 .. n : r[j] + 1 = r[i] + 1 => j = i
  BY <1>0, <1>6 DEF Distinct
<1>8. h.mem[c + 1] = Links(a, z) /\ a # 0 /\ z # 0 /\ a + 1 \in Address /\ z + 1 \in Address /\ c + 1 \in Address
  BY <1>2, <1>4, <1>5, <1>6
<1>9. (a + 1 = z + 1 <=> P = N) /\ (a + 1 = c + 1 <=> n = 1) /\ (z + 1 = c + 1 <=> n = 1) /\ (z = c <=> n = 1)
      /\ (P = N => a = z)
  <2>1. n = 1 \/ n > 1
    <3> HIDE DEF n
    <3> QED
      BY <1>1, <1>3
  <2> QED
    BY <1>2, <1>4, <1>7, <2>1
<1>10. h.mem[z + 1] = Links(c, r[Nxt(n, N)]) /\ h.mem[a + 1] = Links(r[Prv(n, P)], c)
  BY <1>2, <1>4, <1>5
<1> HIDE DEF h1, h2, h3, a, z, P, N
<1>11. Wrote(h, h1, z + 1, Links(a, r[Nxt(n, N)]))
  BY <1>8, <1>10, PrevSet DEF h1
<1>12. h1.mem[a + 1] = IF P = N THEN Links(a, c) ELSE Links(r[Prv(n, P)], c)
  <2>1. CASE P = N
    BY <1>4, <1>2, <1>9, <1>11, <2>1 DEF Wrote
  <2>2. CASE P # N
    BY <1>8, <1>9, <1>10, <1>11, <2>2 DEF Wrote
  <2> QED
    BY <2>1, <2>2
<1>13. Wrote(h1, h2, a + 1, IF P = N THEN Links(a, z) ELSE Links(r[Prv(n, P)], z))
  <2>1. Shaped(h1)
    BY <1>11 DEF Wrote
  <2>2. CASE P = N
    BY <1>8, <1>12, <2>1, <2>2, NextSet DEF h2
  <2>3. CASE P # N
    BY <1>8, <1>12, <2>1, <2>3, NextSet DEF h2
  <2> QED
    BY <2>2, <2>3
<1>14. h1.mem[c + 1] = Links(a, z) /\ h2.mem[c + 1] = Links(a, z)
  <2>1. CASE n = 1
    <3>1. a + 1 = c + 1 /\ z + 1 = c + 1 /\ P = N /\ h1.mem[z + 1] = Links(a, r[Nxt(n, N)])
          /\ Nxt(n, N) = p /\ z = c
      BY <1>4, <1>9, <1>11, <2>1 DEF Wrote
    <3> QED
      BY <1>2, <1>13, <3>1 DEF Wrote
  <2>2. CASE n # 1
    BY <1>8, <1>9, <1>11, <1>13, <2>2 DEF Wrote
  <2> QED
    BY <2>1, <2>2
<1>15. /\ Shaped(h2) /\ h2.os = h.os /\ h2.block_list = h.block_list
       /\ h2.recycler_head = h.recycler_head /\ h2.master_head = h.master_head
       /\ P # N => h2.mem[a + 1] = Links(r[Prv(n, P)], z)
       /\ h2.mem[z + 1] = IF P = N THEN Links(a, z) ELSE Links(a, r[Nxt(n, N)])
       /\ \A d \in Address : d # a + 1 /\ d # z + 1 => h2.mem[d] = h.mem[d]
  BY <1>8, <1>9, <1>11, <1>13 DEF Wrote
<1>16. h.master_head # c
  <2>1. h.master_head = 0 \/ h.master_head \in In(m)
    BY FirstIs, ListsFacts
  <2> QED
    BY <1>0, <2>1
<1>17. Unlink(h, c) = h3
  <2>1. GetFree(h, c).next = z /\ GetFree(h, c).prev = a
    BY <1>8 DEF GetFree, Links
  <2>2. GetFree(h1, c).next = z /\ GetFree(h1, c).prev = a
    BY <1>14 DEF GetFree, Links
  <2>3. GetFree(h2, c).next = z
    BY <1>14 DEF GetFree, Links
  <2>5. h1 = SetPrevOf(h, GetFree(h, c).next, GetFree(h, c).prev)
    BY <1>8, <2>1 DEF h1, SetPrevOf, Null
  <2>4. h2 = IF a = Null THEN h1 ELSE [h1 EXCEPT !.mem[a + 1].next = GetFree(h1, c).next]
    BY <1>8, <2>2 DEF h2, Null
  <2>6. Unlink(h, c) = IF h2.recycler_head = c
                       THEN [h2 EXCEPT !.recycler_head = IF z = c THEN Null ELSE z]
                       ELSE IF h2.master_head = c THEN [h2 EXCEPT !.master_head = z] ELSE h2
    BY <2>2, <2>3, <2>4, <2>5 DEF Unlink
  <2> QED
    BY <1>15, <1>16, <2>6 DEF h3, Null
<1>18. /\ Shaped(h3) /\ h3.os = h.os /\ h3.block_list = h.block_list /\ h3.mem = h2.mem
       /\ h3.master_head = h.master_head
       /\ h3.recycler_head = IF h.recycler_head = c THEN IF z = c THEN 0 ELSE z ELSE h.recycler_head
  <2>1. CASE h.recycler_head = c
    <3>1. RecyclerSet(h2, h3, IF z = c THEN 0 ELSE z)
      BY <1>15, <2>1, HeadSet DEF h3
    <3> QED
      BY <1>15, <2>1, <3>1 DEF RecyclerSet
  <2>2. CASE h.recycler_head # c
    BY <1>15, <2>2 DEF h3
  <2> QED
    BY <2>1, <2>2
<1>19. CASE n = 1
  <2>1. h.recycler_head = c /\ z = c /\ a + 1 = c + 1 /\ In(r) = {c} /\ P = N
    <3>1. \A j \in 1 .. n : j = 1
      BY <1>19
    <3>2. r[1] = c /\ 1 \in 1 .. n
      BY <1>2, <3>1
    <3>3. h.recycler_head = c
      BY <1>0, <1>3, <3>2, FirstIs
    <3>4. In(r) = {c}
      BY <3>1, <3>2 DEF In
    <3> QED
      BY <1>4, <1>9, <1>19, <3>3, <3>4
  <2>2. \A d \in Address : h3.mem[d] = h.mem[d]
    BY <1>8, <1>14, <1>15, <1>18, <2>1
  <2>3. Ring(h3, << >>)
    BY NoneIs DEF Ring
  <2>4. Lists(h3, m, << >>)
    BY <1>0, <1>18, <2>1, <2>2, <2>3, NoneIs, RingStep
  <2>5. Touches(h, h3, Filed(m, r))
    BY <1>18, <2>2 DEF Touches
  <2> QED
    BY <1>17, <2>1, <2>4, <2>5, NoneIs
<1>20. CASE n > 1
  <2>1. z # c
    <3>1. n # 1
      <4> HIDE DEF n
      <4> QED
        BY <1>1, <1>20
    <3> QED
      BY <1>9, <3>1
  <2>2. Bypassed(h, h3, r, p)
    BY <1>2, <1>15, <1>18, <2>1 DEF Bypassed, a, z, P, N
  <2> QED
    BY <1>2, <1>17, <1>20, <2>2, BypassIs
<1>21. n = 1 \/ n > 1
  <2> HIDE DEF n
  <2> QED
    BY <1>1, <1>3
<1> QED
  BY <1>19, <1>20, <1>21

(* MoveFreeHeader, for the head of the master list.                        *)
Moved(h, g, m, r, e) ==
  /\ Touches(h, g, Filed(m, r) \cup {e}) /\ g.master_head = e
  /\ Lists(g, Swap(m, 1, e), r) /\ In(Swap(m, 1, e)) = (In(m) \ {h.master_head}) \cup {e}

LEMMA MoveMaster ==
  ASSUME NEW h, Shaped(h), NEW m, NEW r, Lists(h, m, r), Len(m) >= 1, NEW e \in Address,
         e + 1 \in Address, e \notin Filed(m, r)
  PROVE  Moved(h, MoveFreeHeader(h, h.master_head, e), m, r, e)
<1> DEFINE g == MoveFreeHeader(h, h.master_head, e)
           f == MasterFirst(h, e, GetFree(h, h.master_head).next)
<1>1. /\ Touches(h, f, Filed(m, r) \cup {e})
      /\ Lists(f, Swap(m, 1, e), r) /\ In(Swap(m, 1, e)) = (In(m) \ {h.master_head}) \cup {e}
  BY ReplaceIs
<1>2. Distinct(m) /\ Dll(h, m, 1) /\ h.master_head = At(m, 1)
  BY ListsFacts
<1>3. 1 \in 1 .. Len(m) /\ h.master_head = m[1]
  BY <1>2, FirstIs
<1>4. GetFree(h, h.master_head) = Links(0, GetFree(h, h.master_head).next)
  <2>1. h.mem[m[1] + 1] = Links(At(m, 1 - 1), At(m, 1 + 1)) /\ At(m, 1 - 1) = 0
    BY <1>2, <1>3, DllAt DEF At
  <2> QED
    BY <1>3, <2>1 DEF GetFree, Links
<1>5. g = f
  BY <1>4 DEF MoveFreeHeader, MasterFirst, Null
<1>6. f.master_head = e
  <2>1. f.master_head = At(Swap(m, 1, e), 1)
    BY <1>1 DEF Lists
  <2>2. Swap(m, 1, e)[1] = e /\ Len(Swap(m, 1, e)) = Len(m)
    BY <1>2, <1>3, SwapIs DEF Filed
  <2> QED
    BY <1>3, <2>1, <2>2 DEF At
<1> HIDE DEF f, g
<1> QED
  BY <1>1, <1>5, <1>6 DEF g, Moved

(* MoveFreeHeader, for a chunk of the recycler.                            *)
LEMMA MoveRecycler ==
  ASSUME NEW h, Shaped(h), NEW m, NEW r, Lists(h, m, r), NEW c \in In(r), NEW e \in Address,
         e + 1 \in Address, e \notin Filed(m, r)
  PROVE  LET g == MoveFreeHeader(h, c, e)
         IN  /\ Touches(h, g, Filed(m, r) \cup {e}) /\ g.master_head = h.master_head
             /\ \E r2 : Lists(g, m, r2) /\ In(r2) = (In(r) \ {c}) \cup {e}
<1> DEFINE n == Len(r)
           g == MoveFreeHeader(h, c, e)
<1>0. /\ Distinct(r) /\ h.recycler_head = At(r, 1) /\ h.master_head = At(m, 1)
      /\ \A x \in In(m) : x \in Address /\ x + 1 \in Address /\ x \notin In(r)
      /\ \A x \in In(r) : x \in Address /\ x + 1 \in Address /\ x \notin In(m) /\ x # 0
      /\ \A x, y \in Address : x + 1 = y + 1 => x = y
  BY ListsFacts, AddressPositive
<1>a. Ring(h, r)
  BY ListsFacts
<1>1. n \in Nat
  BY ListsFacts
<1>2. PICK p \in 1 .. n : r[p] = c
  BY DEF In
<1>3. n >= 1
  BY <1>1
<1> DEFINE P == Prv(n, p)
           N == Nxt(n, p)
           a == r[P]
           z == r[N]
<1>4. /\ P \in 1 .. n /\ N \in 1 .. n
      /\ \A j \in 1 .. n : (Nxt(n, j) = p <=> j = P) /\ (Prv(n, j) = p <=> j = N)
      /\ Nxt(n, P) = p /\ Prv(n, N) = p
      /\ (n > 1 => P # p /\ N # p) /\ (n = 1 => P = p /\ N = p)
  BY <1>1, Indices
<1>5. \A j \in 1 .. n : h.mem[r[j] + 1] = Links(r[Prv(n, j)], r[Nxt(n, j)])
  BY <1>0, <1>a, RingLinks
<1>6. \A j \in 1 .. n : r[j] \in In(r) /\ r[j] \in Address /\ r[j] + 1 \in Address /\ r[j] # 0
  BY <1>0 DEF In
<1>7. \A j, i \in 1 .. n : r[j] + 1 = r[i] + 1 => j = i
  BY <1>0, <1>6 DEF Distinct
<1>8. h.mem[c + 1] = Links(a, z) /\ a + 1 \in Address /\ z + 1 \in Address /\ c + 1 \in Address
  BY <1>2, <1>4, <1>5, <1>6
<1>9. n = 1 \/ n > 1
  <2> HIDE DEF n
  <2> QED
    BY <1>1, <1>3
<1>10. (a + 1 = z + 1 <=> P = N) /\ (a = c <=> n = 1) /\ (P = N => a = z)
  BY <1>2, <1>4, <1>7, <1>9
<1>11. h.mem[z + 1] = Links(c, r[Nxt(n, N)]) /\ h.mem[a + 1] = Links(r[Prv(n, P)], c)
  BY <1>2, <1>4, <1>5
<1>12. h.master_head # c
  <2>1. h.master_head = 0 \/ h.master_head \in In(m)
    BY FirstIs, ListsFacts
  <2> QED
    BY <1>0, <2>1
<1>13. \A j \in 1 .. n : r[j] + 1 # e + 1 /\ r[j] # e
  BY <1>0, <1>6 DEF Filed
<1>14. h.recycler_head = r[1] /\ 1 \in 1 .. n
  BY <1>0, <1>3, FirstIs
<1> HIDE DEF P, N, a, z, g
<1> DEFINE w == IF n = 1 THEN Links(e, e) ELSE Links(a, z)
           h1 == [h EXCEPT !.mem[e + 1] = w]
           h2 == [h1 EXCEPT !.mem[a + 1].next = e]
           h3 == [h2 EXCEPT !.mem[z + 1].prev = e]
           h4 == IF n = 1 THEN h1 ELSE h3
           h5 == [h4 EXCEPT !.recycler_head = IF h.recycler_head = c THEN e ELSE h.recycler_head]
<1> HIDE DEF h1, h2, h3, h4, h5, w
<1>15. Wrote(h, h1, e + 1, w)
  BY CellSet DEF h1
<1>16. ASSUME n # 1
       PROVE  /\ Shaped(h3) /\ h3.os = h.os /\ h3.block_list = h.block_list
              /\ h3.recycler_head = h.recycler_head /\ h3.master_head = h.master_head
              /\ h3.mem[e + 1] = Links(a, z)
              /\ P # N => h3.mem[a + 1] = Links(r[Prv(n, P)], e)
              /\ h3.mem[z + 1] = IF P = N THEN Links(e, e) ELSE Links(e, r[Nxt(n, N)])
              /\ \A d \in Address : d \notin {a + 1, z + 1, e + 1} => h3.mem[d] = h.mem[d]
  <2>0. a + 1 # e + 1 /\ z + 1 # e + 1
    BY <1>4, <1>13 DEF a, z
  <2>1. h1.mem[a + 1] = Links(r[Prv(n, P)], c) /\ Shaped(h1)
    BY <1>8, <1>11, <1>15, <2>0 DEF Wrote
  <2>2. Wrote(h1, h2, a + 1, Links(r[Prv(n, P)], e))
    BY <1>8, <2>1, NextSet DEF h2
  <2>3. Shaped(h2)
    BY <2>2 DEF Wrote
  <2>4. CASE P = N
    <3>1. a = z /\ Prv(n, P) = p
      BY <1>4, <1>10, <2>4
    <3>2. h2.mem[z + 1] = Links(c, e)
      BY <1>2, <2>2, <3>1 DEF Wrote
    <3>3. Wrote(h2, h3, z + 1, Links(e, e))
      BY <1>8, <2>3, <3>2, PrevSet DEF h3
    <3>4. w = Links(a, z)
      BY <1>16 DEF w
    <3> QED
      BY <1>15, <2>0, <2>2, <2>4, <3>1, <3>3, <3>4 DEF Wrote
  <2>5. CASE P # N
    <3>2. h2.mem[z + 1] = Links(c, r[Nxt(n, N)])
      BY <1>8, <1>10, <1>11, <1>15, <2>0, <2>2, <2>5 DEF Wrote
    <3>3. Wrote(h2, h3, z + 1, Links(e, r[Nxt(n, N)]))
      BY <1>8, <2>3, <3>2, PrevSet DEF h3
    <3>4. w = Links(a, z)
      BY <1>16 DEF w
    <3> QED
      BY <1>8, <1>10, <1>15, <2>0, <2>2, <2>5, <3>3, <3>4 DEF Wrote
  <2> QED
    BY <2>4, <2>5
<1>17. g = h5
  <2>1. GetFree(h, c).prev = a /\ GetFree(h, c).next = z /\ GetFree(h, c) = Links(a, z)
    BY <1>8 DEF GetFree, Links
  <2> DEFINE moved == IF a = c THEN [h EXCEPT !.mem[e + 1] = Links(e, e)]
                      ELSE [h EXCEPT !.mem[e + 1] = Links(a, z),
                                     !.mem[a + 1].next = e, !.mem[z + 1].prev = e]
  <2>2. g = [moved EXCEPT !.recycler_head = IF moved.recycler_head = c THEN e ELSE moved.recycler_head]
    BY <1>12, <2>1 DEF g, MoveFreeHeader
  <2>3. moved = h4
    <3>1. CASE n = 1
      <4>1. h4 = h1 /\ a = c /\ w = Links(e, e)
        BY <1>10, <3>1 DEF h4, w
      <4> QED
        BY <4>1 DEF h1
    <3>2. CASE n # 1
      <4>1. h4 = h3 /\ a # c /\ w = Links(a, z)
        BY <1>10, <3>2 DEF h4, w
      <4>2. [h EXCEPT !.mem[e + 1] = Links(a, z), !.mem[a + 1].next = e, !.mem[z + 1].prev = e] =
            [[[h EXCEPT !.mem[e + 1] = Links(a, z)] EXCEPT !.mem[a + 1].next = e]
               EXCEPT !.mem[z + 1].prev = e]
        OBVIOUS
      <4> QED
        BY <4>1, <4>2 DEF h1, h2, h3
    <3> QED
      BY <3>1, <3>2
  <2>4. h4.recycler_head = h.recycler_head
    BY <1>15, <1>16 DEF h4, Wrote
  <2> HIDE DEF moved
  <2> QED
    BY <2>2, <2>3, <2>4 DEF h5
<1>18. /\ Shaped(h4) /\ h4.os = h.os /\ h4.block_list = h.block_list
       /\ h4.recycler_head = h.recycler_head /\ h4.master_head = h.master_head
       /\ h4.mem[e + 1] = w
  BY <1>15, <1>16 DEF h4, Wrote, w
<1>19. RecyclerSet(h4, h5, IF h.recycler_head = c THEN e ELSE h.recycler_head)
  BY <1>18, HeadSet DEF h5
<1>20. /\ Shaped(h5) /\ h5.os = h.os /\ h5.block_list = h.block_list
       /\ h5.master_head = h.master_head /\ h5.mem = h4.mem
       /\ h5.recycler_head = IF h.recycler_head = c THEN e ELSE h.recycler_head
  BY <1>18, <1>19 DEF RecyclerSet
<1>21. \A d \in Address : d \notin {a + 1, z + 1, e + 1} => h4.mem[d] = h.mem[d]
  BY <1>15, <1>16 DEF h4, Wrote
<1>22. \A j \in 1 .. n : j # p =>
           h4.mem[r[j] + 1] = Links(IF Prv(n, j) = p THEN e ELSE r[Prv(n, j)],
                                    IF Nxt(n, j) = p THEN e ELSE r[Nxt(n, j)])
  <2> TAKE j \in 1 .. n
  <2> HAVE j # p
  <2>0. n # 1 /\ h4 = h3
    <3>1. n # 1
      <4> HIDE DEF n
      <4> QED
        BY <1>1
    <3> QED
      BY <3>1 DEF h4
  <2>1. CASE j = P /\ j # N
    <3>1. Nxt(n, j) = p /\ Prv(n, j) # p
      BY <1>4, <2>1
    <3> QED
      BY <1>16, <2>0, <2>1, <3>1 DEF a
  <2>2. CASE j = N /\ j # P
    <3>1. Nxt(n, j) # p /\ Prv(n, j) = p
      BY <1>4, <2>2
    <3> QED
      BY <1>16, <2>0, <2>2, <3>1 DEF z
  <2>3. CASE j = N /\ j = P
    <3>1. Nxt(n, j) = p /\ Prv(n, j) = p
      BY <1>4, <2>3
    <3> QED
      BY <1>16, <2>0, <2>3, <3>1 DEF z
  <2>4. CASE j # N /\ j # P
    <3>1. Nxt(n, j) # p /\ Prv(n, j) # p
      BY <1>4, <2>4
    <3>2. r[j] + 1 \in Address /\ r[j] + 1 \notin {a + 1, z + 1, e + 1}
      BY <1>4, <1>6, <1>7, <1>13, <2>4 DEF a, z
    <3> QED
      BY <1>5, <1>21, <3>1, <3>2
  <2> QED
    BY <2>1, <2>2, <2>3, <2>4
<1>23. h4.mem[e + 1] = IF n = 1 THEN Links(e, e) ELSE Links(r[P], r[N])
  BY <1>18 DEF w, a, z
<1>24. /\ Ring(h4, Swap(r, p, e)) /\ In(Swap(r, p, e)) = (In(r) \ {c}) \cup {e}
       /\ At(Swap(r, p, e), 1) = IF p = 1 THEN e ELSE At(r, 1)
  <2>1. e \notin In(r)
    BY DEF Filed
  <2>2. /\ Ring(h4, Swap(r, p, e)) /\ In(Swap(r, p, e)) = (In(r) \ {r[p]}) \cup {e}
        /\ At(Swap(r, p, e), 1) = IF p = 1 THEN e ELSE At(r, 1)
    BY <1>a, <1>22, <1>23, <2>1, RingSwap DEF P, N
  <2> QED
    BY <1>2, <2>2
<1>25. h.recycler_head = c <=> p = 1
  <2>1. \A j, i \in 1 .. n : r[j] = r[i] => j = i
    BY <1>0 DEF Distinct
  <2> QED
    BY <1>2, <1>14, <2>1
<1>26. \A x \in In(m) : h5.mem[x + 1] = h.mem[x + 1]
  <2> TAKE x \in In(m)
  <2>1. x + 1 \in Address /\ x + 1 # a + 1 /\ x + 1 # z + 1
    BY <1>0, <1>4, <1>6 DEF a, z
  <2>2. x + 1 # e + 1
    BY <1>0 DEF Filed
  <2> QED
    BY <1>20, <1>21, <2>1, <2>2
<1>27. Ring(h5, Swap(r, p, e))
  BY <1>20, <1>24 DEF Ring
<1>28. Lists(h5, m, Swap(r, p, e))
  <2>1. \A x \in In(Swap(r, p, e)) : x + 1 \in Address /\ x \notin In(m)
    BY <1>0, <1>24 DEF Filed
  <2>2. h5.recycler_head = At(Swap(r, p, e), 1)
    BY <1>0, <1>20, <1>24, <1>25
  <2> QED
    BY <1>20, <1>26, <1>27, <2>1, <2>2, RingStep
<1>29. Touches(h, h5, Filed(m, r) \cup {e})
  <2>1. a \in In(r) /\ z \in In(r) /\ a \in Address /\ z \in Address
    BY <1>4, <1>6 DEF a, z
  <2>2. \A d \in Address : d - 1 \notin {a, z, e} => d \notin {a + 1, z + 1, e + 1}
    BY <2>1, AddressPositive
  <2> QED
    BY <1>20, <1>21, <2>1, <2>2 DEF Touches, Filed
<1> QED
  BY <1>17, <1>20, <1>24, <1>28, <1>29 DEF g

-----------------------------------------------------------------------------
(***************************************************************************)
(* Chunks. C are the chunks of the blocks B in the memory g, which tile    *)
(* them; the chunk to the right of x, if x is one of C, has not been told  *)
(* the length of x.                                                        *)
(***************************************************************************)
IsChunk(g, c) ==
  /\ g[c] = Chunk(g[c].prev, g[c].last, g[c].used, FALSE, g[c].len)
  /\ g[c].prev \in Nat /\ g[c].len \in Nat /\ g[c].len >= 1
  /\ g[c].last \in BOOLEAN /\ g[c].used \in BOOLEAN

End(g, c) == c + g[c].len

Inside(g, C, B) ==
  /\ B \subseteq Block /\ C \subseteq Address
  /\ \A b \in B : b + 1 \in C
  /\ \A c \in C : IsChunk(g, c) /\ Home(c) \in B /\ Home(c) < c /\ End(g, c) <= Home(c) + BlockSize

Rightward(g, C, x) ==
  /\ \A c \in C : g[c].last => End(g, c) = Home(c) + BlockSize
  /\ \A c \in C : ~g[c].last => End(g, c) \in C /\ Home(End(g, c)) = Home(c)
  /\ \A c \in C : ~g[c].last /\ c # x => g[End(g, c)].prev = g[c].len

Leftward(g, C, x) ==
  \A c \in C :
    \/ x \in C /\ ~g[x].last /\ c = End(g, x)
    \/ g[c].prev = 0 /\ c = Home(c) + 1
    \/ /\ g[c].prev # 0 /\ c - g[c].prev \in C
       /\ ~g[c - g[c].prev].last /\ g[c - g[c].prev].len = g[c].prev

Apart(g, C) == \A c, d \in C : c < d => End(g, c) <= d

Tiled(g, C, B, x) == Inside(g, C, B) /\ Rightward(g, C, x) /\ Leftward(g, C, x) /\ Apart(g, C)

LEMMA TiledSame ==
  ASSUME NEW g, NEW C, NEW B, NEW x, Tiled(g, C, B, x), NEW g2, \A c \in C : g2[c] = g[c]
  PROVE  Tiled(g2, C, B, x)
<1>1. Inside(g2, C, B)
  BY DEF Tiled, Inside, IsChunk, End
<1>2. Rightward(g2, C, x)
  <2>1. \A c \in C : End(g2, c) = End(g, c)
    BY DEF End
  <2> QED
    BY <2>1 DEF Tiled, Rightward
<1>3. Leftward(g2, C, x)
  <2>1. \A c \in C : End(g2, c) = End(g, c)
    BY DEF End
  <2> QED
    BY <2>1 DEF Tiled, Leftward
<1>4. Apart(g2, C)
  BY DEF Tiled, Apart, End
<1> QED
  BY <1>1, <1>2, <1>3, <1>4 DEF Tiled

(* A chunk and the addresses it covers.                                    *)
LEMMA ChunkFacts ==
  ASSUME NEW g, NEW C, NEW B, NEW x, Tiled(g, C, B, x), NEW c \in C
  PROVE  /\ IsChunk(g, c) /\ c \in Nat /\ c >= 2 /\ c \in Address
         /\ Home(c) \in B /\ Home(c) \in Block /\ Home(c) \in Nat /\ Home(c) >= 1 /\ Home(c) < c
         /\ End(g, c) \in Nat /\ End(g, c) <= Home(c) + BlockSize
         /\ \A a \in c .. End(g, c) - 1 : a \in Address /\ Home(a) = Home(c)
         /\ \A a \in c + 1 .. End(g, c) - 1 : a \notin C
         /\ g[c].len >= 2 => c + 1 \in Address /\ c + 1 \notin C
<1>1. IsChunk(g, c) /\ Home(c) \in B /\ Home(c) \in Block /\ Home(c) < c /\ c \in Address
      /\ End(g, c) <= Home(c) + BlockSize
  BY DEF Tiled, Inside
<1>2. c \in Nat /\ c >= 1 /\ g[c].len \in Nat /\ g[c].len >= 1 /\ End(g, c) = c + g[c].len
  BY <1>1, AddressPositive DEF IsChunk, End
<1>3. Home(c) \in Nat /\ Home(c) >= 1
      /\ \A a \in Home(c) .. Home(c) + SlotSize - 1 : a \in Address /\ Home(a) = Home(c)
  BY <1>1, BlockFacts
<1>4. ASSUME NEW a \in c .. End(g, c) - 1 PROVE a \in Address /\ Home(a) = Home(c)
  <2>1. a \in Home(c) .. Home(c) + SlotSize - 1
    BY <1>1, <1>2, <1>3, Sizes
  <2> QED
    BY <1>3, <2>1
<1>5. ASSUME NEW a \in c + 1 .. End(g, c) - 1 PROVE a \notin C
  <2> SUFFICES ASSUME a \in C PROVE FALSE
    OBVIOUS
  <2>1. c < a /\ ~(End(g, c) <= a) /\ c \in C
    BY <1>2
  <2> QED
    BY <2>1 DEF Tiled, Apart
<1>6. g[c].len >= 2 => c + 1 \in c .. End(g, c) - 1 /\ c + 1 \in c + 1 .. End(g, c) - 1
  BY <1>2
<1>7. c >= 2 /\ End(g, c) \in Nat
  BY <1>1, <1>2, <1>3
<1>8. g[c].len >= 2 => c + 1 \in Address /\ c + 1 \notin C
  BY <1>4, <1>5, <1>6
<1> QED
  BY <1>1, <1>2, <1>3, <1>4, <1>5, <1>7, <1>8

(* The chunk n units into c begins there.                                  *)
IsCut(g, g2, C, c, n) ==
  /\ g2[c] = Chunk(g[c].prev, FALSE, g[c].used, FALSE, n)
  /\ g2[c + n] = Chunk(n, g[c].last, FALSE, FALSE, g[c].len - n)
  /\ \A d \in C : d # c => g2[d] = g[d]

LEMMA CutTiles ==
  ASSUME NEW g, NEW C, NEW B, Tiled(g, C, B, 0), NEW c \in C, NEW n \in Nat, n >= 1, n < g[c].len,
         NEW g2, IsCut(g, g2, C, c, n)
  PROVE  Tiled(g2, C \cup {c + n}, B, c + n) /\ c + n \notin C /\ c + n \in Address
<1> USE DEF IsCut
<1> DEFINE e == c + n
           D == C \cup {e}
<1>1. /\ IsChunk(g, c) /\ c \in Nat /\ c >= 2 /\ c \in Address
      /\ Home(c) \in B /\ Home(c) \in Block /\ Home(c) \in Nat /\ Home(c) >= 1 /\ Home(c) < c
      /\ End(g, c) \in Nat /\ End(g, c) <= Home(c) + BlockSize
      /\ \A a \in c .. End(g, c) - 1 : a \in Address /\ Home(a) = Home(c)
      /\ \A a \in c + 1 .. End(g, c) - 1 : a \notin C
  BY ChunkFacts
<1>2. g[c].len \in Nat /\ g[c].last \in BOOLEAN /\ g[c].prev \in Nat /\ g[c].used \in BOOLEAN
      /\ End(g, c) = c + g[c].len
  BY <1>1 DEF IsChunk, End
<1>3. e \in c + 1 .. End(g, c) - 1 /\ e \in c .. End(g, c) - 1 /\ e \in Nat /\ c < e
  BY <1>1, <1>2
<1>4. e \notin C /\ e \in Address /\ Home(e) = Home(c)
  BY <1>1, <1>3
<1>5. /\ g2[c].len = n /\ g2[c].prev = g[c].prev /\ g2[c].used = g[c].used /\ g2[c].last = FALSE
      /\ g2[e].len = g[c].len - n /\ g2[e].prev = n /\ g2[e].used = FALSE /\ g2[e].last = g[c].last
  BY DEF Chunk
<1> HIDE DEF e
<1>6. End(g2, c) = e /\ End(g2, e) = End(g, c) /\ \A d \in C : d # c => End(g2, d) = End(g, d)
  <2>1. End(g2, c) = e
    BY <1>5 DEF End, e
  <2>2. e + (g[c].len - n) = c + g[c].len
    BY <1>1, <1>2 DEF e
  <2>3. End(g2, e) = End(g, c)
    BY <1>2, <1>5, <2>2 DEF End
  <2> QED
    BY <2>1, <2>3 DEF End
<1>7. IsChunk(g2, c) /\ IsChunk(g2, e)
  <2>1. g[c].len - n \in Nat /\ g[c].len - n >= 1
    BY <1>2
  <2> QED
    BY <1>2, <1>5, <2>1 DEF IsChunk, e
<1>8. Inside(g2, D, B)
  <2>1. /\ B \subseteq Block /\ C \subseteq Address
        /\ \A b \in B : b + 1 \in C
        /\ \A d \in C : IsChunk(g, d) /\ Home(d) \in B /\ Home(d) < d /\ End(g, d) <= Home(d) + BlockSize
    BY DEF Tiled, Inside
  <2>2. \A d \in C : d # c => IsChunk(g2, d)
    BY <2>1 DEF IsChunk
  <2>3. Home(e) < e /\ e <= Home(c) + BlockSize
    BY <1>1, <1>3, <1>4, Sizes
  <2>4. \A d \in D : IsChunk(g2, d) /\ Home(d) \in B /\ Home(d) < d /\ End(g2, d) <= Home(d) + BlockSize
    BY <1>1, <1>4, <1>6, <1>7, <2>1, <2>2, <2>3
  <2> QED
    BY <1>4, <2>1, <2>4 DEF Inside
<1>9. Rightward(g2, D, e)
  <2>1. /\ \A d \in C : g[d].last => End(g, d) = Home(d) + BlockSize
        /\ \A d \in C : ~g[d].last => End(g, d) \in C /\ Home(End(g, d)) = Home(d)
        /\ \A d \in C : ~g[d].last /\ d # 0 => g[End(g, d)].prev = g[d].len
    BY DEF Tiled, Rightward
  <2>2. \A d \in D : g2[d].last => End(g2, d) = Home(d) + BlockSize
    <3> TAKE d \in D
    <3>1. CASE d = e
      BY <1>4, <1>5, <1>6, <2>1, <3>1
    <3>2. CASE d = c
      BY <1>5, <3>2
    <3>3. CASE d \in C /\ d # c
      BY <1>6, <2>1, <3>3
    <3> QED
      BY <3>1, <3>2, <3>3
  <2>3. \A d \in D : ~g2[d].last => End(g2, d) \in D /\ Home(End(g2, d)) = Home(d)
    BY <1>4, <1>5, <1>6, <2>1
  <2>4. \A d \in C : d # 0
    BY AddressPositive, ChunkFacts
  <2>5. \A d \in C : End(g, d) = c /\ ~g[d].last => g2[c].prev = g[d].len
    BY <1>5, <2>1, <2>4
  <2>6. \A d \in D : ~g2[d].last /\ d # e => g2[End(g2, d)].prev = g2[d].len
    <3> TAKE d \in D
    <3> HAVE ~g2[d].last /\ d # e
    <3>1. CASE d = c
      BY <1>5, <1>6, <3>1
    <3>2. CASE d \in C /\ d # c
      <4>1. ~g[d].last /\ End(g2, d) = End(g, d) /\ g2[d].len = g[d].len /\ End(g, d) \in C
        BY <1>6, <2>1, <3>2
      <4>2. g[End(g, d)].prev = g[d].len
        BY <2>1, <2>4, <3>2, <4>1
      <4> QED
        BY <2>5, <3>2, <4>1, <4>2
    <3> QED
      BY <3>1, <3>2
  <2> QED
    BY <2>2, <2>3, <2>6 DEF Rightward
<1>10. Leftward(g2, D, e)
  <2>1. \A d \in C :
          \/ g[d].prev = 0 /\ d = Home(d) + 1
          \/ g[d].prev # 0 /\ d - g[d].prev \in C /\ ~g[d - g[d].prev].last /\ g[d - g[d].prev].len = g[d].prev
    <3>1. 0 \notin C
      BY ChunkFacts
    <3> QED
      BY <3>1 DEF Tiled, Leftward
  <2>2. ASSUME NEW d \in C
        PROVE  \/ e \in D /\ ~g2[e].last /\ d = End(g2, e)
               \/ g2[d].prev = 0 /\ d = Home(d) + 1
               \/ /\ g2[d].prev # 0 /\ d - g2[d].prev \in D
                  /\ ~g2[d - g2[d].prev].last /\ g2[d - g2[d].prev].len = g2[d].prev
    <3>1. g2[d].prev = g[d].prev
      BY <1>5
    <3>2. CASE g[d].prev = 0 /\ d = Home(d) + 1
      BY <3>1, <3>2
    <3>3. CASE g[d].prev # 0 /\ d - g[d].prev \in C /\ ~g[d - g[d].prev].last /\ g[d - g[d].prev].len = g[d].prev
      <4>1. CASE d - g[d].prev = c
        <5>1. d \in Nat /\ g[d].prev \in Nat
          BY ChunkFacts DEF IsChunk
        <5>2. d = c + g[c].len
          BY <1>1, <3>3, <4>1, <5>1
        <5> QED
          BY <1>2, <1>5, <1>6, <3>3, <4>1, <5>2
      <4>2. CASE d - g[d].prev # c
        BY <3>1, <3>3, <4>2
      <4> QED
        BY <4>1, <4>2
    <3> QED
      BY <2>1, <3>2, <3>3
  <2>3. g2[e].prev # 0 /\ e - g2[e].prev \in D /\ ~g2[e - g2[e].prev].last /\ g2[e - g2[e].prev].len = g2[e].prev
    <3>1. e - n = c /\ n # 0
      BY <1>1 DEF e
    <3> QED
      BY <1>5, <3>1
  <2> QED
    BY <2>2, <2>3 DEF Leftward
<1>11. Apart(g2, D)
  <2>1. \A d, f \in C : d < f => End(g, d) <= f
    BY DEF Tiled, Apart
  <2>2. \A d \in C : d \in Nat /\ End(g, d) \in Nat
    BY ChunkFacts
  <2>3. ASSUME NEW d \in D, NEW f \in D, d < f PROVE End(g2, d) <= f
    <3>1. CASE d = c
      <4>1. f = e \/ (f \in C /\ End(g, c) <= f)
        BY <2>1, <2>3, <3>1
      <4> QED
        BY <1>1, <1>3, <1>6, <2>2, <3>1, <4>1
    <3>2. CASE d = e
      <4>1. f \in C /\ c < f /\ End(g, c) <= f
        BY <1>1, <1>3, <2>1, <2>2, <2>3, <3>2
      <4> QED
        BY <1>6, <3>2, <4>1
    <3>3. CASE d \in C /\ d # c
      <4>1. CASE f = e
        <5>1. d < c
          <6>1. ~(c < d)
            <7> SUFFICES ASSUME c < d PROVE FALSE
              OBVIOUS
            <7>1. End(g, c) <= d
              BY <2>1, <3>3
            <7> QED
              BY <1>1, <1>3, <2>2, <2>3, <3>3, <4>1, <7>1
          <6> QED
            BY <1>1, <2>2, <3>3, <6>1
        <5>2. End(g, d) <= c
          BY <2>1, <3>3, <5>1
        <5>3. End(g2, d) = End(g, d) /\ End(g, d) \in Nat
          BY <1>6, <2>2, <3>3
        <5> QED
          BY <1>1, <1>3, <4>1, <5>2, <5>3
      <4>2. CASE f \in C
        BY <1>6, <2>1, <2>3, <3>3, <4>2
      <4> QED
        BY <4>1, <4>2
    <3> QED
      BY <3>1, <3>2, <3>3
  <2> QED
    BY <2>3 DEF Apart
<1> QED
  BY <1>4, <1>8, <1>9, <1>10, <1>11 DEF Tiled, e

(* What is known of the neighbours of a chunk.                             *)
LEMMA Neighbours ==
  ASSUME NEW g, NEW C, NEW B, Tiled(g, C, B, 0), NEW c \in C
  PROVE  /\ g[c].last => End(g, c) = Home(c) + BlockSize /\ End(g, c) \notin C
         /\ ~g[c].last => /\ End(g, c) \in C /\ Home(End(g, c)) = Home(c) /\ End(g, c) > c
                          /\ g[End(g, c)].prev = g[c].len
         /\ g[c].prev = 0 => c = Home(c) + 1
         /\ g[c].prev # 0 => /\ c - g[c].prev \in C /\ ~g[c - g[c].prev].last
                             /\ g[c - g[c].prev].len = g[c].prev /\ End(g, c - g[c].prev) = c
                             /\ c - g[c].prev < c /\ Home(c - g[c].prev) = Home(c)
<1>1. IsChunk(g, c) /\ c \in Nat /\ c >= 2 /\ Home(c) \in Nat /\ End(g, c) \in Nat
      /\ Home(c) \in Block
  BY ChunkFacts
<1>2. 0 \notin C /\ \A d \in C : d # 0
  BY ChunkFacts
<1>3. g[c].len \in Nat /\ g[c].len >= 1 /\ g[c].prev \in Nat
  BY <1>1 DEF IsChunk
<1>4. g[c].last => End(g, c) = Home(c) + BlockSize /\ End(g, c) \notin C
  <2> SUFFICES ASSUME g[c].last PROVE End(g, c) = Home(c) + BlockSize /\ End(g, c) \notin C
    OBVIOUS
  <2>1. End(g, c) = Home(c) + BlockSize
    BY DEF Tiled, Rightward
  <2>2. ASSUME End(g, c) \in C PROVE FALSE
    <3>1. /\ Home(End(g, c)) \in Block /\ Home(End(g, c)) \in Nat /\ Home(End(g, c)) < End(g, c)
          /\ IsChunk(g, End(g, c))
          /\ End(g, End(g, c)) <= Home(End(g, c)) + BlockSize
      BY <2>2, ChunkFacts
    <3>2. Home(End(g, c)) = Home(c) \/ Home(c) + SlotSize <= Home(End(g, c))
          \/ Home(End(g, c)) + SlotSize <= Home(c)
      BY <1>1, <3>1, BlockFacts
    <3>3. g[End(g, c)].len >= 1 /\ g[End(g, c)].len \in Nat
          /\ End(g, End(g, c)) = End(g, c) + g[End(g, c)].len
      BY <3>1 DEF IsChunk, End
    <3> QED
      BY <1>1, <2>1, <3>1, <3>2, <3>3, Sizes
  <2> QED
    BY <2>1, <2>2
<1>5. ~g[c].last => /\ End(g, c) \in C /\ Home(End(g, c)) = Home(c) /\ End(g, c) > c
                    /\ g[End(g, c)].prev = g[c].len
  BY <1>1, <1>2, <1>3 DEF Tiled, Rightward, End
<1>6. \/ g[c].prev = 0 /\ c = Home(c) + 1
      \/ g[c].prev # 0 /\ c - g[c].prev \in C /\ ~g[c - g[c].prev].last /\ g[c - g[c].prev].len = g[c].prev
  BY <1>2 DEF Tiled, Leftward
<1>7. g[c].prev # 0 => /\ c - g[c].prev \in C /\ ~g[c - g[c].prev].last
                       /\ g[c - g[c].prev].len = g[c].prev /\ End(g, c - g[c].prev) = c
                       /\ c - g[c].prev < c /\ Home(c - g[c].prev) = Home(c)
  <2> SUFFICES ASSUME g[c].prev # 0
               PROVE  /\ c - g[c].prev \in C /\ ~g[c - g[c].prev].last
                      /\ g[c - g[c].prev].len = g[c].prev /\ End(g, c - g[c].prev) = c
                      /\ c - g[c].prev < c /\ Home(c - g[c].prev) = Home(c)
    OBVIOUS
  <2> DEFINE l == c - g[c].prev
  <2>1. l \in C /\ ~g[l].last /\ g[l].len = g[c].prev
    BY <1>6
  <2>2. End(g, l) = c /\ l < c
    BY <1>1, <1>3, <2>1 DEF End
  <2>3. Home(End(g, l)) = Home(l)
    BY <2>1 DEF Tiled, Rightward
  <2> QED
    BY <2>1, <2>2, <2>3
<1> QED
  BY <1>4, <1>5, <1>6, <1>7

(* c takes over the chunk r to its right.                                  *)
IsAbsorb(g, g2, C, c, r) ==
  /\ g2[c] = Chunk(g[c].prev, g[r].last, g[c].used, FALSE, g[c].len + g[r].len)
  /\ \A d \in C : d # c => g2[d] = g[d]

LEMMA AbsorbTiles ==
  ASSUME NEW g, NEW C, NEW B, NEW x, Tiled(g, C, B, x), NEW c \in C, ~g[c].last,
         NEW r, r = End(g, c), x \in {0, r}, NEW g2, IsAbsorb(g, g2, C, c, r)
  PROVE  Tiled(g2, C \ {r}, B, c) /\ r \in C /\ c < r /\ r \notin {b + 1 : b \in B}
<1> USE DEF IsAbsorb
<1> DEFINE D == C \ {r}
<1>1. r \in C /\ Home(r) = Home(c)
  BY DEF Tiled, Rightward
<1>2. /\ IsChunk(g, c) /\ c \in Nat /\ c >= 2 /\ Home(c) \in Nat
      /\ End(g, c) \in Nat /\ Home(c) < c /\ Home(c) \in B
  BY ChunkFacts
<1>3. /\ IsChunk(g, r) /\ r \in Nat /\ End(g, r) \in Nat /\ End(g, r) <= Home(r) + BlockSize
  BY <1>1, ChunkFacts
<1>4. /\ g[c].len \in Nat /\ g[c].len >= 1 /\ g[c].prev \in Nat /\ g[c].used \in BOOLEAN
      /\ g[r].len \in Nat /\ g[r].len >= 1 /\ g[r].last \in BOOLEAN
      /\ r = c + g[c].len /\ End(g, r) = r + g[r].len
  BY <1>2, <1>3 DEF IsChunk, End
<1>5. c < r /\ r < End(g, r) /\ c # r
  BY <1>2, <1>4
<1>6. /\ g2[c].len = g[c].len + g[r].len /\ g2[c].prev = g[c].prev /\ g2[c].used = g[c].used
      /\ g2[c].last = g[r].last
  BY DEF Chunk
<1>7. End(g2, c) = End(g, r) /\ \A d \in C : d # c => End(g2, d) = End(g, d)
  <2>1. c + (g[c].len + g[r].len) = r + g[r].len
    BY <1>2, <1>4
  <2>2. End(g2, c) = End(g, r)
    BY <1>4, <1>6, <2>1 DEF End
  <2> QED
    BY <2>2 DEF End
<1>8. \A d, f \in C : d < f => End(g, d) <= f
  BY DEF Tiled, Apart
<1>9. \A d \in C : d \in Nat /\ End(g, d) \in Nat /\ d < End(g, d) /\ d # 0
  <2> TAKE d \in C
  <2>1. IsChunk(g, d) /\ d \in Nat /\ d >= 2 /\ End(g, d) \in Nat
    BY ChunkFacts
  <2> QED
    BY <2>1 DEF IsChunk, End
(* Only c ends where r begins.                                             *)
<1>10. \A d \in C : End(g, d) = r => d = c
  <2> SUFFICES ASSUME NEW d \in C, End(g, d) = r, d # c PROVE FALSE
    OBVIOUS
  <2>1. d \in Nat /\ d < r /\ c < r
    BY <1>5, <1>9
  <2>2. CASE d < c
    <3>1. End(g, d) <= c
      BY <1>8, <2>2
    <3> QED
      BY <1>2, <1>3, <2>1, <3>1
  <2>3. CASE c < d
    <3>1. End(g, c) <= d
      BY <1>8, <2>3
    <3> QED
      BY <1>2, <1>3, <2>1, <3>1
  <2> QED
    BY <1>2, <2>1, <2>2, <2>3
<1>11. r \notin {b + 1 : b \in B}
  <2> SUFFICES ASSUME NEW b \in B, r = b + 1 PROVE FALSE
    OBVIOUS
  <2>1. b \in Block
    BY DEF Tiled, Inside
  <2>2. b \in Nat /\ Home(b + 1) = b
    <3>1. b \in Nat /\ b + 1 \in b .. b + SlotSize - 1
      BY <2>1, BlockFacts, Sizes
    <3> QED
      BY <2>1, <3>1, BlockFacts
  <2>3. Home(c) = b
    BY <1>1, <2>2
  <2> QED
    BY <1>2, <1>5, <2>2, <2>3
<1> HIDE DEF D
<1>12. \A d \in D : d \in C /\ d # r
  BY DEF D
<1>13. Inside(g2, D, B)
  <2>1. /\ B \subseteq Block /\ C \subseteq Address
        /\ \A b \in B : b + 1 \in C
        /\ \A d \in C : IsChunk(g, d) /\ Home(d) \in B /\ Home(d) < d /\ End(g, d) <= Home(d) + BlockSize
    BY DEF Tiled, Inside
  <2>2. IsChunk(g2, c)
    <3>1. g[c].len + g[r].len \in Nat /\ g[c].len + g[r].len >= 1
      BY <1>4
    <3> QED
      BY <1>4, <1>6, <3>1 DEF IsChunk
  <2>3. ASSUME NEW d \in D
        PROVE  IsChunk(g2, d) /\ Home(d) \in B /\ Home(d) < d /\ End(g2, d) <= Home(d) + BlockSize
    <3>1. CASE d = c
      BY <1>1, <1>2, <1>3, <1>7, <2>2, <3>1
    <3>2. CASE d # c
      <4>1. d \in C /\ g2[d] = g[d] /\ End(g2, d) = End(g, d)
        BY <1>7, <1>12, <3>2
      <4> QED
        BY <2>1, <4>1 DEF IsChunk
    <3> QED
      BY <3>1, <3>2
  <2>4. \A b \in B : b + 1 \in D
    BY <1>11, <2>1 DEF D
  <2> QED
    BY <1>12, <2>1, <2>3, <2>4 DEF Inside
<1>14. Rightward(g2, D, c)
  <2>1. /\ \A d \in C : g[d].last => End(g, d) = Home(d) + BlockSize
        /\ \A d \in C : ~g[d].last => End(g, d) \in C /\ Home(End(g, d)) = Home(d)
        /\ \A d \in C : ~g[d].last /\ d # x => g[End(g, d)].prev = g[d].len
    BY DEF Tiled, Rightward
  <2>2. ASSUME NEW d \in D
        PROVE  /\ g2[d].last => End(g2, d) = Home(d) + BlockSize
               /\ ~g2[d].last => End(g2, d) \in D /\ Home(End(g2, d)) = Home(d)
               /\ ~g2[d].last /\ d # c => g2[End(g2, d)].prev = g2[d].len
    <3>1. CASE d = c
      <4>1. End(g, r) # r
        BY <1>3, <1>5
      <4> QED
        BY <1>1, <1>6, <1>7, <2>1, <3>1, <4>1 DEF D
    <3>2. CASE d # c
      <4>1. d \in C /\ d # r /\ g2[d] = g[d] /\ End(g2, d) = End(g, d) /\ End(g, d) # r
        BY <1>7, <1>10, <1>12, <3>2
      <4>2. d # x
        BY <1>9, <4>1
      <4>3. ~g[d].last => End(g, d) \in C /\ g[End(g, d)].prev = g[d].len
        BY <2>1, <4>1, <4>2
      <4>4. ~g[d].last => g2[End(g, d)].prev = g[d].len
        <5>1. End(g, d) = c => g2[c].prev = g[c].prev
          BY <1>6
        <5> QED
          BY <4>3, <5>1
      <4> QED
        BY <2>1, <4>1, <4>3, <4>4 DEF D
    <3> QED
      BY <3>1, <3>2
  <2> QED
    BY <2>2 DEF Rightward
<1>15. Leftward(g2, D, c)
  <2> SUFFICES ASSUME NEW d \in D
               PROVE  \/ c \in D /\ ~g2[c].last /\ d = End(g2, c)
                      \/ g2[d].prev = 0 /\ d = Home(d) + 1
                      \/ /\ g2[d].prev # 0 /\ d - g2[d].prev \in D
                         /\ ~g2[d - g2[d].prev].last /\ g2[d - g2[d].prev].len = g2[d].prev
    BY DEF Leftward
  <2>0. d \in C /\ d # r /\ c \in D /\ g2[d].prev = g[d].prev
    BY <1>5, <1>6, <1>12 DEF D
  <2>1. \/ x \in C /\ ~g[x].last /\ d = End(g, x)
        \/ g[d].prev = 0 /\ d = Home(d) + 1
        \/ g[d].prev # 0 /\ d - g[d].prev \in C /\ ~g[d - g[d].prev].last /\ g[d - g[d].prev].len = g[d].prev
    BY <2>0 DEF Tiled, Leftward
  <2>2. CASE x \in C /\ ~g[x].last /\ d = End(g, x)
    <3>1. x = r
      BY <1>9, <2>2
    <3> QED
      BY <1>6, <1>7, <2>0, <2>2, <3>1
  <2>3. CASE g[d].prev = 0 /\ d = Home(d) + 1
    BY <2>0, <2>3
  <2>4. CASE g[d].prev # 0 /\ d - g[d].prev \in C /\ ~g[d - g[d].prev].last /\ g[d - g[d].prev].len = g[d].prev
    <3> DEFINE l == d - g[d].prev
    <3>0. d \in Nat /\ g[d].prev \in Nat /\ l \in C /\ ~g[l].last /\ g[l].len = g[d].prev
      BY <2>0, <2>4, ChunkFacts DEF IsChunk
    <3>1. End(g, l) = d
      BY <3>0 DEF End
    <3>2. CASE l = r
      <4>1. d = End(g2, c) /\ ~g2[c].last
        BY <1>6, <1>7, <3>0, <3>1, <3>2
      <4> QED
        BY <2>0, <4>1
    <3>3. CASE l # r
      <4>1. l # c
        BY <2>0, <3>1
      <4>2. l \in D /\ g2[l] = g[l]
        BY <3>0, <3>3, <4>1 DEF D
      <4> QED
        BY <2>0, <2>4, <3>0, <4>2
    <3> QED
      BY <3>2, <3>3
  <2> QED
    BY <2>1, <2>2, <2>3, <2>4
<1>16. Apart(g2, D)
  <2> SUFFICES ASSUME NEW d \in D, NEW f \in D, d < f PROVE End(g2, d) <= f
    BY DEF Apart
  <2>0. d \in C /\ f \in C /\ f # r /\ d \in Nat /\ f \in Nat
    BY <1>9, <1>12
  <2>1. CASE d = c
    <3>1. End(g, c) <= f
      BY <1>8, <2>0, <2>1
    <3>2. r < f
      BY <1>3, <2>0, <3>1
    <3> QED
      BY <1>1, <1>7, <1>8, <2>0, <2>1, <3>2
  <2>2. CASE d # c
    BY <1>7, <1>8, <2>0, <2>2
  <2> QED
    BY <2>1, <2>2
<1> QED
  BY <1>1, <1>5, <1>11, <1>13, <1>14, <1>15, <1>16 DEF Tiled, D

(* The chunk to the right of x is told.                                    *)
IsFix(g, g2, C, x) ==
  /\ g[x].last => \A d \in C : g2[d] = g[d]
  /\ ~g[x].last => /\ g2[End(g, x)] = Chunk(g[x].len, g[End(g, x)].last, g[End(g, x)].used,
                                            FALSE, g[End(g, x)].len)
                   /\ \A d \in C : d # End(g, x) => g2[d] = g[d]

LEMMA FixTiles ==
  ASSUME NEW g, NEW C, NEW B, NEW x \in C, Tiled(g, C, B, x), NEW g2,
         IsFix(g, g2, C, x)
  PROVE  Tiled(g2, C, B, 0)
<1> USE DEF IsFix
<1>1. \A d \in C : d # 0 /\ d \in Nat /\ IsChunk(g, d) /\ d < End(g, d)
  <2> TAKE d \in C
  <2>1. d \in Nat /\ d >= 2 /\ IsChunk(g, d)
    BY ChunkFacts
  <2>2. d < End(g, d)
    BY <2>1 DEF IsChunk, End
  <2> QED
    BY <2>1, <2>2
<1>2. CASE g[x].last
  <2>1. Tiled(g, C, B, 0)
    <3>1. Rightward(g, C, 0)
      BY <1>1, <1>2 DEF Tiled, Rightward
    <3>2. Leftward(g, C, 0)
      BY <1>2 DEF Tiled, Leftward
    <3> QED
      BY <3>1, <3>2 DEF Tiled
  <2> QED
    BY <1>2, <2>1, TiledSame
<1>3. CASE ~g[x].last
  <2> DEFINE r == End(g, x)
  <2>1. r \in C /\ Home(r) = Home(x) /\ r # x
    BY <1>1, <1>3 DEF Tiled, Rightward
  <2>2. g2[r] = Chunk(g[x].len, g[r].last, g[r].used, FALSE, g[r].len)
        /\ \A d \in C : d # r => g2[d] = g[d]
    BY <1>3
  <2>3. /\ g2[r].prev = g[x].len /\ g2[r].last = g[r].last /\ g2[r].used = g[r].used
        /\ g2[r].len = g[r].len
    BY <2>2 DEF Chunk
  <2>4. \A d \in C : /\ g2[d].last = g[d].last /\ g2[d].used = g[d].used /\ g2[d].len = g[d].len
                     /\ End(g2, d) = End(g, d) /\ (d # r => g2[d].prev = g[d].prev)
    BY <2>2, <2>3 DEF End
  <2>5. g[x].len \in Nat /\ g[x].len >= 1
    BY <1>1 DEF IsChunk
  <2> HIDE DEF r
  <2>6. \A d \in C : IsChunk(g2, d)
    <3> TAKE d \in C
    <3>1. CASE d = r
      BY <1>1, <2>2, <2>3, <2>5, <3>1 DEF IsChunk
    <3>2. CASE d # r
      BY <1>1, <2>2, <3>2 DEF IsChunk
    <3> QED
      BY <3>1, <3>2
  <2>7. Inside(g2, C, B)
    BY <2>4, <2>6 DEF Tiled, Inside
  <2>8. \A d \in C : End(g, d) = r => d = x
    <3> SUFFICES ASSUME NEW d \in C, End(g, d) = r, d # x PROVE FALSE
      OBVIOUS
    <3>1. \A e, f \in C : e < f => End(g, e) <= f
      BY DEF Tiled, Apart
    <3>2. d \in Nat /\ x \in Nat /\ d < r /\ x < r /\ End(g, x) = r /\ r \in Nat
      BY <1>1, <2>1 DEF r
    <3> QED
      BY <3>1, <3>2
  <2>9. Rightward(g2, C, 0)
    <3>1. /\ \A d \in C : g[d].last => End(g, d) = Home(d) + BlockSize
          /\ \A d \in C : ~g[d].last => End(g, d) \in C /\ Home(End(g, d)) = Home(d)
          /\ \A d \in C : ~g[d].last /\ d # x => g[End(g, d)].prev = g[d].len
      BY DEF Tiled, Rightward
    <3>2. ASSUME NEW d \in C, ~g2[d].last PROVE g2[End(g2, d)].prev = g2[d].len
      <4>1. CASE d = x
        BY <2>3, <2>4, <4>1 DEF r
      <4>2. CASE d # x
        <5>1. ~g[d].last /\ End(g2, d) = End(g, d) /\ End(g, d) # r /\ End(g, d) \in C
          BY <2>4, <2>8, <3>1, <3>2, <4>2
        <5> QED
          BY <2>4, <3>1, <4>2, <5>1
      <4> QED
        BY <4>1, <4>2
    <3> QED
      BY <2>4, <3>1, <3>2 DEF Rightward
  <2>10. Leftward(g2, C, 0)
    <3> SUFFICES ASSUME NEW d \in C
                 PROVE  \/ g2[d].prev = 0 /\ d = Home(d) + 1
                        \/ /\ g2[d].prev # 0 /\ d - g2[d].prev \in C
                           /\ ~g2[d - g2[d].prev].last /\ g2[d - g2[d].prev].len = g2[d].prev
      BY DEF Leftward
    <3>1. CASE d = r
      <4>1. r - g[x].len = x
        BY <1>1, <2>5 DEF r, End
      <4> QED
        BY <1>3, <2>3, <2>4, <2>5, <3>1, <4>1
    <3>2. CASE d # r
      <4>1. \/ g[d].prev = 0 /\ d = Home(d) + 1
            \/ g[d].prev # 0 /\ d - g[d].prev \in C /\ ~g[d - g[d].prev].last /\ g[d - g[d].prev].len = g[d].prev
        BY <3>2 DEF Tiled, Leftward, r
      <4> QED
        BY <2>4, <3>2, <4>1
    <3> QED
      BY <3>1, <3>2
  <2>11. Apart(g2, C)
    BY <2>4 DEF Tiled, Apart
  <2> QED
    BY <2>7, <2>9, <2>10, <2>11 DEF Tiled
<1> QED
  BY <1>2, <1>3

(* A block comes, and one goes.                                            *)
Whole(v) == v = Chunk(0, TRUE, FALSE, FALSE, BlockSize - 1)

LEMMA BlockComes ==
  ASSUME NEW g, NEW C, NEW B, Tiled(g, C, B, 0), NEW b \in Block, b \notin B, NEW g2,
         Whole(g2[b + 1]),
         \A c \in C : g2[c] = g[c]
  PROVE  Tiled(g2, C \cup {b + 1}, B \cup {b}, 0) /\ b + 1 \notin C
<1> USE DEF Whole
<1> DEFINE e == b + 1
           D == C \cup {e}
<1>1. b \in Nat /\ b >= 1 /\ e \in b .. b + SlotSize - 1 /\ e \in Nat
  BY BlockFacts, Sizes
<1>2. e \in Address /\ Home(e) = b
  BY <1>1, BlockFacts
<1>3. \A c \in C : Home(c) \in B /\ Home(c) \in Block /\ Home(c) \in Nat /\ c \in Nat
                   /\ End(g, c) \in Nat /\ End(g, c) <= Home(c) + BlockSize /\ IsChunk(g, c) /\ Home(c) < c
  BY ChunkFacts
<1>4. e \notin C
  BY <1>2, <1>3
<1>5. /\ g2[e].len = BlockSize - 1 /\ g2[e].prev = 0 /\ g2[e].used = FALSE /\ g2[e].last = TRUE
  BY DEF Chunk
<1>6. End(g2, e) = b + BlockSize
  <2>1. e + (BlockSize - 1) = b + BlockSize
    BY <1>1, Sizes
  <2> QED
    BY <1>5, <2>1 DEF End
<1>7. \A c \in C : End(g2, c) = End(g, c) /\ g2[c] = g[c] /\ c # e
  BY <1>4 DEF End
<1> HIDE DEF e, D
<1>8. IsChunk(g2, e)
  <2>1. BlockSize - 1 \in Nat /\ BlockSize - 1 >= 1
    BY Sizes
  <2>2. IsChunk(g2, e)
    <3>1. g2[e] = Chunk(g2[e].prev, g2[e].last, g2[e].used, FALSE, g2[e].len)
      BY <1>5 DEF e
    <3>2. 0 \in Nat /\ TRUE \in BOOLEAN /\ FALSE \in BOOLEAN
      OBVIOUS
    <3> QED
      BY <1>5, <2>1, <3>1, <3>2 DEF IsChunk
  <2> QED
    BY <2>2
<1>9. Inside(g2, D, B \cup {b})
  <2>1. /\ B \subseteq Block /\ C \subseteq Address
        /\ \A a \in B : a + 1 \in C
    BY DEF Tiled, Inside
  <2>2. b < e /\ b + 1 \in D
    BY <1>1 DEF e, D
  <2>3. \A c \in C : IsChunk(g2, c)
    BY <1>3, <1>7 DEF IsChunk
  <2>4. \A c \in D : IsChunk(g2, c) /\ Home(c) \in B \cup {b} /\ Home(c) < c
                     /\ End(g2, c) <= Home(c) + BlockSize
    <3> TAKE c \in D
    <3>1. CASE c \in C
      BY <1>3, <1>7, <2>3, <3>1
    <3>2. CASE c = e
      BY <1>1, <1>2, <1>6, <1>8, <2>2, <3>2, Sizes
    <3> QED
      BY <3>1, <3>2 DEF D
  <2> QED
    BY <1>2, <2>1, <2>2, <2>4 DEF Inside, D
<1>10. Rightward(g2, D, 0)
  <2>1. /\ \A c \in C : g[c].last => End(g, c) = Home(c) + BlockSize
        /\ \A c \in C : ~g[c].last => End(g, c) \in C /\ Home(End(g, c)) = Home(c)
        /\ \A c \in C : ~g[c].last /\ c # 0 => g[End(g, c)].prev = g[c].len
    BY DEF Tiled, Rightward
  <2>2. ASSUME NEW c \in D
        PROVE  /\ g2[c].last => End(g2, c) = Home(c) + BlockSize
               /\ ~g2[c].last => End(g2, c) \in D /\ Home(End(g2, c)) = Home(c)
               /\ ~g2[c].last /\ c # 0 => g2[End(g2, c)].prev = g2[c].len
    <3>1. CASE c \in C
      BY <1>7, <2>1, <3>1 DEF D
    <3>2. CASE c = e
      BY <1>2, <1>5, <1>6, <3>2
    <3> QED
      BY <3>1, <3>2 DEF D
  <2> QED
    BY <2>2 DEF Rightward
<1>11. Leftward(g2, D, 0)
  <2> SUFFICES ASSUME NEW d \in D
               PROVE  \/ g2[d].prev = 0 /\ d = Home(d) + 1
                      \/ /\ g2[d].prev # 0 /\ d - g2[d].prev \in D
                         /\ ~g2[d - g2[d].prev].last /\ g2[d - g2[d].prev].len = g2[d].prev
    BY DEF Leftward
  <2>1. CASE d \in C
    <3>0. 0 \notin C
      BY ChunkFacts
    <3>1. \/ g[d].prev = 0 /\ d = Home(d) + 1
          \/ g[d].prev # 0 /\ d - g[d].prev \in C /\ ~g[d - g[d].prev].last /\ g[d - g[d].prev].len = g[d].prev
      BY <2>1, <3>0 DEF Tiled, Leftward
    <3> QED
      BY <1>7, <2>1, <3>1 DEF D
  <2>2. CASE d = e
    BY <1>2, <1>5, <2>2 DEF e
  <2> QED
    BY <2>1, <2>2 DEF D
<1>12. Apart(g2, D)
  <2> SUFFICES ASSUME NEW c \in D, NEW d \in D, c < d PROVE End(g2, c) <= d
    BY DEF Apart
  <2>1. CASE c \in C /\ d \in C
    BY <1>7, <2>1 DEF Tiled, Apart
  <2>2. CASE c \in C /\ d = e
    <3>1. Home(c) + SlotSize <= b \/ b + SlotSize <= Home(c)
      BY <1>3, <2>2, BlockFacts
    <3>2. End(g2, c) = End(g, c) /\ End(g, c) <= Home(c) + BlockSize /\ Home(c) < c
          /\ End(g, c) \in Nat /\ Home(c) \in Nat /\ c \in Nat /\ d = b + 1
      BY <1>3, <1>7, <2>2 DEF e
    <3> QED
      BY <1>1, <3>1, <3>2, Sizes
  <2>3. CASE c = e /\ d \in C
    <3>1. Home(d) + SlotSize <= b \/ b + SlotSize <= Home(d)
      BY <1>3, <2>3, BlockFacts
    <3>2. End(g2, c) = b + BlockSize /\ End(g, d) <= Home(d) + BlockSize /\ Home(d) < d
          /\ End(g, d) \in Nat /\ Home(d) \in Nat /\ d \in Nat /\ c = b + 1 /\ d <= End(g, d)
      <4>1. IsChunk(g, d) /\ d \in Nat
        BY <1>3, <2>3
      <4>2. d <= End(g, d)
        BY <4>1 DEF IsChunk, End
      <4> QED
        BY <1>3, <1>6, <2>3, <4>2 DEF e
    <3> QED
      BY <1>1, <3>1, <3>2, Sizes
  <2>4. CASE c = e /\ d = e
    BY <1>1, <2>4
  <2> QED
    BY <2>1, <2>2, <2>3, <2>4 DEF D
<1> QED
  BY <1>4, <1>9, <1>10, <1>11, <1>12 DEF Tiled, D, e

LEMMA BlockGoes ==
  ASSUME NEW g, NEW C, NEW B, Tiled(g, C, B, 0), NEW b
  PROVE  Tiled(g, {c \in C : Home(c) # b}, B \ {b}, 0)
<1> DEFINE D == {c \in C : Home(c) # b}
<1>1. \A c \in D : c \in C /\ Home(c) # b
  OBVIOUS
<1>2. Inside(g, D, B \ {b})
  <2>1. /\ B \subseteq Block /\ C \subseteq Address
        /\ \A a \in B : a + 1 \in C
        /\ \A c \in C : IsChunk(g, c) /\ Home(c) \in B /\ Home(c) < c /\ End(g, c) <= Home(c) + BlockSize
    BY DEF Tiled, Inside
  <2>2. \A a \in B : Home(a + 1) = a
    <3> TAKE a \in B
    <3>1. a \in Block /\ a \in Nat /\ a + 1 \in a .. a + SlotSize - 1
      BY <2>1, BlockFacts, Sizes
    <3> QED
      BY <3>1, BlockFacts
  <2> QED
    BY <1>1, <2>1, <2>2 DEF Inside
<1>3. Rightward(g, D, 0)
  BY <1>1 DEF Tiled, Rightward
<1>4. Leftward(g, D, 0)
  <2> SUFFICES ASSUME NEW d \in D
               PROVE  \/ g[d].prev = 0 /\ d = Home(d) + 1
                      \/ /\ g[d].prev # 0 /\ d - g[d].prev \in D
                         /\ ~g[d - g[d].prev].last /\ g[d - g[d].prev].len = g[d].prev
    BY DEF Leftward
  <2>1. g[d].prev # 0 => /\ d - g[d].prev \in C /\ ~g[d - g[d].prev].last
                         /\ g[d - g[d].prev].len = g[d].prev /\ Home(d - g[d].prev) = Home(d)
    BY <1>1, Neighbours
  <2>2. g[d].prev = 0 => d = Home(d) + 1
    BY <1>1, Neighbours
  <2> QED
    BY <1>1, <2>1, <2>2
<1>5. Apart(g, D)
  BY <1>1 DEF Tiled, Apart
<1> QED
  BY <1>2, <1>3, <1>4, <1>5 DEF Tiled

(* The chunks of a block whose first chunk is its last.                    *)
LEMMA OnlyChunk ==
  ASSUME NEW g, NEW C, NEW B, Tiled(g, C, B, 0), NEW b \in B, g[b + 1].last
  PROVE  {c \in C : Home(c) # b} = C \ {b + 1} /\ g[b + 1].len = BlockSize - 1
<1>1. b \in Block /\ b + 1 \in C
  BY DEF Tiled, Inside
<1>2. b \in Nat /\ Home(b + 1) = b
  <2>1. b \in Nat /\ b + 1 \in b .. b + SlotSize - 1
    BY <1>1, BlockFacts, Sizes
  <2> QED
    BY <1>1, <2>1, BlockFacts
<1>3. End(g, b + 1) = b + BlockSize /\ g[b + 1].len \in Nat
  <2>1. End(g, b + 1) = b + BlockSize
    BY <1>1, <1>2, Neighbours
  <2>2. IsChunk(g, b + 1)
    BY <1>1, ChunkFacts
  <2> QED
    BY <2>1, <2>2 DEF IsChunk
<1>4. ASSUME NEW c \in C, Home(c) = b, c # b + 1 PROVE FALSE
  <2>1. IsChunk(g, c) /\ c \in Nat /\ b < c /\ End(g, c) <= b + BlockSize
    BY <1>4, ChunkFacts
  <2>2. b + 1 < c
    BY <1>2, <1>4, <2>1
  <2>3. End(g, b + 1) <= c
    BY <1>1, <2>2 DEF Tiled, Apart
  <2> QED
    BY <1>2, <1>3, <2>1, <2>3, Sizes DEF IsChunk, End
<1>5. g[b + 1].len = BlockSize - 1
  BY <1>2, <1>3, Sizes DEF End
<1> QED
  BY <1>1, <1>2, <1>4, <1>5

-----------------------------------------------------------------------------
(***************************************************************************)
(* The chunk helpers, cell by cell.                                        *)
(***************************************************************************)
WithPrev(v, q) == [v EXCEPT !.prev = q]
WithUsed(v, q) == [v EXCEPT !.used = q]
WithEnd(v, k, q) == [v EXCEPT !.len = k, !.last = q]
Plain(v, p, l, u, n) == v = Chunk(p, l, u, FALSE, n)

LEMMA Rewritten ==
  ASSUME NEW v, NEW p, NEW l, NEW u, NEW n, Plain(v, p, l, u, n), NEW q, NEW k
  PROVE  /\ Plain(WithPrev(v, q), q, l, u, n)
         /\ Plain(WithUsed(v, q), p, l, q, n)
         /\ Plain(WithEnd(v, k, q), p, q, u, k)
<1>1. PICK f : f = FALSE
  OBVIOUS
<1>2. v = Chunk(p, l, u, f, n)
  BY <1>1 DEF Plain
<1>3. [Chunk(p, l, u, f, n) EXCEPT !.prev = q] = Chunk(q, l, u, f, n)
  BY DEF Chunk
<1>4. [Chunk(p, l, u, f, n) EXCEPT !.used = q] = Chunk(p, l, q, f, n)
  BY DEF Chunk
<1>5. [Chunk(p, l, u, f, n) EXCEPT !.len = k] = Chunk(p, l, u, f, k)
  BY DEF Chunk
<1>6. [Chunk(p, l, u, f, k) EXCEPT !.last = q] = Chunk(p, q, u, f, k)
  BY DEF Chunk
<1>7. [v EXCEPT !.len = k, !.last = q] = [[v EXCEPT !.len = k] EXCEPT !.last = q]
  OBVIOUS
<1>8. WithPrev(v, q) = Chunk(q, l, u, f, n)
  BY <1>2, <1>3 DEF WithPrev
<1>9. WithUsed(v, q) = Chunk(p, l, q, f, n)
  BY <1>2, <1>4 DEF WithUsed
<1>10. WithEnd(v, k, q) = Chunk(p, q, u, f, k)
  BY <1>2, <1>5, <1>6, <1>7 DEF WithEnd
<1> QED
  BY <1>1, <1>8, <1>9, <1>10 DEF Plain

LEMMA ChunkPlain ==
  ASSUME NEW g, NEW c, IsChunk(g, c)
  PROVE  Plain(g[c], g[c].prev, g[c].last, g[c].used, g[c].len)
BY DEF IsChunk, Plain

HeadsKept(h, g) ==
  /\ Shaped(g) /\ g.os = h.os /\ g.block_list = h.block_list
  /\ g.master_head = h.master_head /\ g.recycler_head = h.recycler_head

LEMMA AbsorbIs ==
  ASSUME NEW h, Shaped(h), NEW c \in Address, NEW r, r # c, IsChunk(h.mem, c)
  PROVE  HeadsKept(h, Absorb(h, c, r)) /\ IsAbsorb(h.mem, Absorb(h, c, r).mem, Address, c, r)
<1> DEFINE v == WithEnd(h.mem[c], h.mem[c].len + h.mem[r].len, h.mem[r].last)
<1>1. Plain(v, h.mem[c].prev, h.mem[r].last, h.mem[c].used, h.mem[c].len + h.mem[r].len)
  BY ChunkPlain, Rewritten
<1>2. Absorb(h, c, r) = [h EXCEPT !.mem[c] =
          [h.mem[c] EXCEPT !.len = h.mem[c].len + h.mem[r].len, !.last = h.mem[r].last]]
  BY DEF Absorb, Shaped
<1>3. Absorb(h, c, r) = [h EXCEPT !.mem[c] = v]
  BY <1>2 DEF WithEnd
<1> HIDE DEF v
<1>4. Wrote(h, Absorb(h, c, r), c, v)
  BY <1>3, CellSet
<1> QED
  BY <1>1, <1>4 DEF Wrote, HeadsKept, IsAbsorb, Plain

LEMMA FixIs ==
  ASSUME NEW h, Shaped(h), NEW c,
         h.mem[c].last \/ (End(h.mem, c) \in Address /\ IsChunk(h.mem, End(h.mem, c)))
  PROVE  HeadsKept(h, FixNextPrev(h, c)) /\ IsFix(h.mem, FixNextPrev(h, c).mem, Address, c)
<1>1. CASE h.mem[c].last
  BY <1>1 DEF FixNextPrev, HeadsKept, IsFix
<1>2. CASE ~h.mem[c].last
  <2> DEFINE e == End(h.mem, c)
             v == WithPrev(h.mem[e], h.mem[c].len)
  <2>1. e \in Address /\ IsChunk(h.mem, e)
    BY <1>2
  <2>2. FixNextPrev(h, c) = [h EXCEPT !.mem[e].prev = h.mem[c].len]
    BY <1>2 DEF FixNextPrev, ChunkNext, End
  <2> HIDE DEF e
  <2>3. Plain(v, h.mem[c].len, h.mem[e].last, h.mem[e].used, h.mem[e].len)
    BY <2>1, ChunkPlain, Rewritten
  <2>4. [h EXCEPT !.mem[e].prev = h.mem[c].len] =
          [h EXCEPT !.mem[e] = [h.mem[e] EXCEPT !.prev = h.mem[c].len]]
    BY <2>1 DEF Shaped
  <2>5. FixNextPrev(h, c) = [h EXCEPT !.mem[e] = v]
    BY <2>2, <2>4 DEF WithPrev
  <2> HIDE DEF v
  <2>6. Wrote(h, FixNextPrev(h, c), e, v)
    BY <2>1, <2>5, CellSet
  <2> QED
    BY <1>2, <2>3, <2>6 DEF Wrote, HeadsKept, IsFix, Plain, e
<1> QED
  BY <1>1, <1>2

LEMMA CutIs ==
  ASSUME NEW h, Shaped(h), NEW c \in Address, IsChunk(h.mem, c), NEW n \in Nat, n >= 1, c + n \in Address
  PROVE  HeadsKept(h, CutChunk(h, c, n)) /\ IsCut(h.mem, CutChunk(h, c, n).mem, Address \ {c + n}, c, n)
<1> DEFINE v == WithEnd(h.mem[c], n, FALSE)
           w == Chunk(n, h.mem[c].last, FALSE, FALSE, h.mem[c].len - n)
           h1 == [h EXCEPT !.mem[c] = v]
           h2 == [h1 EXCEPT !.mem[c + n] = w]
<1>1. Plain(v, h.mem[c].prev, FALSE, h.mem[c].used, n)
  <2>1. PICK f : f = FALSE
    OBVIOUS
  <2>2. Plain(WithEnd(h.mem[c], n, f), h.mem[c].prev, f, h.mem[c].used, n)
    BY ChunkPlain, Rewritten
  <2> QED
    BY <2>1, <2>2
<1>2. CutChunk(h, c, n) = [h EXCEPT !.mem[c] = [h.mem[c] EXCEPT !.len = n, !.last = FALSE],
                                    !.mem[c + n] = w]
  BY DEF CutChunk, Shaped
<1> HIDE DEF w
<1>3. CutChunk(h, c, n) = h2
  BY <1>2 DEF WithEnd
<1> HIDE DEF v, h1, h2
<1>4. Wrote(h, h1, c, v)
  BY CellSet DEF h1
<1>5. Wrote(h1, h2, c + n, w)
  <2>1. Shaped(h1)
    BY <1>4 DEF Wrote
  <2> QED
    BY <2>1, CellSet DEF h2
<1>6. c # c + n
  BY AddressPositive
<1> QED
  BY <1>1, <1>3, <1>4, <1>5, <1>6 DEF Wrote, HeadsKept, IsCut, Plain, w

-----------------------------------------------------------------------------
(***************************************************************************)
(* What a step on the chunks of the blocks B leaves alone: block headers   *)
(* and other blocks, and the used chunks (but x) with what they hold.      *)
(***************************************************************************)
Local(h, h2, B) ==
  /\ Shaped(h2) /\ h2.os = h.os /\ h2.block_list = h.block_list
  /\ \A a \in Address : Home(a) \notin B \/ a = Home(a) => h2.mem[a] = h.mem[a]

Same(h, h2, c) ==
  /\ h2.mem[c].used /\ h2.mem[c].len = h.mem[c].len
  /\ \A a \in c + 1 .. End(h.mem, c) - 1 : h2.mem[a] = h.mem[a]

Kept(h, C, h2, C2, x) ==
  /\ \A c \in C : h.mem[c].used /\ c # x => c \in C2 /\ Same(h, h2, c)
  /\ \A c \in C2 : h2.mem[c].used /\ c # x => c \in C /\ h.mem[c].used

Step(h, C, h2, C2, B, x) == Local(h, h2, B) /\ Kept(h, C, h2, C2, x)

LEMMA StepTrans ==
  ASSUME NEW h1, NEW C1, NEW h2, NEW C2, NEW h3, NEW C3, NEW B, NEW x,
         Step(h1, C1, h2, C2, B, x), Step(h2, C2, h3, C3, B, x)
  PROVE  Step(h1, C1, h3, C3, B, x)
<1>1. Local(h1, h3, B)
  BY DEF Step, Local
<1>2. ASSUME NEW c \in C1, h1.mem[c].used, c # x PROVE c \in C3 /\ Same(h1, h3, c)
  <2>1. c \in C2 /\ Same(h1, h2, c)
    BY <1>2 DEF Step, Kept
  <2>2. c \in C3 /\ Same(h2, h3, c)
    BY <1>2, <2>1 DEF Step, Kept, Same
  <2> QED
    BY <2>1, <2>2 DEF Same, End
<1>3. \A c \in C3 : h3.mem[c].used /\ c # x => c \in C1 /\ h1.mem[c].used
  BY DEF Step, Kept
<1> QED
  BY <1>1, <1>2, <1>3 DEF Step, Kept

LEMMA StepWeak ==
  ASSUME NEW h1, NEW C1, NEW h2, NEW C2, NEW B, NEW x, Step(h1, C1, h2, C2, B, 0), 0 \notin C1, 0 \notin C2
  PROVE  Step(h1, C1, h2, C2, B, x)
BY DEF Step, Kept

LEMMA StepNone ==
  ASSUME NEW h, Shaped(h), NEW C, NEW B, NEW x PROVE  Step(h, C, h, C, B, x)
BY DEF Step, Local, Kept, Same

(* The cells inside unused chunks.                                         *)
FreeCell(g, C, a) == \E c \in C : ~g[c].used /\ a \in c + 1 .. End(g, c) - 1

LEMMA FreeCellFacts ==
  ASSUME NEW g, NEW C, NEW B, NEW x, Tiled(g, C, B, x), NEW a, FreeCell(g, C, a)
  PROVE  /\ a \in Address /\ a \notin C /\ Home(a) \in B /\ a # Home(a)
         /\ \A c \in C : g[c].used => a \notin c + 1 .. End(g, c) - 1
<1>1. PICK d \in C : ~g[d].used /\ a \in d + 1 .. End(g, d) - 1
  BY DEF FreeCell
<1>2. /\ d \in Nat /\ Home(d) \in B /\ Home(d) < d /\ End(g, d) \in Nat /\ Home(d) \in Nat
      /\ \A e \in d .. End(g, d) - 1 : e \in Address /\ Home(e) = Home(d)
      /\ \A e \in d + 1 .. End(g, d) - 1 : e \notin C
  BY ChunkFacts
<1>3. a \in d .. End(g, d) - 1 /\ a \in Nat /\ a > Home(d)
  BY <1>1, <1>2
<1>4. a \in Address /\ a \notin C /\ Home(a) \in B /\ a # Home(a)
  BY <1>1, <1>2, <1>3
<1>5. ASSUME NEW c \in C, g[c].used PROVE a \notin c + 1 .. End(g, c) - 1
  <2>1. c # d /\ c \in Nat /\ End(g, c) \in Nat
    BY <1>1, <1>5, ChunkFacts
  <2>2. c < d \/ d < c
    BY <1>2, <2>1
  <2>3. End(g, c) <= d \/ End(g, d) <= c
    BY <2>2 DEF Tiled, Apart
  <2> QED
    BY <1>1, <1>2, <2>1, <2>3
<1> QED
  BY <1>4, <1>5

(* Writing inside unused chunks.                                           *)
LEMMA FreeStep ==
  ASSUME NEW h, Shaped(h), NEW C, NEW B, NEW x, Tiled(h.mem, C, B, x), NEW g,
         Shaped(g), g.os = h.os, g.block_list = h.block_list,
         \A a \in Address : ~FreeCell(h.mem, C, a) => g.mem[a] = h.mem[a]
  PROVE  /\ \A c \in C : g.mem[c] = h.mem[c]
         /\ Tiled(g.mem, C, B, x) /\ Step(h, C, g, C, B, 0)
<1>1. ASSUME NEW c \in C PROVE g.mem[c] = h.mem[c]
  <2>1. c \in Address /\ ~FreeCell(h.mem, C, c)
    BY ChunkFacts, FreeCellFacts
  <2> QED
    BY <2>1
<1>2. Tiled(g.mem, C, B, x)
  BY <1>1, TiledSame
<1>3. Local(h, g, B)
  BY FreeCellFacts DEF Local
<1>4. ASSUME NEW c \in C, h.mem[c].used PROVE Same(h, g, c)
  <2>1. \A a \in c + 1 .. End(h.mem, c) - 1 : a \in Address /\ ~FreeCell(h.mem, C, a)
    <3>1. c \in Nat /\ End(h.mem, c) \in Nat /\ \A a \in c .. End(h.mem, c) - 1 : a \in Address
      BY ChunkFacts
    <3> QED
      BY <1>4, <3>1, FreeCellFacts
  <2> QED
    BY <1>1, <1>4, <2>1 DEF Same
<1> QED
  BY <1>1, <1>2, <1>3, <1>4 DEF Step, Kept

LEMMA TouchStep ==
  ASSUME NEW h, Shaped(h), NEW C, NEW B, NEW x, Tiled(h.mem, C, B, x), NEW g, NEW X,
         Touches(h, g, X), \A y \in X : FreeCell(h.mem, C, y + 1)
  PROVE  /\ \A c \in C : g.mem[c] = h.mem[c]
         /\ Tiled(g.mem, C, B, x) /\ Step(h, C, g, C, B, 0)
<1>1. ASSUME NEW a \in Address, ~FreeCell(h.mem, C, a) PROVE g.mem[a] = h.mem[a]
  <2>1. a - 1 + 1 = a
    BY AddressPositive
  <2> QED
    BY <1>1, <2>1 DEF Touches
<1> QED
  BY <1>1, FreeStep DEF Touches

(* Writing chunk headers, none of a used chunk except for its prev.        *)
LEMMA HeaderStep ==
  ASSUME NEW h, Shaped(h), NEW C, NEW B, NEW x, Tiled(h.mem, C, B, x), NEW g, NEW D,
         Shaped(g), g.os = h.os, g.block_list = h.block_list,
         \A a \in Address : a \notin C /\ ~FreeCell(h.mem, C, a) => g.mem[a] = h.mem[a],
         \A c \in C : h.mem[c].used => c \in D /\ g.mem[c].used /\ g.mem[c].len = h.mem[c].len,
         \A c \in D : g.mem[c].used => c \in C /\ h.mem[c].used
  PROVE  Step(h, C, g, D, B, 0)
<1>1. Local(h, g, B)
  <2>1. \A c \in C : Home(c) \in B /\ c # Home(c)
    <3> TAKE c \in C
    <3>1. Home(c) \in B /\ Home(c) \in Nat /\ Home(c) < c
      BY ChunkFacts
    <3> QED
      BY <3>1
  <2> QED
    BY <2>1, FreeCellFacts DEF Local
<1>2. ASSUME NEW c \in C, h.mem[c].used PROVE Same(h, g, c)
  <2>1. \A a \in c + 1 .. End(h.mem, c) - 1 : a \in Address /\ a \notin C /\ ~FreeCell(h.mem, C, a)
    <3>1. c \in Nat /\ End(h.mem, c) \in Nat /\ \A a \in c .. End(h.mem, c) - 1 : a \in Address
      BY ChunkFacts
    <3>2. \A a \in c + 1 .. End(h.mem, c) - 1 : a \notin C
      BY ChunkFacts
    <3> QED
      BY <1>2, <3>1, <3>2, FreeCellFacts
  <2> QED
    BY <1>2, <2>1 DEF Same
<1> QED
  BY <1>1, <1>2 DEF Step, Kept

-----------------------------------------------------------------------------
(***************************************************************************)
(* The chunks of the blocks B and the two lists, between the calls of the  *)
(* helpers: every unused chunk with room is in a list, except x.           *)
(***************************************************************************)
FreeSet(h, C, x) == {c \in C : c # x /\ ~h.mem[c].used /\ h.mem[c].len >= 2}

Spaced(h, C, x) ==
  \A c \in C : ~h.mem[c].last /\ ~h.mem[c].used /\ c # x /\ End(h.mem, c) # x
                 => h.mem[End(h.mem, c)].used

MasterFull(h, m) == \A c \in In(m) : c # h.master_head => h.mem[c].len = BlockSize - 1

Good(h, B, C, m, r, x) ==
  /\ Shaped(h) /\ Tiled(h.mem, C, B, 0) /\ Lists(h, m, r)
  /\ Filed(m, r) = FreeSet(h, C, x) /\ Spaced(h, C, x) /\ MasterFull(h, m)

Sound(h, B, C, x) == \E m, r : Good(h, B, C, m, r, x)

LEMMA ChunkIn ==
  ASSUME NEW g, NEW C, NEW B, NEW x, Tiled(g, C, B, x), NEW c \in C
  PROVE  /\ IsChunk(g, c) /\ c \in Nat /\ c \in Address /\ C \subseteq Address
         /\ g[c].len \in Nat /\ g[c].len >= 1 /\ End(g, c) \in Nat /\ c < End(g, c)
         /\ End(g, c) = c + g[c].len
<1>1. IsChunk(g, c) /\ c \in Nat /\ c \in Address /\ C \subseteq Address
  <2>1. IsChunk(g, c) /\ c \in Nat /\ c \in Address
    BY ChunkFacts
  <2>2. C \subseteq Address
    BY DEF Tiled, Inside
  <2> QED
    BY <2>1, <2>2
<1>2. g[c].len \in Nat /\ g[c].len >= 1
  BY <1>1 DEF IsChunk
<1>3. End(g, c) \in Nat /\ c < End(g, c)
  BY <1>1, <1>2 DEF End
<1> QED
  BY <1>1, <1>2, <1>3 DEF End

LEMMA TiledWeak ==
  ASSUME NEW g, NEW C, NEW B, Tiled(g, C, B, 0), NEW x
  PROVE  Tiled(g, C, B, x)
<1>1. Rightward(g, C, x)
  <2>1. ASSUME NEW c \in C PROVE c # 0
    <3>1. c \in Nat /\ c >= 2
      BY ChunkFacts
    <3> QED
      BY <3>1
  <2> QED
    BY <2>1 DEF Tiled, Rightward
<1>2. Leftward(g, C, x)
  <2>1. 0 \notin C
    BY ChunkFacts
  <2> QED
    BY <2>1 DEF Tiled, Leftward
<1> QED
  BY <1>1, <1>2 DEF Tiled

LEMMA TouchMore ==
  ASSUME NEW h, NEW g, NEW X, NEW Y, Touches(h, g, X), X \subseteq Y
  PROVE  Touches(h, g, Y)
BY DEF Touches

LEMMA TouchTrans ==
  ASSUME NEW h, NEW g, NEW k, NEW X, Touches(h, g, X), Touches(g, k, X)
  PROVE  Touches(h, k, X)
BY DEF Touches

LEMMA TouchNone ==
  ASSUME NEW h, Shaped(h), NEW X PROVE Touches(h, h, X)
BY DEF Touches

AllFree(h, C, F) == \A y \in F : FreeCell(h.mem, C, y + 1)

WholeBut(h, m, top) == \A c \in In(m) : c # top => h.mem[c].len = BlockSize - 1

LEMMA Refile ==
  ASSUME NEW h, Shaped(h), NEW B, NEW C, Tiled(h.mem, C, B, 0), NEW x, Spaced(h, C, x),
         NEW g, NEW F, Touches(h, g, F), AllFree(h, C, F),
         NEW m, NEW r, Lists(g, m, r), Filed(m, r) = FreeSet(h, C, x),
         WholeBut(h, m, g.master_head)
  PROVE  Good(g, B, C, m, r, x) /\ Step(h, C, g, C, B, 0) /\ \A c \in C : g.mem[c] = h.mem[c]
<1> USE DEF AllFree, WholeBut
<1>1. /\ \A c \in C : g.mem[c] = h.mem[c]
      /\ Tiled(g.mem, C, B, 0) /\ Step(h, C, g, C, B, 0)
  BY TouchStep
<1>2. FreeSet(g, C, x) = FreeSet(h, C, x)
  BY <1>1 DEF FreeSet
<1>3. Spaced(g, C, x)
  <2>1. \A c \in C : ~h.mem[c].last => End(h.mem, c) \in C
    BY Neighbours
  <2> QED
    BY <1>1, <2>1 DEF Spaced, End
<1>4. MasterFull(g, m)
  <2>1. \A c \in In(m) : c \in C
    BY DEF Filed, FreeSet
  <2> QED
    BY <1>1, <2>1 DEF MasterFull
<1>5. Shaped(g)
  BY DEF Touches
<1> QED
  BY <1>1, <1>2, <1>3, <1>4, <1>5 DEF Good

(* A chunk as long as a block has no neighbours.                           *)
LEMMA WholeAlone ==
  ASSUME NEW g, NEW C, NEW B, Tiled(g, C, B, 0), NEW c \in C, g[c].len = BlockSize - 1
  PROVE  c = Home(c) + 1 /\ g[c].last /\ g[c].prev = 0
<1>1. /\ c \in Nat /\ Home(c) \in Nat /\ Home(c) < c /\ End(g, c) <= Home(c) + BlockSize
      /\ End(g, c) = c + (BlockSize - 1) /\ BlockSize \in Nat
  BY ChunkFacts, Sizes DEF End
<1>2. c = Home(c) + 1 /\ End(g, c) = Home(c) + BlockSize
  BY <1>1
<1>3. g[c].last
  <2> SUFFICES ASSUME ~g[c].last PROVE FALSE
    OBVIOUS
  <2>1. End(g, c) \in C /\ Home(End(g, c)) = Home(c)
    BY Neighbours
  <2> DEFINE e == End(g, c)
  <2>2. e \in Nat /\ IsChunk(g, e) /\ End(g, e) <= Home(e) + BlockSize
    BY <2>1, ChunkFacts
  <2>3. End(g, e) = e + g[e].len /\ g[e].len \in Nat /\ g[e].len >= 1
    BY <2>2 DEF End, IsChunk
  <2>4. e = Home(e) + BlockSize /\ Home(e) \in Nat
    BY <1>1, <1>2, <2>1
  <2> HIDE DEF e
  <2> QED
    BY <1>1, <2>2, <2>3, <2>4
<1>4. g[c].prev = 0
  <2> SUFFICES ASSUME g[c].prev # 0 PROVE FALSE
    OBVIOUS
  <2> DEFINE p == c - g[c].prev
  <2>1. p \in C /\ p < c /\ Home(p) = Home(c)
    BY Neighbours
  <2>2. p \in Nat /\ Home(p) < p
    BY <2>1, ChunkFacts
  <2> HIDE DEF p
  <2> QED
    BY <1>1, <1>2, <2>1, <2>2
<1> QED
  BY <1>2, <1>3, <1>4

(* The free header of a filed chunk.                                       *)
LEMMA FiledFacts ==
  ASSUME NEW h, NEW B, NEW C, NEW m, NEW r, NEW x, Good(h, B, C, m, r, x)
  PROVE  /\ \A y \in Filed(m, r) : /\ y \in C /\ ~h.mem[y].used /\ h.mem[y].len >= 2 /\ y # x
                                   /\ y \in Address /\ y + 1 \in Address /\ y + 1 \notin C
                                   /\ FreeCell(h.mem, C, y + 1)
         /\ \A y \in In(r) : h.mem[y].len \in Nat
<1>1. ASSUME NEW y \in Filed(m, r)
      PROVE  /\ y \in C /\ ~h.mem[y].used /\ h.mem[y].len >= 2 /\ y # x
             /\ y \in Address /\ y + 1 \in Address /\ y + 1 \notin C
             /\ FreeCell(h.mem, C, y + 1) /\ h.mem[y].len \in Nat
  <2>1. y \in C /\ ~h.mem[y].used /\ h.mem[y].len >= 2 /\ y # x
    BY DEF Good, FreeSet
  <2>2. Tiled(h.mem, C, B, 0)
    BY DEF Good
  <2>3. y \in Nat /\ y \in Address /\ y + 1 \in Address /\ y + 1 \notin C /\ IsChunk(h.mem, y)
    BY <2>1, <2>2, ChunkFacts
  <2>4. y + 1 \in y + 1 .. End(h.mem, y) - 1 /\ h.mem[y].len \in Nat
    BY <2>1, <2>3 DEF End, IsChunk
  <2> QED
    BY <2>1, <2>3, <2>4 DEF FreeCell
<1>2. \A y \in In(r) : y \in Filed(m, r)
  BY DEF Filed
<1> QED
  BY <1>1, <1>2

-----------------------------------------------------------------------------
(***************************************************************************)
(* Merging: a free chunk takes over its free neighbours. Only headers are  *)
(* written here; the lists follow below.                                   *)
(***************************************************************************)
Joined(h, g, C, D, B, c) ==
  /\ HeadsKept(h, g) /\ Tiled(g.mem, D, B, c) /\ D \subseteq C /\ c \in D
  /\ \A a \in Address : a # c => g.mem[a] = h.mem[a]
  /\ ~g.mem[c].used /\ g.mem[c].len >= h.mem[c].len /\ g.mem[c].prev = h.mem[c].prev

JoinRight(h, c) == LET r == ChunkNext(h, c) IN IF IsFree(h, r) THEN Absorb(h, c, r) ELSE h

LEMMA MergeRight ==
  ASSUME NEW h, Shaped(h), NEW B, NEW C, Tiled(h.mem, C, B, 0), NEW c \in C, ~h.mem[c].used,
         Spaced(h, C, c)
  PROVE  LET r == ChunkNext(h, c)
             g == JoinRight(h, c)
             D == IF IsFree(h, r) THEN C \ {r} ELSE C
         IN  /\ Joined(h, g, C, D, B, c) /\ Spaced(g, D, c)
             /\ ~g.mem[c].last => g.mem[End(g.mem, c)].used
             /\ IsFree(h, r) => /\ r \in C /\ c < r /\ ~h.mem[r].used /\ r = End(h.mem, c)
                                /\ End(g.mem, c) = End(h.mem, r) /\ Home(r) = Home(c)
                                /\ g.mem[c].len = h.mem[c].len + h.mem[r].len
<1> DEFINE r == ChunkNext(h, c)
           g == JoinRight(h, c)
<1>1. /\ c \in Nat /\ c \in Address /\ IsChunk(h.mem, c) /\ h.mem[c].len \in Nat /\ h.mem[c].len >= 1
      /\ End(h.mem, c) \in Nat /\ c < End(h.mem, c)
  BY ChunkIn
<1>2. ~h.mem[c].last => r = End(h.mem, c) /\ r \in C /\ Home(r) = Home(c) /\ r # 0
  BY <1>1, Neighbours DEF ChunkNext, End
<1>3. h.mem[c].last => r = 0
  BY DEF ChunkNext, Null
<1>4. CASE ~IsFree(h, r)
  <2>1. g = h
    BY <1>4 DEF JoinRight
  <2>2. HeadsKept(h, h)
    BY DEF HeadsKept
  <2>3. Tiled(h.mem, C, B, c)
    BY TiledWeak
  <2>4. Joined(h, h, C, C, B, c)
    BY <1>1, <2>2, <2>3 DEF Joined
  <2>5. ~h.mem[c].last => h.mem[End(h.mem, c)].used
    BY <1>2, <1>4 DEF IsFree, Null
  <2> HIDE DEF r, g
  <2> QED
    BY <1>4, <2>1, <2>4, <2>5 DEF r, g
<1>5. CASE IsFree(h, r)
  <2>1. ~h.mem[c].last /\ r = End(h.mem, c) /\ r \in C /\ Home(r) = Home(c) /\ r # c /\ c < r /\ ~h.mem[r].used
    BY <1>1, <1>2, <1>3, <1>5 DEF IsFree, Null
  <2>2. g = Absorb(h, c, r)
    BY <1>5 DEF JoinRight
  <2> HIDE DEF r, g
  <2>3. HeadsKept(h, g) /\ IsAbsorb(h.mem, g.mem, Address, c, r)
    BY <1>1, <2>1, <2>2, AbsorbIs
  <2>4. C \subseteq Address
    BY DEF Tiled, Inside
  <2>5. IsAbsorb(h.mem, g.mem, C, c, r)
    BY <2>3, <2>4 DEF IsAbsorb
  <2>6. Tiled(g.mem, C \ {r}, B, c)
    BY <2>1, <2>5, AbsorbTiles
  <2>7. g.mem[c] = Chunk(h.mem[c].prev, h.mem[r].last, h.mem[c].used, FALSE, h.mem[c].len + h.mem[r].len)
        /\ \A a \in Address : a # c => g.mem[a] = h.mem[a]
    BY <2>3 DEF IsAbsorb
  <2>8. /\ g.mem[c].prev = h.mem[c].prev /\ g.mem[c].used = h.mem[c].used
        /\ g.mem[c].last = h.mem[r].last /\ g.mem[c].len = h.mem[c].len + h.mem[r].len
    BY <2>7 DEF Chunk
  <2>9. IsChunk(h.mem, r) /\ h.mem[r].len \in Nat /\ r \in Nat /\ r < End(h.mem, r)
    BY <2>1, ChunkIn
  <2>10. End(g.mem, c) = End(h.mem, r)
    BY <1>1, <2>1, <2>8, <2>9 DEF End
  <2>11. Joined(h, g, C, C \ {r}, B, c)
    <3>1. g.mem[c].len >= h.mem[c].len
      BY <1>1, <2>8, <2>9
    <3>2. ~g.mem[c].used /\ g.mem[c].prev = h.mem[c].prev
      BY <2>8
    <3> QED
      BY <2>1, <2>3, <2>6, <2>7, <3>1, <3>2 DEF Joined
  <2>12. ~g.mem[c].last => g.mem[End(g.mem, c)].used
    <3> SUFFICES ASSUME ~g.mem[c].last PROVE g.mem[End(g.mem, c)].used
      OBVIOUS
    <3>1. ~h.mem[r].last
      BY <2>8
    <3>2. End(h.mem, r) \in C /\ End(h.mem, r) # c /\ End(h.mem, r) \in Address
      <4>1. End(h.mem, r) \in C
        BY <2>1, <3>1, Neighbours
      <4>2. End(h.mem, r) # c
        <5>1. c < r /\ r < End(h.mem, r) /\ c \in Nat /\ r \in Nat /\ End(h.mem, r) \in Nat
          BY <2>1, ChunkIn
        <5> QED
          BY <5>1
      <4> QED
        BY <2>4, <4>1, <4>2
    <3>3. h.mem[End(h.mem, r)].used
      BY <2>1, <3>1, <3>2 DEF Spaced
    <3> QED
      BY <2>7, <2>10, <3>2, <3>3
  <2>13. Spaced(g, C \ {r}, c)
    <3> SUFFICES ASSUME NEW d \in C \ {r}, ~g.mem[d].last, ~g.mem[d].used, d # c, End(g.mem, d) # c
                 PROVE  g.mem[End(g.mem, d)].used
      BY DEF Spaced
    <3>1. g.mem[d] = h.mem[d]
      BY <2>4, <2>7
    <3>2. End(h.mem, d) \in C /\ End(g.mem, d) = End(h.mem, d)
      BY <3>1, Neighbours DEF End
    <3>3. h.mem[End(h.mem, d)].used
      BY <3>1, <3>2 DEF Spaced
    <3> QED
      BY <2>4, <2>7, <3>2, <3>3
  <2> QED
    BY <1>5, <2>1, <2>8, <2>10, <2>11, <2>12, <2>13 DEF r, g
<1> QED
  BY <1>4, <1>5

JoinLeft(h, c) == LET l == ChunkPrev(h, c) IN IF IsFree(h, l) THEN Absorb(h, l, c) ELSE h

Before(h, C, c, l) ==
  /\ l # 0 => l \in C /\ l < c /\ End(h.mem, l) = c /\ ~h.mem[l].last
  /\ \A d \in C : ~h.mem[d].last /\ End(h.mem, d) = c => d = l

UsedAfter(h, c) == ~h.mem[c].last => h.mem[End(h.mem, c)].used

LEMMA MergeLeft ==
  ASSUME NEW h, Shaped(h), NEW B, NEW C, NEW c \in C, Tiled(h.mem, C, B, c), ~h.mem[c].used,
         Spaced(h, C, c), UsedAfter(h, c), NEW l, l = ChunkPrev(h, c), Before(h, C, c, l)
  PROVE  LET g == JoinLeft(h, c)
             k == IF IsFree(h, l) THEN l ELSE c
             D == IF IsFree(h, l) THEN C \ {c} ELSE C
         IN  /\ Joined(h, g, C, D, B, k) /\ Spaced(g, D, 0)
             /\ IsFree(h, l) => /\ l \in C /\ ~h.mem[l].used /\ l # c
                                /\ End(g.mem, l) = End(h.mem, c)
                                /\ g.mem[l].len = h.mem[l].len + h.mem[c].len
<1> USE DEF Before, UsedAfter
<1> DEFINE g == JoinLeft(h, c)
<1>1. /\ c \in Nat /\ c \in Address /\ IsChunk(h.mem, c) /\ h.mem[c].len \in Nat /\ h.mem[c].len >= 1
      /\ End(h.mem, c) \in Nat /\ c < End(h.mem, c) /\ C \subseteq Address
  BY ChunkIn
<1>2. CASE ~IsFree(h, l)
  <2>1. g = h
    BY <1>2 DEF JoinLeft
  <2>2. HeadsKept(h, h)
    BY DEF HeadsKept
  <2>3. Joined(h, h, C, C, B, c)
    BY <1>1, <2>2 DEF Joined
  <2>4. Spaced(h, C, 0)
    <3> SUFFICES ASSUME NEW d \in C, ~h.mem[d].last, ~h.mem[d].used
                 PROVE  h.mem[End(h.mem, d)].used
      BY DEF Spaced
    <3>1. CASE d = c
      BY <3>1
    <3>2. CASE d # c /\ End(h.mem, d) = c
      <4>1. d = l /\ d # 0
        <5>1. d \in Nat /\ d >= 2
          BY ChunkFacts
        <5> QED
          BY <3>2, <5>1
      <4> QED
        BY <1>2, <4>1 DEF IsFree, Null
    <3>3. CASE d # c /\ End(h.mem, d) # c
      BY <3>3 DEF Spaced
    <3> QED
      BY <3>1, <3>2, <3>3
  <2> HIDE DEF g
  <2> QED
    BY <1>2, <2>1, <2>3, <2>4 DEF g
<1>3. CASE IsFree(h, l)
  <2>1. l # 0 /\ l \in C /\ l < c /\ End(h.mem, l) = c /\ ~h.mem[l].last /\ ~h.mem[l].used
    BY <1>3 DEF IsFree, Null
  <2>2. g = Absorb(h, l, c)
    BY <1>3 DEF JoinLeft
  <2> HIDE DEF g
  <2>3. /\ l \in Nat /\ IsChunk(h.mem, l) /\ l \in Address /\ h.mem[l].len \in Nat
        /\ l # c
    <3>1. l \in Nat /\ IsChunk(h.mem, l) /\ l \in Address
      BY <2>1, ChunkFacts
    <3> QED
      BY <1>1, <2>1, <3>1 DEF IsChunk
  <2>4. HeadsKept(h, g) /\ IsAbsorb(h.mem, g.mem, Address, l, c)
    BY <1>1, <2>2, <2>3, AbsorbIs
  <2>5. IsAbsorb(h.mem, g.mem, C, l, c)
    BY <1>1, <2>4 DEF IsAbsorb
  <2>6. Tiled(g.mem, C \ {c}, B, l)
    BY <2>1, <2>5, AbsorbTiles
  <2>7. g.mem[l] = Chunk(h.mem[l].prev, h.mem[c].last, h.mem[l].used, FALSE, h.mem[l].len + h.mem[c].len)
        /\ \A a \in Address : a # l => g.mem[a] = h.mem[a]
    BY <2>4 DEF IsAbsorb
  <2>8. /\ g.mem[l].prev = h.mem[l].prev /\ g.mem[l].used = h.mem[l].used
        /\ g.mem[l].last = h.mem[c].last /\ g.mem[l].len = h.mem[l].len + h.mem[c].len
    BY <2>7 DEF Chunk
  <2>9. End(g.mem, l) = End(h.mem, c)
    BY <1>1, <2>1, <2>3, <2>8 DEF End
  <2>10. Joined(h, g, C, C \ {c}, B, l)
    <3>1. g.mem[l].len >= h.mem[l].len
      BY <1>1, <2>3, <2>8
    <3>2. ~g.mem[l].used /\ g.mem[l].prev = h.mem[l].prev
      BY <2>1, <2>8
    <3> QED
      BY <2>1, <2>3, <2>4, <2>6, <2>7, <3>1, <3>2 DEF Joined
  <2>11. Spaced(g, C \ {c}, 0)
    <3> SUFFICES ASSUME NEW d \in C \ {c}, ~g.mem[d].last, ~g.mem[d].used
                 PROVE  g.mem[End(g.mem, d)].used
      BY DEF Spaced
    <3>1. CASE d = l
      <4>1. ~h.mem[c].last /\ h.mem[End(h.mem, c)].used
        BY <2>8, <3>1
      <4>2. End(h.mem, c) \in C /\ End(h.mem, c) # l
        <5>1. End(h.mem, c) \in C
          BY <4>1 DEF Tiled, Rightward
        <5> QED
          BY <1>1, <2>1, <2>3, <5>1
      <4> QED
        BY <1>1, <2>7, <2>9, <3>1, <4>1, <4>2
    <3>2. CASE d # l
      <4>1. g.mem[d] = h.mem[d]
        BY <1>1, <2>7, <3>2
      <4>2. End(h.mem, d) \in C /\ End(h.mem, d) # c
        BY <3>2, <4>1 DEF Tiled, Rightward
      <4>3. h.mem[End(h.mem, d)].used
        BY <4>1, <4>2 DEF Spaced
      <4>4. End(h.mem, d) # l
        BY <2>1, <4>3
      <4> QED
        BY <1>1, <2>7, <4>1, <4>2, <4>3, <4>4 DEF End
    <3> QED
      BY <3>1, <3>2
  <2> QED
    BY <1>3, <2>1, <2>3, <2>8, <2>9, <2>10, <2>11 DEF g
<1> QED
  BY <1>2, <1>3

(* The chunk after c is told how long c is now.                            *)
Fixed(h, g, C, B, c) ==
  /\ HeadsKept(h, g) /\ Tiled(g.mem, C, B, 0)
  /\ \A a \in Address : (~h.mem[c].last /\ a = End(h.mem, c)) \/ g.mem[a] = h.mem[a]
  /\ \A d \in C : g.mem[d].len = h.mem[d].len /\ g.mem[d].used = h.mem[d].used
                  /\ g.mem[d].last = h.mem[d].last
  /\ \A x : Spaced(h, C, x) => Spaced(g, C, x)

LEMMA FixNext ==
  ASSUME NEW h, Shaped(h), NEW B, NEW C, NEW c \in C, Tiled(h.mem, C, B, c)
  PROVE  Fixed(h, FixNextPrev(h, c), C, B, c)
<1> DEFINE g == FixNextPrev(h, c)
           e == End(h.mem, c)
<1>1. C \subseteq Address
  BY DEF Tiled, Inside
<1>2. ~h.mem[c].last => e \in C /\ IsChunk(h.mem, e)
  <2>1. ~h.mem[c].last => e \in C
    BY DEF Tiled, Rightward
  <2> HIDE DEF e
  <2> QED
    BY <2>1, ChunkFacts
<1> HIDE DEF g
<1>3. HeadsKept(h, g) /\ IsFix(h.mem, g.mem, Address, c)
  BY <1>1, <1>2, FixIs DEF g
<1>4. IsFix(h.mem, g.mem, C, c)
  BY <1>1, <1>3 DEF IsFix
<1>5. Tiled(g.mem, C, B, 0)
  BY <1>4, FixTiles
<1>6. \A a \in Address : (~h.mem[c].last /\ a = e) \/ g.mem[a] = h.mem[a]
  BY <1>3 DEF IsFix
<1>7. ASSUME NEW d \in C
      PROVE  g.mem[d].len = h.mem[d].len /\ g.mem[d].used = h.mem[d].used /\ g.mem[d].last = h.mem[d].last
  <2>1. CASE ~h.mem[c].last /\ d = e
    <3>1. g.mem[e] = Chunk(h.mem[c].len, h.mem[e].last, h.mem[e].used, FALSE, h.mem[e].len)
      BY <1>3, <2>1 DEF IsFix
    <3> HIDE DEF e
    <3> QED
      BY <2>1, <3>1 DEF Chunk
  <2>2. CASE ~(~h.mem[c].last /\ d = e)
    <3>1. g.mem[d] = h.mem[d]
      BY <1>1, <1>6, <2>2
    <3> QED
      BY <3>1
  <2> QED
    BY <2>1, <2>2
<1>8. ASSUME NEW x, Spaced(h, C, x) PROVE Spaced(g, C, x)
  <2>1. \A d \in C : End(g.mem, d) = End(h.mem, d)
    BY <1>7 DEF End
  <2>2. \A d \in C : ~h.mem[d].last => End(h.mem, d) \in C
    BY DEF Tiled, Rightward
  <2> QED
    BY <1>7, <1>8, <2>1, <2>2 DEF Spaced
<1> QED
  BY <1>3, <1>5, <1>6, <1>7, <1>8 DEF Fixed, g

(* What the merge of c0 leaves in place of h: the chunks D, of which c now *)
(* holds c0, and the lists as they were.                                   *)
Merged(h, g, C, D, B, m, r, c, right, rf, lf) ==
  /\ HeadsKept(h, g) /\ Tiled(g.mem, D, B, 0) /\ Spaced(g, D, 0) /\ Lists(g, m, r)
  /\ Step(h, C, g, D, B, 0)
  /\ c \in D /\ ~g.mem[c].used /\ (c + 1 \in Address \/ ~HasRoom(g, c))
  /\ c \in D /\ (lf <=> c \in Filed(m, r)) /\ (rf => right \in Filed(m, r) /\ right # c)
  /\ rf \/ lf => HasRoom(g, c)
  /\ FreeSet(g, D, 0) = (IF rf THEN Filed(m, r) \ {right} ELSE Filed(m, r))
                        \cup (IF HasRoom(g, c) THEN {c} ELSE {})
  /\ \A y \in Filed(m, r) : FreeCell(g.mem, D, y + 1)
  /\ HasRoom(g, c) => FreeCell(g.mem, D, c + 1)
  /\ \A y \in In(m) : y # h.master_head => y # c /\ (rf => y # right) /\ g.mem[y].len = BlockSize - 1

LEMMA ListsHeaders ==
  ASSUME NEW h, NEW B, NEW C, NEW m, NEW r, NEW x, Good(h, B, C, m, r, x), NEW g,
         HeadsKept(h, g), \A a \in Address : a \notin C => g.mem[a] = h.mem[a]
  PROVE  Lists(g, m, r)
<1>1. \A y \in Filed(m, r) : g.mem[y + 1] = h.mem[y + 1]
  BY FiledFacts
<1>2. Lists(h, m, r)
  BY DEF Good
<1>3. Dll(g, m, 1)
  <2>1. \A y \in In(m) : g.mem[y + 1] = h.mem[y + 1]
    BY <1>1 DEF Filed
  <2>2. Dll(h, m, 1)
    BY <1>2 DEF Lists
  <2> QED
    BY <2>1, <2>2, DllSame
<1>4. Ring(g, r)
  <2>1. \A y \in In(r) : g.mem[y + 1] = h.mem[y + 1]
    BY <1>1 DEF Filed
  <2>2. Ring(h, r)
    BY <1>2 DEF Lists
  <2> QED
    BY <2>1, <2>2, RingSame
<1> QED
  BY <1>2, <1>3, <1>4 DEF Lists, HeadsKept

LEMMA MergeTiles ==
  ASSUME NEW h, NEW B, NEW C, NEW m, NEW r, NEW c0 \in C, Good(h, B, C, m, r, c0), ~h.mem[c0].used
  PROVE  LET right == ChunkNext(h, c0)
             h1 == JoinRight(h, c0)
             left == ChunkPrev(h1, c0)
             h2 == JoinLeft(h1, c0)
             c == IF IsFree(h1, left) THEN left ELSE c0
             g == FixNextPrev(h2, c)
             rf == IsFree(h, right) /\ HasRoom(h, right)
             lf == IsFree(h1, left) /\ HasRoom(h1, left)
         IN  left # c0 /\ \E D : Merged(h, g, C, D, B, m, r, c, right, rf, lf)
<1> DEFINE right == ChunkNext(h, c0)
           h1 == JoinRight(h, c0)
           left == ChunkPrev(h1, c0)
           h2 == JoinLeft(h1, c0)
           rfree == IsFree(h, right)
           lfree == IsFree(h1, left)
           c == IF lfree THEN left ELSE c0
           g == FixNextPrev(h2, c)
           D1 == IF rfree THEN C \ {right} ELSE C
           D == IF lfree THEN D1 \ {c0} ELSE D1
           F == Filed(m, r)
<1>1. Shaped(h) /\ Tiled(h.mem, C, B, 0) /\ Lists(h, m, r) /\ F = FreeSet(h, C, c0)
      /\ Spaced(h, C, c0) /\ MasterFull(h, m)
  BY DEF Good
<1>2. /\ \A d \in C : d \in Nat /\ d \in Address /\ d # 0 /\ h.mem[d].len \in Nat /\ h.mem[d].len >= 1
                      /\ End(h.mem, d) = d + h.mem[d].len /\ End(h.mem, d) \in Nat /\ d < End(h.mem, d)
      /\ C \subseteq Address
  <2>1. ASSUME NEW d \in C
        PROVE  /\ d \in Nat /\ d \in Address /\ d # 0 /\ h.mem[d].len \in Nat /\ h.mem[d].len >= 1
               /\ End(h.mem, d) = d + h.mem[d].len /\ End(h.mem, d) \in Nat /\ d < End(h.mem, d)
    <3>1. d >= 2 /\ d \in Nat
      BY <1>1, ChunkFacts
    <3> QED
      BY <1>1, <3>1, ChunkIn
  <2>2. C \subseteq Address
    BY <1>1, ChunkIn
  <2> QED
    BY <2>1, <2>2
<1>3. /\ Joined(h, h1, C, D1, B, c0) /\ Spaced(h1, D1, c0)
      /\ ~h1.mem[c0].last => h1.mem[End(h1.mem, c0)].used
      /\ rfree => /\ right \in C /\ c0 < right /\ ~h.mem[right].used /\ right = End(h.mem, c0)
                  /\ End(h1.mem, c0) = End(h.mem, right) /\ Home(right) = Home(c0)
                  /\ h1.mem[c0].len = h.mem[c0].len + h.mem[right].len
  BY <1>1, MergeRight
<1> HIDE DEF h1, right
<1>4. left # 0 => /\ left \in C /\ left \in D1 /\ left < c0 /\ End(h.mem, left) = c0 /\ End(h1.mem, left) = c0
                  /\ ~h.mem[left].last /\ ~h1.mem[left].last /\ h1.mem[left] = h.mem[left] /\ left # c0
  <2> SUFFICES ASSUME left # 0
               PROVE  /\ left \in C /\ left \in D1 /\ left < c0 /\ End(h.mem, left) = c0 /\ End(h1.mem, left) = c0
                      /\ ~h.mem[left].last /\ ~h1.mem[left].last /\ h1.mem[left] = h.mem[left] /\ left # c0
    OBVIOUS
  <2>1. h.mem[c0].prev # 0 /\ left = c0 - h.mem[c0].prev
    BY <1>3 DEF Joined, ChunkPrev, Null
  <2> HIDE DEF left
  <2>2. left \in C /\ ~h.mem[left].last /\ End(h.mem, left) = c0 /\ left < c0
    BY <1>1, <2>1, Neighbours
  <2>3. left # c0 /\ (rfree => left # right)
    BY <1>2, <1>3, <2>2
  <2>4. h1.mem[left] = h.mem[left]
    BY <1>2, <1>3, <2>2, <2>3 DEF Joined
  <2> QED
    BY <2>2, <2>3, <2>4 DEF End
<1>5. left # c0
  BY <1>2, <1>4
<1>6. Shaped(h1) /\ ~h1.mem[c0].used /\ Tiled(h1.mem, D1, B, c0) /\ c0 \in D1 /\ HeadsKept(h, h1)
      /\ h1.mem[c0].prev = h.mem[c0].prev
  BY <1>3 DEF Joined, HeadsKept
<1>7. ASSUME NEW d \in D1, ~h1.mem[d].last, End(h1.mem, d) = c0 PROVE d = left
  <2>1. d # c0
    <3>1. c0 < End(h1.mem, c0) /\ c0 \in Nat /\ End(h1.mem, c0) \in Nat
      BY <1>6, ChunkIn
    <3> QED
      BY <1>7, <3>1
  <2>2. d \in C /\ h1.mem[d] = h.mem[d]
    BY <1>2, <1>3, <2>1 DEF Joined
  <2>3. ~h.mem[d].last /\ End(h.mem, d) = c0
    BY <1>7, <2>2 DEF End
  <2>4. h.mem[c0].prev = h.mem[d].len
    BY <1>1, <2>2, <2>3, Neighbours
  <2>5. h.mem[d].len \in Nat /\ h.mem[d].len >= 1 /\ d \in Nat /\ c0 = d + h.mem[d].len
    BY <1>2, <2>2, <2>3
  <2> QED
    BY <1>6, <2>4, <2>5 DEF ChunkPrev
<1>8. left # 0 => left \in D1 /\ left < c0 /\ End(h1.mem, left) = c0 /\ ~h1.mem[left].last
  BY <1>4
<1>9. Spaced(h1, D1, c0) /\ (~h1.mem[c0].last => h1.mem[End(h1.mem, c0)].used)
  BY <1>3
<1> HIDE DEF left, D1
<1>10. /\ Joined(h1, h2, D1, D, B, c) /\ Spaced(h2, D, 0)
       /\ lfree => /\ left \in D1 /\ ~h1.mem[left].used /\ left # c0
                   /\ End(h2.mem, left) = End(h1.mem, c0)
                   /\ h2.mem[left].len = h1.mem[left].len + h1.mem[c0].len
  <2>1. left = ChunkPrev(h1, c0)
    BY DEF left
  <2>2. Before(h1, D1, c0, left) /\ UsedAfter(h1, c0)
    BY <1>7, <1>8, <1>9 DEF Before, UsedAfter
  <2> QED
    BY <1>6, <1>9, <2>1, <2>2, MergeLeft
<1> HIDE DEF h2, c, D, lfree, rfree
<1>11. Shaped(h2) /\ c \in D /\ Tiled(h2.mem, D, B, c) /\ HeadsKept(h1, h2)
  BY <1>10 DEF Joined, HeadsKept
<1>12. Fixed(h2, g, D, B, c)
  BY <1>11, FixNext
<1> HIDE DEF g, F
<1>13. c \in {left, c0} /\ c \in C /\ (lfree => c = left) /\ (~lfree => c = c0)
  BY <1>4, <1>10 DEF c, lfree, IsFree, Null
<1>14. HeadsKept(h, g)
  BY <1>6, <1>11, <1>12 DEF HeadsKept, Fixed
<1>15. \A a \in Address : a \notin C => g.mem[a] = h.mem[a]
  <2> TAKE a \in Address
  <2> HAVE a \notin C
  <2>1. h1.mem[a] = h.mem[a]
    BY <1>3 DEF Joined
  <2>2. h2.mem[a] = h1.mem[a]
    BY <1>10, <1>13 DEF Joined
  <2>3. ~h2.mem[c].last => End(h2.mem, c) \in C
    BY <1>3, <1>10, <1>11 DEF Joined, Tiled, Rightward
  <2>4. g.mem[a] = h2.mem[a]
    BY <1>12, <2>3 DEF Fixed
  <2> QED
    BY <2>1, <2>2, <2>4
<1>16. /\ D \subseteq C /\ (lfree => c0 \notin D) /\ (rfree => right \notin D)
       /\ \A d \in C : d \in D \/ (lfree /\ d = c0) \/ (rfree /\ d = right)
  BY <1>3, <1>10 DEF D, D1, Joined
<1>17. \A d \in D : d # c => d # c0 /\ g.mem[d].len = h.mem[d].len /\ g.mem[d].used = h.mem[d].used
  <2> TAKE d \in D
  <2> HAVE d # c
  <2>1. d # c0
    BY <1>13, <1>16
  <2>2. h1.mem[d] = h.mem[d] /\ h2.mem[d] = h1.mem[d]
    BY <1>2, <1>3, <1>10, <1>16, <2>1 DEF Joined
  <2> QED
    BY <1>12, <2>1, <2>2 DEF Fixed
<1>18. ~g.mem[c].used /\ g.mem[c].len = h2.mem[c].len /\ End(g.mem, c) = End(h2.mem, c)
  BY <1>10, <1>11, <1>12 DEF Fixed, Joined, End
<1>19. Tiled(g.mem, D, B, 0) /\ Spaced(g, D, 0)
  BY <1>10, <1>12 DEF Fixed
<1>20. g.mem[c].len \in Nat /\ g.mem[c].len >= 1 /\ c \in Nat /\ End(g.mem, c) = c + g.mem[c].len
       /\ c + 1 \in Nat
  BY <1>11, <1>19, ChunkIn
<1>21. /\ h1.mem[c0].len >= h.mem[c0].len
       /\ h1.mem[c0].len \in Nat /\ h1.mem[c0].len >= 1
  BY <1>3, <1>6, ChunkIn DEF Joined
<1>22. (rfree \/ lfree => g.mem[c].len >= 2) /\ (HasRoom(g, c) <=> g.mem[c].len >= 2)
  <2>1. CASE lfree
    <3>1. h1.mem[left].len = h.mem[left].len /\ left \in C
      BY <1>4, <1>10, <1>13, <2>1 DEF lfree, IsFree, Null
    <3>2. g.mem[c].len = h.mem[left].len + h1.mem[c0].len
      BY <1>10, <1>13, <1>18, <2>1, <3>1
    <3>3. h.mem[left].len \in Nat /\ h.mem[left].len >= 1
      BY <1>2, <3>1
    <3> QED
      BY <1>21, <3>2, <3>3 DEF HasRoom
  <2>2. CASE ~lfree
    <3>1. c = c0 /\ h2 = h1
      BY <1>13, <2>2 DEF h2, lfree, JoinLeft, left
    <3>2. rfree => h1.mem[c0].len = h.mem[c0].len + h.mem[right].len /\ right \in C
      BY <1>3
    <3>3. rfree => h1.mem[c0].len >= 2
      <4>1. h.mem[c0].len \in Nat /\ h.mem[c0].len >= 1
        BY <1>2
      <4>2. right \in C => h.mem[right].len \in Nat /\ h.mem[right].len >= 1
        BY <1>2
      <4> QED
        BY <3>2, <4>1, <4>2
    <3> QED
      BY <1>18, <1>20, <2>2, <3>1, <3>3 DEF HasRoom
  <2> QED
    BY <2>1, <2>2
<1>23. \A d \in C : (HasRoom(h, d) <=> h.mem[d].len >= 2)
  BY <1>2 DEF HasRoom
<1>24. \A y \in F : y \in C /\ y # c0 /\ ~h.mem[y].used /\ h.mem[y].len >= 2
  BY <1>1 DEF FreeSet
<1>25. /\ rfree => right \in C /\ c0 < right /\ ~h.mem[right].used /\ right = End(h.mem, c0) /\ right # c0
                   /\ End(h1.mem, c0) = End(h.mem, right)
       /\ lfree => /\ left \in C /\ left < c0 /\ ~h.mem[left].used /\ left # c0 /\ ~h.mem[left].last
                   /\ h1.mem[left] = h.mem[left]
  <2>1. rfree => right \in C /\ c0 < right /\ ~h.mem[right].used /\ right = End(h.mem, c0)
                 /\ End(h1.mem, c0) = End(h.mem, right)
    BY <1>3
  <2>2. rfree => right # c0
    BY <1>2, <2>1
  <2>3. lfree => /\ left \in C /\ left < c0 /\ ~h.mem[left].used /\ left # c0 /\ ~h.mem[left].last
                 /\ h1.mem[left] = h.mem[left]
    <3>1. lfree => left # 0 /\ ~h1.mem[left].used
      BY DEF lfree, IsFree, Null
    <3> QED
      BY <1>4, <3>1
  <2> QED
    BY <2>1, <2>2, <2>3
<1> DEFINE rf == IsFree(h, right) /\ HasRoom(h, right)
           lf == IsFree(h1, left) /\ HasRoom(h1, left)
<1>26. (rf <=> rfree /\ right \in F) /\ (rf => right # c)
  <2>1. rf <=> rfree /\ HasRoom(h, right)
    BY DEF rfree
  <2>2. rfree /\ HasRoom(h, right) <=> rfree /\ right \in F
    BY <1>1, <1>23, <1>25 DEF FreeSet
  <2>3. rfree => right # c
    BY <1>2, <1>13, <1>16, <1>11
  <2> HIDE DEF rf
  <2> QED
    BY <2>1, <2>2, <2>3
<1>27. lf <=> c \in F
  <2>1. CASE lfree
    <3>1. c = left /\ HasRoom(h1, left) <=> HasRoom(h, left)
      BY <1>13, <1>25, <2>1 DEF HasRoom
    <3>2. left \in F <=> HasRoom(h, left)
      BY <1>1, <1>23, <1>25, <2>1 DEF FreeSet
    <3>3. lf <=> HasRoom(h1, left)
      BY <2>1 DEF lfree
    <3> HIDE DEF lf
    <3> QED
      BY <1>13, <1>25, <2>1, <3>2, <3>3 DEF HasRoom
  <2>2. CASE ~lfree
    <3>1. ~lf /\ c = c0
      BY <1>13, <2>2 DEF lfree
    <3> HIDE DEF lf
    <3> QED
      BY <1>24, <3>1
  <2> QED
    BY <2>1, <2>2
<1>28. rf \/ lf => HasRoom(g, c)
  BY <1>22 DEF rfree, lfree
<1> HIDE DEF rf, lf
<1>29. FreeSet(g, D, 0) = (IF rf THEN F \ {right} ELSE F) \cup (IF HasRoom(g, c) THEN {c} ELSE {})
  <2>1. ASSUME NEW d \in FreeSet(g, D, 0)
        PROVE  d \in (IF rf THEN F \ {right} ELSE F) \cup (IF HasRoom(g, c) THEN {c} ELSE {})
    <3>1. d \in D /\ ~g.mem[d].used /\ g.mem[d].len >= 2
      BY DEF FreeSet
    <3>2. CASE d = c
      BY <1>22, <3>1, <3>2
    <3>3. CASE d # c
      <4>1. d \in F
        BY <1>1, <1>16, <1>17, <3>1, <3>3 DEF FreeSet
      <4>2. rf => d # right
        BY <1>16, <1>26, <3>1
      <4> QED
        BY <4>1, <4>2
    <3> QED
      BY <3>2, <3>3
  <2>2. ASSUME NEW d \in (IF rf THEN F \ {right} ELSE F) \cup (IF HasRoom(g, c) THEN {c} ELSE {})
        PROVE  d \in FreeSet(g, D, 0)
    <3>1. CASE d = c /\ HasRoom(g, c)
      <4>1. c \in D /\ c # 0 /\ ~g.mem[c].used /\ g.mem[c].len >= 2
        BY <1>2, <1>11, <1>13, <1>18, <1>22, <3>1
      <4> QED
        BY <3>1, <4>1 DEF FreeSet
    <3>2. CASE ~(d = c /\ HasRoom(g, c))
      <4>1. d \in F /\ (rf => d # right)
        BY <3>2
      <4>2. d \in C /\ d # c0 /\ d # 0 /\ ~h.mem[d].used /\ h.mem[d].len >= 2
        BY <1>2, <1>24, <4>1
      <4>3. d \in D
        BY <1>16, <1>26, <4>1, <4>2
      <4>4. d # c
        BY <1>13, <1>22, <3>2, <4>2
      <4> QED
        BY <1>17, <4>2, <4>3, <4>4 DEF FreeSet
    <3> QED
      BY <3>1, <3>2
  <2> QED
    BY <2>1, <2>2
<1>30. HasRoom(g, c) => FreeCell(g.mem, D, c + 1) /\ c + 1 \in Address
  <2> SUFFICES ASSUME HasRoom(g, c) PROVE FreeCell(g.mem, D, c + 1) /\ c + 1 \in Address
    OBVIOUS
  <2>1. c + 1 \in c + 1 .. End(g.mem, c) - 1
    BY <1>20, <1>22
  <2>2. FreeCell(g.mem, D, c + 1)
    BY <1>11, <1>18, <2>1 DEF FreeCell
  <2> QED
    BY <1>19, <2>2, FreeCellFacts
<1>31. ASSUME NEW y \in F PROVE FreeCell(g.mem, D, y + 1)
  <2>1. y \in C /\ y # c0 /\ ~h.mem[y].used /\ h.mem[y].len >= 2 /\ y \in Nat
    BY <1>2, <1>24
  <2>2. CASE y = c
    BY <1>13, <1>22, <1>30, <2>1, <2>2
  <2>3. CASE y \in D /\ y # c
    <3>1. ~g.mem[y].used /\ g.mem[y].len = h.mem[y].len /\ h.mem[y].len \in Nat
      BY <1>2, <1>17, <2>1, <2>3
    <3>2. y + 1 \in y + 1 .. End(g.mem, y) - 1
      BY <2>1, <3>1 DEF End
    <3> QED
      BY <2>3, <3>1, <3>2 DEF FreeCell
  <2>4. CASE y \notin D
    <3>1. rfree /\ y = right
      BY <1>16, <2>1, <2>4
    <3>2. End(g.mem, c) = End(h.mem, right)
      <4>1. CASE lfree
        BY <1>10, <1>13, <1>18, <1>25, <3>1, <4>1
      <4>2. CASE ~lfree
        <5>1. c = c0 /\ h2 = h1
          BY <1>13, <4>2 DEF h2, lfree, JoinLeft, left
        <5> QED
          BY <1>18, <1>25, <3>1, <5>1
      <4> QED
        BY <4>1, <4>2
    <3>3. c < right
      <4>1. c0 < right /\ right \in Nat /\ c0 \in Nat
        BY <1>2, <1>25, <3>1
      <4>2. lfree => left < c0 /\ left \in Nat
        BY <1>2, <1>25
      <4> QED
        BY <1>13, <4>1, <4>2
    <3>4. End(h.mem, right) = right + h.mem[right].len /\ h.mem[right].len \in Nat /\ right \in Nat
          /\ h.mem[right].len >= 2
      BY <1>2, <2>1, <3>1
    <3>5. y + 1 \in c + 1 .. End(g.mem, c) - 1
      BY <1>20, <3>1, <3>2, <3>3, <3>4
    <3> QED
      BY <1>11, <1>18, <3>5 DEF FreeCell
  <2> QED
    BY <2>2, <2>3, <2>4
<1>32. ASSUME NEW y \in In(m), y # h.master_head
       PROVE  y # c /\ (rf => y # right) /\ g.mem[y].len = BlockSize - 1
  <2>1. y \in F /\ y \in C /\ y # c0 /\ h.mem[y].len = BlockSize - 1
    BY <1>1, <1>24, <1>32 DEF MasterFull, F, Filed
  <2>2. h.mem[y].last /\ h.mem[y].prev = 0
    BY <1>1, <2>1, WholeAlone
  <2>3. y # c
    BY <1>13, <1>25, <2>1, <2>2
  <2>4. rfree => y # right
    <3>1. rfree => ~h.mem[c0].last
      BY DEF rfree, IsFree, right, ChunkNext, Null
    <3>2. rfree => h.mem[right].prev = h.mem[c0].len
      BY <1>1, <1>25, <3>1, Neighbours
    <3>3. h.mem[c0].len # 0
      BY <1>2
    <3> QED
      BY <2>2, <3>2, <3>3
  <2>5. y \in D
    BY <1>16, <2>1, <2>4
  <2> QED
    BY <1>17, <1>26, <2>1, <2>3, <2>4, <2>5
<1>33. Lists(g, m, r)
  BY <1>14, <1>15, ListsHeaders
<1>34. Step(h, C, g, D, B, 0)
  <2>1. \A d \in C : h.mem[d].used => d \in D /\ d # c
    BY <1>13, <1>16, <1>25
  <2>2. \A d \in C : h.mem[d].used => d \in D /\ g.mem[d].used /\ g.mem[d].len = h.mem[d].len
    BY <1>17, <2>1
  <2>3. \A d \in D : g.mem[d].used => d \in C /\ h.mem[d].used
    BY <1>16, <1>17, <1>18
  <2>4. Shaped(g) /\ g.os = h.os /\ g.block_list = h.block_list
    BY <1>14 DEF HeadsKept
  <2> QED
    BY <1>1, <1>15, <2>2, <2>3, <2>4, HeaderStep
<1>35. Merged(h, g, C, D, B, m, r, c, right, rf, lf)
  BY <1>11, <1>14, <1>18, <1>19, <1>26, <1>27, <1>28, <1>29, <1>30, <1>31, <1>32, <1>33, <1>34 DEF Merged, F
<1> QED
  BY <1>5, <1>35 DEF rf, lf, g, h2, c, lfree, left, h1, right

MergeFrom(h, g, c, right, left, rf, lf) ==
  IF rf /\ right = g.master_head
  THEN LET h4 == IF lf THEN RemoveFromRecycler(g, left) ELSE g
       IN  MasterFirst(h4, c, GetFree(h4, right).next)
  ELSE LET h4 == IF rf THEN RemoveFromRecycler(g, right) ELSE g
       IN  IF lf THEN h4 ELSE AddToRecycler(h4, c)

(* Filing the merged chunk: the four ways of it.                           *)
LEMMA FileMerged ==
  ASSUME NEW h, NEW g, NEW C, NEW D, NEW B, NEW m, NEW r, NEW c, NEW right, NEW rf \in BOOLEAN,
         NEW lf \in BOOLEAN, Merged(h, g, C, D, B, m, r, c, right, rf, lf),
         NEW left, lf => left = c
  PROVE  /\ Sound(MergeFrom(h, g, c, right, left, rf, lf), B, D, 0)
         /\ Step(h, C, MergeFrom(h, g, c, right, left, rf, lf), D, B, 0)
<1> DEFINE k == MergeFrom(h, g, c, right, left, rf, lf)
           F == Filed(m, r)
           X == {y \in Address : FreeCell(g.mem, D, y + 1)}
<1>1. /\ HeadsKept(h, g) /\ Tiled(g.mem, D, B, 0) /\ Spaced(g, D, 0) /\ Lists(g, m, r)
      /\ Step(h, C, g, D, B, 0)
      /\ c \in D /\ ~g.mem[c].used /\ (c + 1 \in Address \/ ~HasRoom(g, c))
      /\ (lf <=> c \in F) /\ (rf => right \in F /\ right # c)
      /\ (rf \/ lf => HasRoom(g, c))
      /\ \A y \in F : FreeCell(g.mem, D, y + 1)
      /\ HasRoom(g, c) => FreeCell(g.mem, D, c + 1)
  BY DEF Merged
<1>2. FreeSet(g, D, 0) = (IF rf THEN F \ {right} ELSE F) \cup (IF HasRoom(g, c) THEN {c} ELSE {})
  BY DEF Merged
<1>3. \A y \in In(m) : y # h.master_head => y # c /\ (rf => y # right) /\ g.mem[y].len = BlockSize - 1
  BY DEF Merged
<1>4. Shaped(g) /\ g.master_head = h.master_head
  BY <1>1 DEF HeadsKept
<1>5. c \in Address
  BY <1>1, ChunkIn
<1>6. F \subseteq X
  <2>1. \A y \in F : y \in Address
    BY <1>1, <1>4, ListsFacts DEF Filed
  <2> QED
    BY <1>1, <2>1
<1>7. HasRoom(g, c) => c \in X
  BY <1>1, <1>5
<1>8. In(m) \cup In(r) = F /\ In(m) \cap In(r) = {}
  BY <1>1 DEF Filed, Lists
<1>9. SUFFICES \/ Good(k, B, D, m, r, 0) /\ Step(g, D, k, D, B, 0)
               \/ \E m2, r2 : Good(k, B, D, m2, r2, 0) /\ Step(g, D, k, D, B, 0)
  BY <1>1, StepTrans DEF Sound
<1> DEFINE Done(m2, r2) == /\ Touches(g, k, X) /\ Lists(k, m2, r2)
                           /\ Filed(m2, r2) = FreeSet(g, D, 0)
                           /\ \A y \in In(m2) : y # k.master_head => g.mem[y].len = BlockSize - 1
<1>10. ASSUME NEW m2, NEW r2, Done(m2, r2)
       PROVE  Good(k, B, D, m2, r2, 0) /\ Step(g, D, k, D, B, 0)
  <2> HIDE DEF k
  <2>1. \A y \in X : FreeCell(g.mem, D, y + 1)
    OBVIOUS
  <2>2. AllFree(g, D, X) /\ WholeBut(g, m2, k.master_head)
    BY <1>10, <2>1 DEF AllFree, WholeBut
  <2> HIDE DEF X
  <2> QED
    BY <1>1, <1>4, <1>10, <2>2, Refile
<1> SUFFICES \E m2, r2 : Done(m2, r2)
  BY <1>10
<1>13. ASSUME NEW g2, Touches(g, g2, X), NEW d \in D PROVE g2.mem[d] = g.mem[d]
  <2>1. d \in Address /\ d \in Nat /\ ~FreeCell(g.mem, D, d)
    BY <1>1, ChunkIn, FreeCellFacts
  <2>2. d - 1 + 1 = d
    BY <2>1
  <2>3. d - 1 \notin X
    BY <2>1, <2>2
  <2> QED
    BY <1>13, <2>1, <2>3 DEF Touches
<1> HIDE DEF X, F
<1>11. CASE rf /\ right = g.master_head
  <2> DEFINE h4 == IF lf THEN RemoveFromRecycler(g, left) ELSE g
  <2>1. k = MasterFirst(h4, c, GetFree(h4, right).next)
    BY <1>11 DEF MergeFrom
  <2>2. right \in In(m) /\ Len(m) >= 1
    <3>1. right \in F
      BY <1>1, <1>11
    <3>2. Distinct(m) /\ Distinct(r) /\ g.master_head = At(m, 1)
      BY <1>1, <1>4, ListsFacts
    <3>3. right # 0
      <4>1. right \in Address
        BY <1>1, <1>4, <3>1, ListsFacts DEF F, Filed
      <4> QED
        BY <4>1, AddressPositive
    <3>4. Len(m) >= 1 /\ At(m, 1) \in In(m)
      BY <1>11, <3>2, <3>3, FirstIs
    <3> QED
      BY <1>11, <3>2, <3>4
  <2>3. PICK r2 : /\ Touches(g, h4, X) /\ Lists(h4, m, r2) /\ In(r2) = IF lf THEN In(r) \ {c} ELSE In(r)
                  /\ h4.master_head = right /\ Shaped(h4)
    <3>1. CASE lf
      <4>1. c \in F /\ left = c
        BY <1>1, <3>1
      <4>2. c \in In(r)
        BY <1>1, <1>3, <1>4, <1>8, <1>11, <4>1
      <4>3. /\ Touches(g, RemoveFromRecycler(g, c), F)
            /\ \E r2 : Lists(RemoveFromRecycler(g, c), m, r2) /\ In(r2) = In(r) \ {c}
        BY <1>1, <1>4, <4>2, RemoveIs DEF F
      <4>4. h4 = RemoveFromRecycler(g, c)
        BY <3>1, <4>1
      <4> HIDE DEF h4
      <4>5. Touches(g, h4, X) /\ Shaped(h4)
        BY <1>6, <4>3, <4>4, TouchMore DEF Touches
      <4>6. PICK r2 : Lists(h4, m, r2) /\ In(r2) = In(r) \ {c}
        BY <4>3, <4>4
      <4>7. h4.master_head = right
        BY <1>1, <1>11, <4>6 DEF Lists
      <4> QED
        BY <3>1, <4>5, <4>6, <4>7
    <3>2. CASE ~lf
      <4>1. h4 = g
        BY <3>2
      <4> HIDE DEF h4
      <4> QED
        BY <1>1, <1>4, <1>11, <3>2, <4>1, TouchNone
    <3> QED
      BY <3>1, <3>2
  <2> HIDE DEF h4, k
  <2>4. c + 1 \in Address /\ HasRoom(g, c)
    BY <1>1, <1>11
  <2>5. c \notin Filed(m, r2)
    <3>1. c \notin In(m)
      BY <1>1, <1>3, <1>4, <1>11
    <3>2. c \in In(r2) => c \in F /\ ~lf
      BY <1>8, <2>3
    <3> QED
      BY <1>1, <3>1, <3>2 DEF Filed
  <2>6. /\ Touches(h4, k, Filed(m, r2) \cup {c})
        /\ Lists(k, Swap(m, 1, c), r2) /\ In(Swap(m, 1, c)) = (In(m) \ {right}) \cup {c}
    <3>1. k = MasterFirst(h4, c, GetFree(h4, h4.master_head).next)
      BY <2>1, <2>3
    <3>2. Lists(h4, m, r2) /\ Shaped(h4)
      BY <2>3
    <3>3. /\ Touches(h4, k, Filed(m, r2) \cup {c})
          /\ Lists(k, Swap(m, 1, c), r2) /\ In(Swap(m, 1, c)) = (In(m) \ {h4.master_head}) \cup {c}
      BY <1>5, <2>2, <2>4, <2>5, <3>1, <3>2, ReplaceIs
    <3> QED
      BY <2>3, <3>3
  <2> DEFINE m2 == Swap(m, 1, c)
  <2> HIDE DEF m2
  <2>7. Touches(g, k, X)
    <3>1. Filed(m, r2) \cup {c} \subseteq X
      <4>1. Filed(m, r2) \subseteq F
        BY <1>8, <2>3 DEF Filed
      <4> QED
        BY <1>6, <1>7, <2>4, <4>1
    <3>2. Touches(h4, k, X)
      BY <2>6, <3>1, TouchMore
    <3> QED
      BY <2>3, <3>2, TouchTrans
  <2>8. Lists(k, m2, r2) /\ In(m2) = (In(m) \ {right}) \cup {c}
    BY <2>6 DEF m2
  <2>9. Filed(m2, r2) = FreeSet(g, D, 0)
    <3>1. right \notin In(r)
      BY <1>8, <2>2
    <3> QED
      BY <1>2, <1>8, <1>11, <2>3, <2>4, <2>8, <3>1 DEF Filed
  <2>10. k.master_head = c
    <3>1. c # 0 /\ At(m2, 1) = c
      <4>1. Distinct(m)
        BY <1>1, <1>4, ListsFacts
      <4>2. 1 \in 1 .. Len(m) /\ c \notin In(m)
        BY <2>2, <2>5, <4>1, FirstIs DEF Filed
      <4>3. m2[1] = c /\ Len(m2) = Len(m)
        BY <1>5, <4>1, <4>2, SwapIs DEF m2
      <4> QED
        BY <1>5, <4>2, <4>3, AddressPositive DEF At
    <3> QED
      BY <2>8, <3>1 DEF Lists
  <2>11. \A y \in In(m2) : y # k.master_head => g.mem[y].len = BlockSize - 1
    BY <1>3, <1>4, <1>11, <2>8, <2>10
  <2> QED
    BY <2>7, <2>8, <2>9, <2>11
<1>12. CASE ~(rf /\ right = g.master_head)
  <2> DEFINE h4 == IF rf THEN RemoveFromRecycler(g, right) ELSE g
  <2>1. k = IF lf THEN h4 ELSE AddToRecycler(h4, c)
    BY <1>12 DEF MergeFrom
  <2>2. PICK r2 : /\ Touches(g, h4, X) /\ Lists(h4, m, r2) /\ In(r2) = IF rf THEN In(r) \ {right} ELSE In(r)
                  /\ Shaped(h4)
    <3>1. CASE rf
      <4>1. right \in In(r)
        BY <1>1, <1>3, <1>4, <1>8, <1>12, <3>1
      <4>2. /\ Touches(g, RemoveFromRecycler(g, right), F)
            /\ \E r2 : Lists(RemoveFromRecycler(g, right), m, r2) /\ In(r2) = In(r) \ {right}
        BY <1>1, <1>4, <4>1, RemoveIs DEF F
      <4>3. h4 = RemoveFromRecycler(g, right)
        BY <3>1
      <4> HIDE DEF h4
      <4>4. Touches(g, h4, X) /\ Shaped(h4)
        BY <1>6, <4>2, <4>3, TouchMore DEF Touches
      <4> QED
        BY <3>1, <4>2, <4>3, <4>4
    <3>2. CASE ~rf
      <4>1. h4 = g
        BY <3>2
      <4> HIDE DEF h4
      <4> QED
        BY <1>1, <1>4, <3>2, <4>1, TouchNone
    <3> QED
      BY <3>1, <3>2
  <2> HIDE DEF h4
  <2>3. rf => right \notin In(m)
    BY <1>3, <1>4, <1>12
  <2>4. In(m) \cup In(r2) = IF rf THEN F \ {right} ELSE F
    BY <1>8, <2>2, <2>3
  <2>5. h4.master_head = g.master_head
    BY <1>1, <2>2 DEF Lists
  <2>6. \A y \in In(m) : y # g.master_head => g.mem[y].len = BlockSize - 1
    BY <1>3, <1>4
  <2>7. CASE lf
    <3>1. k = h4
      BY <2>1, <2>7
    <3> HIDE DEF k
    <3>2. Filed(m, r2) = FreeSet(g, D, 0)
      <4>1. c \in F /\ HasRoom(g, c) /\ (rf => right # c)
        BY <1>1, <2>7
      <4>2. FreeSet(g, D, 0) = (IF rf THEN F \ {right} ELSE F) \cup {c}
        BY <1>2, <4>1
      <4> QED
        BY <2>4, <4>1, <4>2 DEF Filed
    <3> QED
      BY <2>2, <2>5, <2>6, <3>1, <3>2
  <2>8. CASE ~lf /\ ~HasRoom(g, c)
    <3>1. h4.mem[c] = g.mem[c]
      BY <1>1, <1>13, <2>2
    <3>2. k = h4
      BY <2>1, <2>8, <3>1 DEF AddToRecycler, HasRoom
    <3> HIDE DEF k
    <3>3. Filed(m, r2) = FreeSet(g, D, 0)
      BY <1>2, <2>4, <2>8 DEF Filed
    <3> QED
      BY <2>2, <2>5, <2>6, <3>2, <3>3
  <2>9. CASE ~lf /\ HasRoom(g, c)
    <3>1. h4.mem[c] = g.mem[c]
      BY <1>1, <1>13, <2>2
    <3>2. k = AddToRecycler(h4, c)
      BY <2>1, <2>9
    <3> HIDE DEF k
    <3>3. c \notin Filed(m, r2) /\ HasRoom(h4, c) /\ c + 1 \in Address
      BY <1>1, <2>4, <2>9, <3>1 DEF HasRoom, Filed
    <3>10. Lists(h4, m, r2) /\ Shaped(h4)
      BY <2>2
    <3>11. /\ Touches(h4, AddToRecycler(h4, c), Filed(m, r2) \cup {c})
           /\ \E r3 : Lists(AddToRecycler(h4, c), m, r3) /\ In(r3) = In(r2) \cup {c}
      BY <1>5, <3>3, <3>10, AddIs
    <3>4. PICK r3 : Lists(k, m, r3) /\ In(r3) = In(r2) \cup {c}
      BY <3>2, <3>11
    <3>5. Touches(h4, k, Filed(m, r2) \cup {c})
      BY <1>5, <2>2, <3>2, <3>3, AddIs
    <3>6. Filed(m, r2) \cup {c} \subseteq X
      BY <1>6, <1>7, <2>4, <2>9 DEF Filed
    <3>7. Touches(g, k, X)
      <4>1. Touches(h4, k, X)
        BY <3>5, <3>6, TouchMore
      <4> QED
        BY <2>2, <4>1, TouchTrans
    <3>8. Filed(m, r3) = FreeSet(g, D, 0)
      BY <1>2, <2>4, <2>9, <3>4 DEF Filed
    <3>9. k.master_head = g.master_head
      BY <1>1, <3>4 DEF Lists
    <3> QED
      BY <2>6, <3>4, <3>7, <3>8, <3>9
  <2> QED
    BY <2>7, <2>8, <2>9
<1> QED
  BY <1>11, <1>12

LEMMA MergeIs ==
  ASSUME NEW h, NEW B, NEW C, NEW c0 \in C, Sound(h, B, C, c0), ~h.mem[c0].used
  PROVE  \E D : Sound(MergeFree(h, c0), B, D, 0) /\ Step(h, C, MergeFree(h, c0), D, B, 0)
<1>1. PICK m, r : Good(h, B, C, m, r, c0)
  BY DEF Sound
<1> DEFINE right == ChunkNext(h, c0)
           h1 == JoinRight(h, c0)
           left == ChunkPrev(h1, c0)
           c == IF IsFree(h1, left) THEN left ELSE c0
           h2 == IF c = left THEN Absorb(h1, left, c0) ELSE h1
           g == FixNextPrev(h2, c)
           rf == IsFree(h, right) /\ HasRoom(h, right)
           lf == IsFree(h1, left) /\ HasRoom(h1, left)
<1>3. MergeFree(h, c0) = MergeFrom(h, g, c, right, left, rf, lf)
  BY DEF MergeFree, MergeFrom, MasterFirst, JoinRight
<1>2. left # c0 /\ \E D : Merged(h, FixNextPrev(JoinLeft(h1, c0), c), C, D, B, m, r, c, right, rf, lf)
  BY <1>1, MergeTiles
<1>6. h2 = JoinLeft(h1, c0)
  BY <1>2 DEF JoinLeft
<1>4. lf => left = c
  OBVIOUS
<1>5. rf \in BOOLEAN /\ lf \in BOOLEAN
  OBVIOUS
<1>7. g = FixNextPrev(JoinLeft(h1, c0), c)
  BY <1>6
<1> HIDE DEF right, h1, left, h2, c, g, rf, lf
<1> QED
  BY <1>2, <1>3, <1>4, <1>5, <1>7, FileMerged

-----------------------------------------------------------------------------
(***************************************************************************)
(* Splitting: the chunk c is cut in two, and the chunk after the second    *)
(* half is told.                                                           *)
(***************************************************************************)
CutAndFixed(h, g, C, B, c, n) ==
  /\ HeadsKept(h, g) /\ Tiled(g.mem, C \cup {c + n}, B, 0)
  /\ c + n \notin C /\ c + n \in Address /\ c + n # c
  /\ c + n \in c + 1 .. End(h.mem, c) - 1
  /\ \A a \in Address : a \notin C /\ a # c + n => g.mem[a] = h.mem[a]
  /\ \A d \in C : g.mem[d].used = h.mem[d].used
  /\ \A d \in C : d # c => g.mem[d].len = h.mem[d].len /\ g.mem[d].last = h.mem[d].last
  /\ g.mem[c].len = n /\ ~g.mem[c].last
  /\ g.mem[c + n].len = h.mem[c].len - n /\ ~g.mem[c + n].used /\ g.mem[c + n].last = h.mem[c].last
  /\ End(g.mem, c + n) = End(h.mem, c) /\ End(g.mem, c) = c + n

LEMMA CutFix ==
  ASSUME NEW h, Shaped(h), NEW B, NEW C, Tiled(h.mem, C, B, 0), NEW c \in C, NEW n \in Nat,
         n >= 1, n < h.mem[c].len
  PROVE  CutAndFixed(h, FixNextPrev(CutChunk(h, c, n), c + n), C, B, c, n)
<1> DEFINE e == c + n
           h1 == CutChunk(h, c, n)
           g == FixNextPrev(h1, e)
           D == C \cup {e}
<1>1. /\ IsChunk(h.mem, c) /\ c \in Nat /\ c \in Address /\ C \subseteq Address
      /\ h.mem[c].len \in Nat /\ h.mem[c].len >= 1 /\ End(h.mem, c) \in Nat /\ c < End(h.mem, c)
      /\ End(h.mem, c) = c + h.mem[c].len
  BY ChunkIn
<1>2. e \in c + 1 .. End(h.mem, c) - 1 /\ e # c /\ e \in Nat
  BY <1>1
<1>3. e \in Address /\ e \notin C
  <2>1. /\ \A a \in c .. End(h.mem, c) - 1 : a \in Address
        /\ \A a \in c + 1 .. End(h.mem, c) - 1 : a \notin C
    BY ChunkFacts
  <2>2. e \in c .. End(h.mem, c) - 1
    BY <1>1, <1>2
  <2> QED
    BY <1>2, <2>1, <2>2
<1>4. HeadsKept(h, h1) /\ IsCut(h.mem, h1.mem, Address \ {e}, c, n)
  BY <1>1, <1>3, CutIs
<1>5. IsCut(h.mem, h1.mem, C, c, n)
  BY <1>1, <1>3, <1>4 DEF IsCut
<1>6. Tiled(h1.mem, D, B, e)
  BY <1>5, CutTiles
<1>7. Shaped(h1) /\ e \in D
  BY <1>4 DEF HeadsKept
<1>8. /\ h1.mem[c] = Chunk(h.mem[c].prev, FALSE, h.mem[c].used, FALSE, n)
      /\ h1.mem[e] = Chunk(n, h.mem[c].last, FALSE, FALSE, h.mem[c].len - n)
      /\ \A a \in Address : a # e /\ a # c => h1.mem[a] = h.mem[a]
  BY <1>4 DEF IsCut
<1> HIDE DEF h1, g, e
<1>9. Fixed(h1, g, D, B, e)
  BY <1>6, <1>7, FixNext DEF g
<1>10. /\ h1.mem[c].len = n /\ ~h1.mem[c].last /\ h1.mem[c].used = h.mem[c].used
       /\ h1.mem[e].len = h.mem[c].len - n /\ ~h1.mem[e].used /\ h1.mem[e].last = h.mem[c].last
  BY <1>8 DEF Chunk
<1>11. \A a \in Address : a \notin C /\ a # e => g.mem[a] = h.mem[a]
  <2> TAKE a \in Address
  <2> HAVE a \notin C /\ a # e
  <2>1. h1.mem[a] = h.mem[a]
    BY <1>8
  <2>2. ~h1.mem[e].last => End(h1.mem, e) \in D
    BY <1>6, <1>7 DEF Tiled, Rightward
  <2> QED
    BY <1>9, <2>1, <2>2 DEF Fixed
<1>12. \A d \in C : d # c => /\ g.mem[d].len = h.mem[d].len /\ g.mem[d].last = h.mem[d].last
                             /\ g.mem[d].used = h.mem[d].used
  <2> TAKE d \in C
  <2> HAVE d # c
  <2>1. h1.mem[d] = h.mem[d]
    BY <1>1, <1>3, <1>8
  <2> QED
    BY <1>9, <2>1 DEF Fixed
<1>13. /\ g.mem[c].len = n /\ ~g.mem[c].last /\ g.mem[c].used = h.mem[c].used
       /\ g.mem[e].len = h.mem[c].len - n /\ ~g.mem[e].used /\ g.mem[e].last = h.mem[c].last
  BY <1>7, <1>9, <1>10 DEF Fixed
<1>14. End(g.mem, e) = End(h.mem, c) /\ End(g.mem, c) = e
  BY <1>1, <1>13 DEF End, e
<1>15. HeadsKept(h, g)
  BY <1>4, <1>9 DEF HeadsKept, Fixed
<1>16. Tiled(g.mem, D, B, 0)
  BY <1>9 DEF Fixed
<1>17. \A d \in C : g.mem[d].used = h.mem[d].used
  BY <1>12, <1>13
<1> QED
  BY <1>2, <1>3, <1>11, <1>12, <1>13, <1>14, <1>15, <1>16, <1>17 DEF CutAndFixed, g, h1, e

-----------------------------------------------------------------------------
(* A chunk that is served as a whole leaves the list it is in.             *)
TakeFree(h, c) ==
  IF c = h.master_head THEN PopMaster(h)
  ELSE IF HasRoom(h, c) THEN RemoveFromRecycler(h, c)
  ELSE h

LEMMA TakeIs ==
  ASSUME NEW h, NEW B, NEW C, NEW m, NEW r, Good(h, B, C, m, r, 0), NEW c \in C, ~h.mem[c].used,
         c \in In(m) => c = h.master_head
  PROVE  /\ Sound(TakeFree(h, c), B, C, c) /\ Step(h, C, TakeFree(h, c), C, B, 0)
         /\ TakeFree(h, c).mem[c] = h.mem[c]
<1> DEFINE F == Filed(m, r)
           g == TakeFree(h, c)
<1>1. Shaped(h) /\ Tiled(h.mem, C, B, 0) /\ Lists(h, m, r) /\ F = FreeSet(h, C, 0)
      /\ Spaced(h, C, 0) /\ MasterFull(h, m)
  BY DEF Good
<1>2. \A y \in F : FreeCell(h.mem, C, y + 1)
  BY FiledFacts
<1>3. Spaced(h, C, c)
  <2>1. \A d \in C : ~h.mem[d].last => End(h.mem, d) # 0
    <3> TAKE d \in C
    <3>1. End(h.mem, d) \in Nat /\ d < End(h.mem, d) /\ d \in Nat
      BY <1>1, ChunkIn
    <3> QED
      BY <3>1
  <2>2. \A d \in C : d # 0
    <3> TAKE d \in C
    <3>1. d \in Nat /\ d >= 2
      BY <1>1, ChunkFacts
    <3> QED
      BY <3>1
  <2> QED
    BY <1>1, <2>1, <2>2 DEF Spaced
<1>4. c \in F <=> HasRoom(h, c)
  <2>1. h.mem[c].len \in Nat /\ c \in Nat /\ c >= 2
    BY <1>1, ChunkIn, ChunkFacts
  <2>2. HasRoom(h, c) <=> h.mem[c].len >= 2
    BY <2>1 DEF HasRoom
  <2>3. c # 0
    BY <2>1
  <2> QED
    BY <1>1, <2>2, <2>3 DEF FreeSet
<1>5. FreeSet(h, C, c) = F \ {c}
  <2>1. \A d \in C : d # 0
    <3> TAKE d \in C
    <3>1. d \in Nat /\ d >= 2
      BY <1>1, ChunkFacts
    <3> QED
      BY <3>1
  <2> QED
    BY <1>1, <2>1 DEF FreeSet
<1>6. In(m) \cup In(r) = F /\ In(m) \cap In(r) = {}
  BY <1>1 DEF Filed, Lists
<1>7. SUFFICES \E m2, r2 : /\ Touches(h, g, F) /\ Lists(g, m2, r2) /\ Filed(m2, r2) = F \ {c}
                           /\ \A y \in In(m2) : y # g.master_head => h.mem[y].len = BlockSize - 1
  <2> HIDE DEF g, F
  <2>1. PICK m2, r2 : /\ Touches(h, g, F) /\ Lists(g, m2, r2) /\ Filed(m2, r2) = F \ {c}
                      /\ \A y \in In(m2) : y # g.master_head => h.mem[y].len = BlockSize - 1
    BY <1>7
  <2>2. Good(g, B, C, m2, r2, c) /\ Step(h, C, g, C, B, 0) /\ \A d \in C : g.mem[d] = h.mem[d]
    <3>1. AllFree(h, C, F) /\ WholeBut(h, m2, g.master_head)
      BY <1>2, <2>1 DEF AllFree, WholeBut
    <3>2. Filed(m2, r2) = FreeSet(h, C, c) /\ Lists(g, m2, r2) /\ Touches(h, g, F)
      BY <1>5, <2>1
    <3>3. Shaped(h) /\ Tiled(h.mem, C, B, 0)
      BY <1>1
    <3> QED
      BY <1>3, <3>1, <3>2, <3>3, Refile
  <2>3. g.mem[c] = h.mem[c]
    BY <2>2
  <2> QED
    BY <2>2, <2>3 DEF Sound, g
<1> HIDE DEF F
<1>8. CASE c = h.master_head
  <2>1. Len(m) >= 1 /\ c \in In(m)
    <3>1. Distinct(m) /\ h.master_head = At(m, 1)
      BY <1>1, ListsFacts
    <3>2. c # 0
      <4>1. c \in Nat /\ c >= 2
        BY <1>1, ChunkFacts
      <4> QED
        BY <4>1
    <3>3. Len(m) >= 1 /\ At(m, 1) \in In(m)
      BY <1>8, <3>1, <3>2, FirstIs
    <3> QED
      BY <1>8, <3>1, <3>3
  <2>2. g = PopMaster(h)
    BY <1>8 DEF TakeFree
  <2> HIDE DEF g
  <2>3. /\ Touches(h, g, F) /\ Lists(g, Drop(m, 1), r) /\ In(Drop(m, 1)) = In(m) \ {c}
    BY <1>1, <1>8, <2>1, <2>2, PopIs DEF F
  <2>4. Filed(Drop(m, 1), r) = F \ {c}
    BY <1>6, <2>1, <2>3 DEF Filed
  <2>5. \A y \in In(Drop(m, 1)) : h.mem[y].len = BlockSize - 1
    BY <1>1, <1>8, <2>3 DEF MasterFull
  <2> QED
    BY <2>3, <2>4, <2>5
<1>9. CASE c # h.master_head /\ HasRoom(h, c)
  <2>1. g = RemoveFromRecycler(h, c)
    BY <1>9 DEF TakeFree
  <2>2. c \in In(r)
    BY <1>4, <1>6, <1>9
  <2>3. /\ Touches(h, RemoveFromRecycler(h, c), F)
        /\ \E r2 : Lists(RemoveFromRecycler(h, c), m, r2) /\ In(r2) = In(r) \ {c}
    BY <1>1, <2>2, RemoveIs DEF F
  <2> HIDE DEF g
  <2>4. PICK r2 : Lists(g, m, r2) /\ In(r2) = In(r) \ {c}
    BY <2>1, <2>3
  <2>5. Filed(m, r2) = F \ {c}
    BY <1>6, <2>2, <2>4 DEF Filed
  <2>6. g.master_head = h.master_head
    BY <1>1, <2>4 DEF Lists
  <2> QED
    BY <1>1, <2>1, <2>3, <2>4, <2>5, <2>6 DEF MasterFull
<1>10. CASE c # h.master_head /\ ~HasRoom(h, c)
  <2>1. g = h
    BY <1>10 DEF TakeFree
  <2> HIDE DEF g
  <2>2. Filed(m, r) = F \ {c}
    BY <1>4, <1>10 DEF F
  <2> QED
    BY <1>1, <2>1, <2>2, TouchNone DEF MasterFull
<1> QED
  BY <1>8, <1>9, <1>10

(* The lists after a cut whose second half took over the free header.      *)
LEMMA CutFiled ==
  ASSUME NEW h, NEW B, NEW C, NEW m, NEW r, Good(h, B, C, m, r, 0), NEW c \in C, ~h.mem[c].used,
         c \in Filed(m, r), c \in In(m) => c = h.master_head,
         NEW n \in Nat, n >= 1, n + 2 <= h.mem[c].len,
         NEW g, g = FixNextPrev(CutChunk(MoveFreeHeader(h, c, c + n), c, n), c + n)
  PROVE  /\ Sound(g, B, C \cup {c + n}, c) /\ Step(h, C, g, C \cup {c + n}, B, 0)
         /\ g.mem[c].len = n /\ ~g.mem[c].used
<1> DEFINE F == Filed(m, r)
           e == c + n
           k == MoveFreeHeader(h, c, e)
           D == C \cup {e}
<1>1. Shaped(h) /\ Tiled(h.mem, C, B, 0) /\ Lists(h, m, r) /\ F = FreeSet(h, C, 0)
      /\ Spaced(h, C, 0) /\ MasterFull(h, m)
  BY DEF Good
<1>2. /\ c \in Nat /\ c \in Address /\ C \subseteq Address /\ h.mem[c].len \in Nat
      /\ End(h.mem, c) = c + h.mem[c].len
  BY <1>1, ChunkIn
<1>3. /\ e \in c + 1 .. End(h.mem, c) - 1 /\ e + 1 \in c + 1 .. End(h.mem, c) - 1 /\ e # c
      /\ e \in Nat /\ e # 0 /\ n < h.mem[c].len
  BY <1>2
<1>4. e \in Address /\ e + 1 \in Address /\ e \notin C /\ FreeCell(h.mem, C, e + 1) /\ e \notin F
      /\ FreeCell(h.mem, C, e)
  <2>1. FreeCell(h.mem, C, e) /\ FreeCell(h.mem, C, e + 1)
    BY <1>3 DEF FreeCell
  <2>2. e \in Address /\ e + 1 \in Address /\ e \notin C
    BY <1>1, <2>1, FreeCellFacts
  <2>3. F \subseteq C
    BY <1>1 DEF FreeSet
  <2> QED
    BY <2>1, <2>2, <2>3
<1>5. /\ \A y \in F : y \in C /\ ~h.mem[y].used /\ h.mem[y].len >= 2 /\ y # 0 /\ y + 1 \notin C
      /\ \A y \in F : FreeCell(h.mem, C, y + 1)
  BY FiledFacts
<1>6. In(m) \cup In(r) = F /\ In(m) \cap In(r) = {}
  BY <1>1 DEF Filed, Lists
<1> HIDE DEF k, e, F
<1>7. PICK m2, r2 : /\ Touches(h, k, F \cup {e}) /\ Lists(k, m2, r2)
                    /\ Filed(m2, r2) = (F \ {c}) \cup {e}
                    /\ \A y \in In(m2) : y # k.master_head => y \in F /\ h.mem[y].len = BlockSize - 1
  <2>1. CASE c \in In(m)
    <3>1. c = h.master_head /\ Len(m) >= 1
      <4>1. Distinct(m)
        BY <1>1, ListsFacts
      <4>2. Len(m) # 0
        BY <2>1, <4>1, EmptyIs
      <4> QED
        BY <2>1, <4>1, <4>2, FirstIs
    <3>2. /\ Touches(h, k, F \cup {e}) /\ k.master_head = e
          /\ \E m2 : Lists(k, m2, r) /\ In(m2) = (In(m) \ {c}) \cup {e}
      <4>1. e \notin Filed(m, r)
        BY <1>4 DEF F
      <4>2. k = MoveFreeHeader(h, h.master_head, e)
        BY <3>1 DEF k
      <4>3. Moved(h, k, m, r, e)
        BY <1>1, <1>4, <3>1, <4>1, <4>2, MoveMaster
      <4> QED
        BY <3>1, <4>3 DEF F, Moved
    <3>3. PICK m2 : Lists(k, m2, r) /\ In(m2) = (In(m) \ {c}) \cup {e}
      BY <3>2
    <3>4. Filed(m2, r) = (F \ {c}) \cup {e}
      BY <1>6, <2>1, <3>3 DEF Filed
    <3>5. \A y \in In(m2) : y # k.master_head => y \in F /\ h.mem[y].len = BlockSize - 1
      BY <1>1, <1>6, <3>1, <3>2, <3>3 DEF MasterFull
    <3> QED
      BY <3>2, <3>3, <3>4, <3>5
  <2>2. CASE c \in In(r)
    <3>1. /\ Touches(h, k, F \cup {e}) /\ k.master_head = h.master_head
          /\ \E r2 : Lists(k, m, r2) /\ In(r2) = (In(r) \ {c}) \cup {e}
      <4>1. e \notin Filed(m, r)
        BY <1>4 DEF F
      <4> QED
        BY <1>1, <1>4, <2>2, <4>1, MoveRecycler DEF F, k
    <3>2. PICK r2 : Lists(k, m, r2) /\ In(r2) = (In(r) \ {c}) \cup {e}
      BY <3>1
    <3>3. Filed(m, r2) = (F \ {c}) \cup {e}
      BY <1>6, <2>2, <3>2 DEF Filed
    <3>4. \A y \in In(m) : y # k.master_head => y \in F /\ h.mem[y].len = BlockSize - 1
      BY <1>1, <1>6, <3>1 DEF MasterFull
    <3> QED
      BY <3>1, <3>2, <3>3, <3>4
  <2> QED
    BY <1>6, <2>1, <2>2 DEF F
<1>8. /\ \A d \in C : k.mem[d] = h.mem[d]
      /\ Tiled(k.mem, C, B, 0) /\ Step(h, C, k, C, B, 0)
  <2>1. \A y \in F \cup {e} : FreeCell(h.mem, C, y + 1)
    BY <1>4, <1>5
  <2> QED
    BY <1>1, <1>7, <2>1, TouchStep
<1>9. Shaped(k)
  BY <1>7 DEF Touches
<1>10. CutAndFixed(k, g, C, B, c, n)
  BY <1>3, <1>8, <1>9, CutFix DEF e, k
<1>11. /\ HeadsKept(k, g) /\ Tiled(g.mem, D, B, 0)
       /\ \A a \in Address : a \notin C /\ a # e => g.mem[a] = k.mem[a]
       /\ \A d \in C : g.mem[d].used = k.mem[d].used
       /\ \A d \in C : d # c => g.mem[d].len = k.mem[d].len /\ g.mem[d].last = k.mem[d].last
       /\ g.mem[c].len = n /\ ~g.mem[c].last
       /\ g.mem[e].len = k.mem[c].len - n /\ ~g.mem[e].used /\ g.mem[e].last = k.mem[c].last
       /\ End(g.mem, e) = End(k.mem, c) /\ End(g.mem, c) = e
  BY <1>10 DEF CutAndFixed, e
<1>12. /\ \A d \in C : g.mem[d].used = h.mem[d].used
       /\ \A d \in C : d # c => g.mem[d].len = h.mem[d].len /\ g.mem[d].last = h.mem[d].last
                                /\ End(g.mem, d) = End(h.mem, d)
       /\ g.mem[e].len = h.mem[c].len - n /\ g.mem[e].last = h.mem[c].last
       /\ End(g.mem, e) = End(h.mem, c)
  BY <1>8, <1>11 DEF End
<1>13. Lists(g, m2, r2)
  <2>1. \A y \in Filed(m2, r2) : y + 1 \in Address /\ y + 1 \notin C /\ y + 1 # e
    <3> TAKE y \in Filed(m2, r2)
    <3>1. y + 1 \in Address
      BY <1>9, <1>7, ListsFacts DEF Filed
    <3>2. CASE y = e
      BY <1>1, <1>3, <1>4, <3>2, FreeCellFacts
    <3>3. CASE y # e
      <4>1. y \in F /\ y # c
        BY <1>7, <3>3
      <4>2. y \in C /\ y + 1 \notin C /\ h.mem[y].len >= 2
        BY <1>5, <4>1
      <4>3. y \in Nat /\ End(h.mem, y) = y + h.mem[y].len /\ h.mem[y].len \in Nat
        BY <1>1, <4>2, ChunkIn
      <4>4. End(h.mem, y) <= c \/ End(h.mem, c) <= y
        <5>1. y < c \/ c < y
          BY <1>2, <4>1, <4>3
        <5> QED
          BY <1>1, <4>2, <5>1 DEF Tiled, Apart
      <4>5. y + 1 # e
        BY <1>2, <1>3, <4>2, <4>3, <4>4
      <4> QED
        BY <3>1, <4>2, <4>5
    <3> QED
      BY <3>2, <3>3
  <2>2. \A y \in Filed(m2, r2) : g.mem[y + 1] = k.mem[y + 1]
    BY <1>11, <2>1
  <2>3. Dll(g, m2, 1)
    <3>1. \A y \in In(m2) : g.mem[y + 1] = k.mem[y + 1]
      BY <2>2 DEF Filed
    <3>2. Dll(k, m2, 1)
      BY <1>7 DEF Lists
    <3> QED
      BY <3>1, <3>2, DllSame
  <2>4. Ring(g, r2)
    <3>1. \A y \in In(r2) : g.mem[y + 1] = k.mem[y + 1]
      BY <2>2 DEF Filed
    <3>2. Ring(k, r2)
      BY <1>7 DEF Lists
    <3> QED
      BY <3>1, <3>2, RingSame
  <2> QED
    BY <1>7, <1>11, <2>3, <2>4 DEF Lists, HeadsKept
<1>14. FreeSet(g, D, c) = (F \ {c}) \cup {e}
  <2>1. g.mem[e].len >= 2
    BY <1>2, <1>12
  <2>2. \A d \in C : d # 0
    <3> TAKE d \in C
    <3>1. d \in Nat /\ d >= 2
      BY <1>1, ChunkFacts
    <3> QED
      BY <3>1
  <2>3. ASSUME NEW d \in FreeSet(g, D, c) PROVE d \in (F \ {c}) \cup {e}
    <3>1. d \in D /\ d # c /\ ~g.mem[d].used /\ g.mem[d].len >= 2
      BY DEF FreeSet
    <3>2. CASE d = e
      BY <3>2
    <3>3. CASE d # e
      <4>1. d \in C
        BY <3>1, <3>3
      <4> QED
        BY <1>1, <1>12, <2>2, <3>1, <4>1 DEF FreeSet
    <3> QED
      BY <3>2, <3>3
  <2>4. ASSUME NEW d \in (F \ {c}) \cup {e} PROVE d \in FreeSet(g, D, c)
    <3>1. CASE d = e
      BY <1>3, <1>11, <2>1, <3>1 DEF FreeSet
    <3>2. CASE d # e
      <4>1. d \in C /\ d # c /\ ~h.mem[d].used /\ h.mem[d].len >= 2
        BY <1>5, <3>2
      <4> QED
        BY <1>12, <4>1 DEF FreeSet
    <3> QED
      BY <3>1, <3>2
  <2> QED
    BY <2>3, <2>4
<1>15. Spaced(g, D, c)
  <2> SUFFICES ASSUME NEW d \in D, ~g.mem[d].last, ~g.mem[d].used, d # c, End(g.mem, d) # c
               PROVE  g.mem[End(g.mem, d)].used
    BY DEF Spaced
  <2>1. \A f \in C : ~h.mem[f].last => End(h.mem, f) \in C /\ f # 0 /\ End(h.mem, f) # 0
    <3> TAKE f \in C
    <3>1. /\ f \in Nat /\ f < End(h.mem, f) /\ End(h.mem, f) \in Nat
          /\ ~h.mem[f].last => End(h.mem, f) \in C
      BY <1>1, ChunkIn, Neighbours
    <3>2. f >= 2
      BY <1>1, ChunkFacts
    <3> QED
      BY <3>1, <3>2
  <2>2. \A f \in C : ~h.mem[f].last /\ ~h.mem[f].used => h.mem[End(h.mem, f)].used
    BY <1>1, <2>1 DEF Spaced
  <2>3. CASE d = e
    <3>1. ~h.mem[c].last /\ End(g.mem, d) = End(h.mem, c)
      BY <1>12, <2>3
    <3> QED
      BY <1>12, <2>1, <2>2, <3>1
  <2>4. CASE d # e
    <3>1. d \in C /\ ~h.mem[d].last /\ ~h.mem[d].used /\ End(g.mem, d) = End(h.mem, d)
      BY <1>12, <2>4
    <3> QED
      BY <1>12, <2>1, <2>2, <3>1
  <2> QED
    BY <2>3, <2>4
<1>16. MasterFull(g, m2)
  <2> SUFFICES ASSUME NEW y \in In(m2), y # g.master_head PROVE g.mem[y].len = BlockSize - 1
    BY DEF MasterFull
  <2>1. y \in F /\ h.mem[y].len = BlockSize - 1
    BY <1>7, <1>11 DEF HeadsKept
  <2>2. y # c
    <3>1. y \in Filed(m2, r2) /\ y # e
      BY <1>4, <2>1 DEF Filed
    <3> QED
      BY <1>7, <3>1
  <2> QED
    BY <1>5, <1>12, <2>1, <2>2
<1>17. Good(g, B, D, m2, r2, c)
  BY <1>7, <1>11, <1>13, <1>14, <1>15, <1>16 DEF Good, HeadsKept
<1>18. Step(k, C, g, D, B, 0)
  <2>1. FreeCell(k.mem, C, e)
    <3>1. e \in c + 1 .. End(k.mem, c) - 1 /\ ~k.mem[c].used
      BY <1>3, <1>8 DEF End
    <3> QED
      BY <3>1 DEF FreeCell
  <2>2. \A a \in Address : a \notin C /\ ~FreeCell(k.mem, C, a) => g.mem[a] = k.mem[a]
    BY <1>11, <2>1
  <2>3. \A d \in C : k.mem[d].used => d \in D /\ g.mem[d].used /\ g.mem[d].len = k.mem[d].len
    BY <1>8, <1>11
  <2>4. \A d \in D : g.mem[d].used => d \in C /\ k.mem[d].used
    BY <1>11
  <2>5. Shaped(g) /\ g.os = k.os /\ g.block_list = k.block_list
    BY <1>11 DEF HeadsKept
  <2> QED
    BY <1>8, <1>9, <2>2, <2>3, <2>4, <2>5, HeaderStep
<1>19. Step(h, C, g, D, B, 0)
  BY <1>8, <1>18, StepTrans
<1> QED
  BY <1>11, <1>12, <1>17, <1>19 DEF Sound, e

LEMMA SplitFreeIs ==
  ASSUME NEW h, NEW B, NEW C, NEW m, NEW r, Good(h, B, C, m, r, 0), NEW c \in C, ~h.mem[c].used,
         c \in In(m) => c = h.master_head, NEW size \in Nat
  PROVE  LET g == SplitFreeChunk(h, c, size)
             n == Units(size) + 1
         IN  /\ \E D : c \in D /\ Sound(g, B, D, c) /\ Step(h, C, g, D, B, 0)
             /\ ~g.mem[c].used
             /\ g.mem[c].len = IF h.mem[c].len < n + 2 THEN h.mem[c].len ELSE n
<1> DEFINE n == Units(size) + 1
           g == SplitFreeChunk(h, c, size)
<1>1. n \in Nat /\ n >= 1 /\ h.mem[c].len \in Nat /\ c \in Nat /\ c >= 2
  <2>1. Units(size) \in Nat
    BY UnitsFacts
  <2>2. Tiled(h.mem, C, B, 0)
    BY DEF Good
  <2> QED
    BY <2>1, <2>2, ChunkIn, ChunkFacts
<1>2. CASE h.mem[c].len < n + 2
  <2>1. h.mem[c].len - 1 < n + 1
    BY <1>1, <1>2
  <2>2. g = TakeFree(h, c)
    BY <2>1 DEF SplitFreeChunk, TakeFree
  <2> HIDE DEF g
  <2>3. Sound(g, B, C, c) /\ Step(h, C, g, C, B, 0) /\ g.mem[c] = h.mem[c]
    BY <2>2, TakeIs
  <2> HIDE DEF n
  <2> QED
    BY <1>2, <2>3 DEF n, g
<1>3. CASE n + 2 <= h.mem[c].len
  <2>1. ~(h.mem[c].len - 1 < n + 1) /\ ~(h.mem[c].len < n + 2) /\ h.mem[c].len >= 2 /\ c # 0
    BY <1>1, <1>3
  <2>2. g = FixNextPrev(CutChunk(MoveFreeHeader(h, c, c + n), c, n), c + n)
    BY <2>1 DEF SplitFreeChunk
  <2>3. c \in Filed(m, r)
    BY <2>1 DEF Good, FreeSet
  <2> HIDE DEF g, n
  <2>4. /\ Sound(g, B, C \cup {c + n}, c) /\ Step(h, C, g, C \cup {c + n}, B, 0)
        /\ g.mem[c].len = n /\ ~g.mem[c].used
    BY <1>1, <1>3, <2>2, <2>3, CutFiled
  <2> QED
    BY <2>1, <2>4 DEF g, n
<1> HIDE DEF n, g
<1>4. h.mem[c].len < n + 2 \/ n + 2 <= h.mem[c].len
  BY <1>1
<1> QED
  BY <1>2, <1>3, <1>4 DEF n, g

-----------------------------------------------------------------------------
(***************************************************************************)
(* Marking a chunk used or unused, cycling the recycler, filing a chunk.   *)
(***************************************************************************)
NonZero(C) == 0 \notin C

LEMMA ChunksNonZero ==
  ASSUME NEW g, NEW C, NEW B, NEW x, Tiled(g, C, B, x)
  PROVE  NonZero(C) /\ \A c \in C : End(g, c) # 0
<1>1. ASSUME NEW c \in C PROVE c # 0 /\ End(g, c) # 0
  <2>1. c \in Nat /\ c < End(g, c) /\ End(g, c) \in Nat
    BY ChunkIn
  <2>2. c >= 2
    BY ChunkFacts
  <2> QED
    BY <2>1, <2>2
<1> QED
  BY <1>1 DEF NonZero

Marked(h, c, u) == [h EXCEPT !.mem[c].used = u]

LEMMA MarkedIs ==
  ASSUME NEW h, Shaped(h), NEW c \in Address, IsChunk(h.mem, c), NEW u \in BOOLEAN
  PROVE  /\ HeadsKept(h, Marked(h, c, u))
         /\ Plain(Marked(h, c, u).mem[c], h.mem[c].prev, h.mem[c].last, u, h.mem[c].len)
         /\ \A a \in Address : a # c => Marked(h, c, u).mem[a] = h.mem[a]
<1> DEFINE v == WithUsed(h.mem[c], u)
<1>1. Plain(v, h.mem[c].prev, h.mem[c].last, u, h.mem[c].len)
  BY ChunkPlain, Rewritten
<1>2. Marked(h, c, u) = [h EXCEPT !.mem[c] = v]
  BY DEF Marked, WithUsed, Shaped
<1> HIDE DEF v
<1>3. Wrote(h, Marked(h, c, u), c, v)
  BY <1>2, CellSet
<1> QED
  BY <1>1, <1>3 DEF Wrote, HeadsKept

LEMMA MarkedTiles ==
  ASSUME NEW g, NEW C, NEW B, Tiled(g, C, B, 0), NEW c \in C, NEW k, NEW u \in BOOLEAN,
         Plain(k[c], g[c].prev, g[c].last, u, g[c].len), \A d \in C : d # c => k[d] = g[d]
  PROVE  /\ Tiled(k, C, B, 0) /\ k[c].used = u
         /\ \A d \in C : /\ k[d].len = g[d].len /\ k[d].last = g[d].last /\ End(k, d) = End(g, d)
                         /\ (d # c => k[d].used = g[d].used)
<1>1. k[c].prev = g[c].prev /\ k[c].last = g[c].last /\ k[c].used = u /\ k[c].len = g[c].len
  BY DEF Plain, Chunk
<1>2. \A d \in C : /\ k[d].len = g[d].len /\ k[d].last = g[d].last /\ k[d].prev = g[d].prev
                   /\ End(k, d) = End(g, d) /\ (d # c => k[d].used = g[d].used)
  BY <1>1 DEF End
<1>3. \A d \in C : IsChunk(k, d)
  <2> TAKE d \in C
  <2>1. IsChunk(g, d)
    BY ChunkIn
  <2>2. CASE d = c
    <3>1. k[d] = Chunk(g[d].prev, g[d].last, u, FALSE, g[d].len)
      BY <2>2 DEF Plain
    <3> QED
      BY <1>1, <2>1, <2>2, <3>1 DEF IsChunk
  <2>3. CASE d # c
    <3>1. k[d] = g[d]
      BY <2>3
    <3> QED
      BY <2>1, <3>1 DEF IsChunk
  <2> QED
    BY <2>2, <2>3
<1>4. Inside(k, C, B)
  BY <1>2, <1>3 DEF Tiled, Inside
<1>5. Rightward(k, C, 0)
  <2>1. \A d \in C : ~g[d].last => End(g, d) \in C
    BY Neighbours
  <2> QED
    BY <1>2, <2>1 DEF Tiled, Rightward
<1>6. Leftward(k, C, 0)
  <2>1. 0 \notin C
    BY ChunksNonZero DEF NonZero
  <2> QED
    BY <1>2, <2>1 DEF Tiled, Leftward
<1>7. Apart(k, C)
  BY <1>2 DEF Tiled, Apart
<1> QED
  BY <1>1, <1>2, <1>4, <1>5, <1>6, <1>7 DEF Tiled

(* wmem_block_alloc marks the chunk it took.                               *)
LEMMA UseIs ==
  ASSUME NEW h, NEW B, NEW C, NEW c \in C, Sound(h, B, C, c), ~h.mem[c].used
  PROVE  LET g == Marked(h, c, TRUE)
         IN  /\ Sound(g, B, C, 0) /\ Step(h, C, g, C, B, c) /\ g.mem[c].used
             /\ g.mem[c].len = h.mem[c].len
<1> DEFINE g == Marked(h, c, TRUE)
<1>1. PICK m, r : Good(h, B, C, m, r, c)
  BY DEF Sound
<1>2. Shaped(h) /\ Tiled(h.mem, C, B, 0) /\ Spaced(h, C, c) /\ Filed(m, r) = FreeSet(h, C, c)
      /\ MasterFull(h, m)
  BY <1>1 DEF Good
<1>3. c \in Address /\ IsChunk(h.mem, c) /\ C \subseteq Address
  BY <1>2, ChunkIn
<1>4. /\ HeadsKept(h, g) /\ Plain(g.mem[c], h.mem[c].prev, h.mem[c].last, TRUE, h.mem[c].len)
      /\ \A a \in Address : a # c => g.mem[a] = h.mem[a]
  BY <1>2, <1>3, MarkedIs
<1> HIDE DEF g
<1>5. /\ Tiled(g.mem, C, B, 0) /\ g.mem[c].used
      /\ \A d \in C : /\ g.mem[d].len = h.mem[d].len /\ g.mem[d].last = h.mem[d].last
                      /\ End(g.mem, d) = End(h.mem, d) /\ (d # c => g.mem[d].used = h.mem[d].used)
  <2>1. \A d \in C : d # c => g.mem[d] = h.mem[d]
    BY <1>3, <1>4
  <2>2. PICK t \in BOOLEAN : t = TRUE
    OBVIOUS
  <2>3. Plain(g.mem[c], h.mem[c].prev, h.mem[c].last, t, h.mem[c].len)
    BY <1>4, <2>2
  <2>5. Tiled(h.mem, C, B, 0) /\ c \in C /\ t \in BOOLEAN
    BY <1>2
  <2> HIDE <2>2
  <2>4. /\ Tiled(g.mem, C, B, 0) /\ g.mem[c].used = t
        /\ \A d \in C : /\ g.mem[d].len = h.mem[d].len /\ g.mem[d].last = h.mem[d].last
                        /\ End(g.mem, d) = End(h.mem, d) /\ (d # c => g.mem[d].used = h.mem[d].used)
    BY <2>1, <2>3, <2>5, MarkedTiles
  <2> QED
    BY <2>2, <2>4
<1>6. Lists(g, m, r)
  BY <1>1, <1>4, ListsHeaders
<1>7. NonZero(C)
  BY <1>2, ChunksNonZero
<1>8. FreeSet(g, C, 0) = FreeSet(h, C, c)
  BY <1>5, <1>7 DEF FreeSet, NonZero
<1>9. Spaced(g, C, 0)
  <2>1. \A d \in C : ~h.mem[d].last => End(h.mem, d) \in C
    BY <1>2, Neighbours
  <2> QED
    BY <1>2, <1>5, <2>1 DEF Spaced
<1>10. MasterFull(g, m)
  <2>1. \A y \in In(m) : y \in C
    BY <1>2 DEF Filed, FreeSet
  <2> QED
    BY <1>2, <1>4, <1>5, <2>1 DEF MasterFull, HeadsKept
<1>11. Sound(g, B, C, 0)
  BY <1>2, <1>4, <1>5, <1>6, <1>8, <1>9, <1>10 DEF Sound, Good, HeadsKept
<1>12. Local(h, g, B)
  <2>1. Home(c) \in B /\ c # Home(c)
    <3>1. Home(c) \in B /\ Home(c) \in Nat /\ Home(c) < c
      BY <1>2, ChunkFacts
    <3> QED
      BY <3>1
  <2> QED
    BY <1>4, <2>1 DEF Local, HeadsKept
<1>13. ASSUME NEW d \in C, h.mem[d].used PROVE Same(h, g, d)
  <2>1. d # c
    BY <1>13
  <2>2. \A a \in d + 1 .. End(h.mem, d) - 1 : a \in Address /\ a # c
    <3>1. /\ \A a \in d .. End(h.mem, d) - 1 : a \in Address
          /\ \A a \in d + 1 .. End(h.mem, d) - 1 : a \notin C
      BY <1>2, ChunkFacts
    <3>2. d \in Nat /\ End(h.mem, d) \in Nat
      BY <1>2, ChunkIn
    <3>3. \A a \in d + 1 .. End(h.mem, d) - 1 : a \in d .. End(h.mem, d) - 1
      BY <3>2
    <3> QED
      BY <3>1, <3>3
  <2> QED
    BY <1>4, <1>5, <1>13, <2>1, <2>2 DEF Same
<1> QED
  BY <1>5, <1>11, <1>12, <1>13 DEF Step, Kept, g

(* wmem_block_free marks the chunk it is given.                            *)
LEMMA UnuseIs ==
  ASSUME NEW h, NEW B, NEW C, NEW c \in C, Sound(h, B, C, 0), h.mem[c].used
  PROVE  LET g == Marked(h, c, FALSE)
         IN  Sound(g, B, C, c) /\ Step(h, C, g, C, B, c) /\ ~g.mem[c].used
<1> DEFINE g == Marked(h, c, FALSE)
<1>1. PICK m, r : Good(h, B, C, m, r, 0)
  BY DEF Sound
<1>2. Shaped(h) /\ Tiled(h.mem, C, B, 0) /\ Spaced(h, C, 0) /\ Filed(m, r) = FreeSet(h, C, 0)
      /\ MasterFull(h, m)
  BY <1>1 DEF Good
<1>3. c \in Address /\ IsChunk(h.mem, c) /\ C \subseteq Address
  BY <1>2, ChunkIn
<1>4. /\ HeadsKept(h, g) /\ Plain(g.mem[c], h.mem[c].prev, h.mem[c].last, FALSE, h.mem[c].len)
      /\ \A a \in Address : a # c => g.mem[a] = h.mem[a]
  <2>1. PICK f \in BOOLEAN : f = FALSE
    OBVIOUS
  <2>2. /\ HeadsKept(h, Marked(h, c, f)) /\ Plain(Marked(h, c, f).mem[c], h.mem[c].prev, h.mem[c].last, f, h.mem[c].len)
        /\ \A a \in Address : a # c => Marked(h, c, f).mem[a] = h.mem[a]
    BY <1>2, <1>3, MarkedIs
  <2> QED
    BY <2>1, <2>2
<1> HIDE DEF g
<1>5. /\ Tiled(g.mem, C, B, 0) /\ ~g.mem[c].used
      /\ \A d \in C : /\ g.mem[d].len = h.mem[d].len /\ g.mem[d].last = h.mem[d].last
                      /\ End(g.mem, d) = End(h.mem, d) /\ (d # c => g.mem[d].used = h.mem[d].used)
  <2>1. \A d \in C : d # c => g.mem[d] = h.mem[d]
    BY <1>3, <1>4
  <2>2. PICK f \in BOOLEAN : f = FALSE
    OBVIOUS
  <2>3. Plain(g.mem[c], h.mem[c].prev, h.mem[c].last, f, h.mem[c].len)
    BY <1>4, <2>2
  <2>4. /\ Tiled(g.mem, C, B, 0) /\ g.mem[c].used = f
        /\ \A d \in C : /\ g.mem[d].len = h.mem[d].len /\ g.mem[d].last = h.mem[d].last
                        /\ End(g.mem, d) = End(h.mem, d) /\ (d # c => g.mem[d].used = h.mem[d].used)
    BY <1>2, <2>1, <2>3, MarkedTiles
  <2> QED
    BY <2>2, <2>4
<1>6. Lists(g, m, r)
  BY <1>1, <1>4, ListsHeaders
<1>7. NonZero(C) /\ \A d \in C : End(h.mem, d) # 0
  BY <1>2, ChunksNonZero
<1>8. FreeSet(g, C, c) = FreeSet(h, C, 0)
  BY <1>5, <1>7 DEF FreeSet, NonZero
<1>9. Spaced(g, C, c)
  <2>1. \A d \in C : ~h.mem[d].last => End(h.mem, d) \in C
    BY <1>2, Neighbours
  <2> QED
    BY <1>2, <1>5, <1>7, <2>1 DEF Spaced, NonZero
<1>10. MasterFull(g, m)
  <2>1. \A y \in In(m) : y \in C
    BY <1>2 DEF Filed, FreeSet
  <2> QED
    BY <1>2, <1>4, <1>5, <2>1 DEF MasterFull, HeadsKept
<1>11. Sound(g, B, C, c)
  BY <1>2, <1>4, <1>5, <1>6, <1>8, <1>9, <1>10 DEF Sound, Good, HeadsKept
<1>12. Local(h, g, B)
  <2>1. Home(c) \in B /\ c # Home(c)
    <3>1. Home(c) \in B /\ Home(c) \in Nat /\ Home(c) < c
      BY <1>2, ChunkFacts
    <3> QED
      BY <3>1
  <2> QED
    BY <1>4, <2>1 DEF Local, HeadsKept
<1>13. ASSUME NEW d \in C, h.mem[d].used, d # c PROVE Same(h, g, d)
  <2>2. \A a \in d + 1 .. End(h.mem, d) - 1 : a \in Address /\ a # c
    <3>1. /\ \A a \in d .. End(h.mem, d) - 1 : a \in Address
          /\ \A a \in d + 1 .. End(h.mem, d) - 1 : a \notin C
      BY <1>2, ChunkFacts
    <3>2. d \in Nat /\ End(h.mem, d) \in Nat
      BY <1>2, ChunkIn
    <3>3. \A a \in d + 1 .. End(h.mem, d) - 1 : a \in d .. End(h.mem, d) - 1
      BY <3>2
    <3> QED
      BY <3>1, <3>3
  <2> QED
    BY <1>4, <1>5, <1>13, <2>2 DEF Same
<1> QED
  BY <1>5, <1>11, <1>12, <1>13 DEF Step, Kept, g

KeepsAll(h, g, C) == \A c \in C : g.mem[c] = h.mem[c]

LEMMA TouchKeeps ==
  ASSUME NEW h, NEW C, NEW B, NEW x, Tiled(h.mem, C, B, x), NEW g, NEW X,
         Touches(h, g, X), AllFree(h, C, X)
  PROVE  KeepsAll(h, g, C)
<1> SUFFICES ASSUME NEW c \in C PROVE g.mem[c] = h.mem[c]
  BY DEF KeepsAll
<1>1. c \in Address /\ c - 1 + 1 = c
  BY ChunkIn
<1>2. c - 1 \notin X
  <2>1. SUFFICES ASSUME c - 1 \in X PROVE FALSE
    OBVIOUS
  <2>2. FreeCell(h.mem, C, c)
    BY <1>1, <2>1 DEF AllFree
  <2> QED
    BY <2>2, FreeCellFacts
<1> QED
  BY <1>1, <1>2 DEF Touches

CycledTo(h, g, B, C, m, r, x) == \E q : Good(g, B, C, m, q, x) /\ In(q) = In(r) /\ Cycled(h, r, q)

LEMMA CycleGood ==
  ASSUME NEW h, NEW B, NEW C, NEW x, NEW m, NEW r, Good(h, B, C, m, r, x)
  PROVE  LET g == CycleRecycler(h)
         IN  CycledTo(h, g, B, C, m, r, x) /\ Step(h, C, g, C, B, 0) /\ KeepsAll(h, g, C)
<1> DEFINE g == CycleRecycler(h)
<1>2. Shaped(h) /\ Tiled(h.mem, C, B, 0) /\ Spaced(h, C, x) /\ Filed(m, r) = FreeSet(h, C, x)
      /\ MasterFull(h, m) /\ Lists(h, m, r)
  BY DEF Good
<1>3. \A y \in In(r) : h.mem[y].len \in Nat
  BY FiledFacts
<1>4. /\ Touches(h, g, Filed(m, r))
      /\ \E q : Lists(g, m, q) /\ In(q) = In(r) /\ Cycled(h, r, q)
  BY <1>2, <1>3, CycleIs
<1>5. AllFree(h, C, Filed(m, r))
  BY FiledFacts DEF AllFree
<1> HIDE DEF g
<1>6. PICK q : Lists(g, m, q) /\ In(q) = In(r) /\ Cycled(h, r, q)
  BY <1>4
<1>7. Filed(m, q) = FreeSet(h, C, x)
  BY <1>2, <1>6 DEF Filed
<1>8. WholeBut(h, m, g.master_head)
  BY <1>2, <1>6 DEF WholeBut, MasterFull, Lists
<1>9. Good(g, B, C, m, q, x) /\ Step(h, C, g, C, B, 0) /\ \A c \in C : g.mem[c] = h.mem[c]
  <2>1. Shaped(h) /\ Tiled(h.mem, C, B, 0) /\ Spaced(h, C, x) /\ Touches(h, g, Filed(m, r)) /\ Lists(g, m, q)
    BY <1>2, <1>4, <1>6
  <2> QED
    BY <1>5, <1>7, <1>8, <2>1, Refile
<1> QED
  BY <1>6, <1>9 DEF CycledTo, KeepsAll, g

LEMMA CycleStep ==
  ASSUME NEW h, NEW B, NEW C, NEW x, Sound(h, B, C, x)
  PROVE  LET g == CycleRecycler(h)
         IN  Sound(g, B, C, x) /\ Step(h, C, g, C, B, 0) /\ \A c \in C : g.mem[c] = h.mem[c]
<1> DEFINE g == CycleRecycler(h)
<1>1. PICK m, r : Good(h, B, C, m, r, x)
  BY DEF Sound
<1>2. CycledTo(h, g, B, C, m, r, x) /\ Step(h, C, g, C, B, 0) /\ KeepsAll(h, g, C)
  BY <1>1, CycleGood
<1> HIDE DEF g
<1>3. Sound(g, B, C, x) /\ \A c \in C : g.mem[c] = h.mem[c]
  BY <1>2 DEF CycledTo, Sound, KeepsAll
<1> QED
  BY <1>2, <1>3 DEF g

(* The head of the master list is recycled: what is left on the master     *)
(* list is whole blocks.                                                   *)
LEMMA RecycleIs ==
  ASSUME NEW h, NEW B, NEW C, NEW m, NEW r, Good(h, B, C, m, r, 0), h.master_head # 0
  PROVE  LET g == AddToRecycler(PopMaster(h), h.master_head)
         IN  /\ Sound(g, B, C, 0) /\ Step(h, C, g, C, B, 0) /\ \A c \in C : g.mem[c] = h.mem[c]
             /\ g.master_head # 0 => g.master_head \in C /\ g.mem[g.master_head].len = BlockSize - 1
<1> DEFINE c == h.master_head
           k == PopMaster(h)
           g == AddToRecycler(k, c)
           F == Filed(m, r)
           m2 == Drop(m, 1)
<1>1. Shaped(h) /\ Tiled(h.mem, C, B, 0) /\ Spaced(h, C, 0) /\ F = FreeSet(h, C, 0)
      /\ MasterFull(h, m) /\ Lists(h, m, r)
  BY DEF Good
<1>2. Len(m) >= 1 /\ c \in In(m)
  <2>1. Distinct(m) /\ c = At(m, 1)
    BY <1>1, ListsFacts
  <2>2. Len(m) >= 1 /\ At(m, 1) \in In(m)
    BY <2>1, FirstIs
  <2> QED
    BY <2>1, <2>2
<1>3. /\ \A y \in F : y \in C /\ ~h.mem[y].used /\ h.mem[y].len >= 2 /\ y + 1 \in Address /\ y \in Address
      /\ \A y \in F : FreeCell(h.mem, C, y + 1)
  BY FiledFacts
<1> HIDE DEF F
<1>4. In(m) \cup In(r) = F /\ In(m) \cap In(r) = {}
  BY <1>1 DEF Filed, Lists, F
<1>5. Touches(h, k, F) /\ Lists(k, m2, r) /\ In(m2) = In(m) \ {c}
  BY <1>1, <1>2, PopIs DEF F
<1> HIDE DEF c, k, m2, g
<1>6. k.mem[c] = h.mem[c]
  <2>1. c \in C /\ AllFree(h, C, F)
    BY <1>2, <1>3, <1>4 DEF AllFree
  <2>2. Tiled(h.mem, C, B, 0) /\ Touches(h, k, F) /\ AllFree(h, C, F) /\ c \in C
    BY <1>1, <1>5, <2>1
  <2>3. KeepsAll(h, k, C)
    BY <2>2, TouchKeeps
  <2> QED
    BY <2>1, <2>3 DEF KeepsAll
<1>7. HasRoom(k, c) /\ c \in Address /\ c + 1 \in Address /\ c \notin Filed(m2, r) /\ c \in F
  <2>1. c \in F /\ h.mem[c].len >= 2 /\ c \in C
    BY <1>2, <1>3, <1>4
  <2>2. h.mem[c].len \in Nat
    BY <1>1, <2>1, ChunkIn
  <2>3. HasRoom(k, c)
    BY <1>6, <2>1, <2>2 DEF HasRoom
  <2> QED
    BY <1>2, <1>3, <1>4, <1>5, <2>1, <2>3 DEF Filed
<1>8. Shaped(k)
  BY <1>5 DEF Touches
<1>9. /\ Touches(k, g, Filed(m2, r) \cup {c})
      /\ \E r2 : Lists(g, m2, r2) /\ In(r2) = In(r) \cup {c}
  BY <1>5, <1>7, <1>8, AddIs DEF g
<1>10. PICK r2 : Lists(g, m2, r2) /\ In(r2) = In(r) \cup {c}
  BY <1>9
<1>11. Touches(h, g, F)
  <2>1. Filed(m2, r) \cup {c} \subseteq F
    BY <1>4, <1>5, <1>7 DEF Filed
  <2>2. Touches(k, g, F)
    BY <1>9, <2>1, TouchMore
  <2> QED
    BY <1>5, <2>2, TouchTrans
<1>12. Filed(m2, r2) = FreeSet(h, C, 0)
  BY <1>1, <1>2, <1>4, <1>5, <1>10 DEF Filed
<1>13. \A y \in In(m2) : h.mem[y].len = BlockSize - 1 /\ y \in C
  BY <1>1, <1>3, <1>4, <1>5 DEF MasterFull, c
<1>14. Good(g, B, C, m2, r2, 0) /\ Step(h, C, g, C, B, 0) /\ \A d \in C : g.mem[d] = h.mem[d]
  <2>1. AllFree(h, C, F) /\ WholeBut(h, m2, g.master_head)
    BY <1>3, <1>13 DEF AllFree, WholeBut
  <2>2. Shaped(h) /\ Tiled(h.mem, C, B, 0) /\ Spaced(h, C, 0)
    BY <1>1
  <2> QED
    BY <1>10, <1>11, <1>12, <2>1, <2>2, Refile
<1>15. g.master_head # 0 => g.master_head \in In(m2)
  <2>1. Distinct(m2) /\ g.master_head = At(m2, 1)
    BY <1>10 DEF Lists, Dll
  <2> QED
    BY <2>1, FirstIs
<1> QED
  BY <1>13, <1>14, <1>15 DEF Sound, g, k, c

-----------------------------------------------------------------------------
(***************************************************************************)
(* Shrinking a used chunk: it is cut, and the rest merged and filed.       *)
(***************************************************************************)
LEMMA ListsKept ==
  ASSUME NEW h, NEW m, NEW r, Lists(h, m, r), NEW g, HeadsKept(h, g),
         \A x \in Filed(m, r) : g.mem[x + 1] = h.mem[x + 1]
  PROVE  Lists(g, m, r)
<1>1. Dll(g, m, 1)
  BY DllSame DEF Lists, Filed
<1>2. Ring(g, r)
  BY RingSame DEF Lists, Filed
<1> QED
  BY <1>1, <1>2 DEF Lists, HeadsKept

(* What a chunk in use keeps of its data: the first n units, header        *)
(* included.                                                               *)
Remains(h, g, c, n) ==
  /\ g.mem[c].used /\ g.mem[c].len = n
  /\ \A a \in c + 1 .. c + n - 1 : g.mem[a] = h.mem[a]

LEMMA CutUsed ==
  ASSUME NEW h, NEW B, NEW C, NEW c \in C, Sound(h, B, C, 0), h.mem[c].used, NEW n \in Nat,
         n >= 1, n < h.mem[c].len, NEW k, CutAndFixed(h, k, C, B, c, n)
  PROVE  /\ Sound(k, B, C \cup {c + n}, c + n) /\ Step(h, C, k, C \cup {c + n}, B, c)
         /\ Remains(h, k, c, n)
<1> DEFINE e == c + n
           D == C \cup {e}
<1>1. PICK m, r : Good(h, B, C, m, r, 0)
  BY DEF Sound
<1>2. Shaped(h) /\ Tiled(h.mem, C, B, 0) /\ Spaced(h, C, 0) /\ Filed(m, r) = FreeSet(h, C, 0)
      /\ MasterFull(h, m) /\ Lists(h, m, r)
  BY <1>1 DEF Good
<1>3. /\ HeadsKept(h, k) /\ Tiled(k.mem, D, B, 0) /\ e \notin C /\ e \in Address
      /\ e \in c + 1 .. End(h.mem, c) - 1
      /\ \A a \in Address : a \notin C /\ a # e => k.mem[a] = h.mem[a]
      /\ \A d \in C : k.mem[d].used = h.mem[d].used
      /\ \A d \in C : d # c => k.mem[d].len = h.mem[d].len /\ k.mem[d].last = h.mem[d].last
      /\ k.mem[c].len = n /\ ~k.mem[c].last /\ ~k.mem[e].used
  BY DEF CutAndFixed
<1>4. c \in Nat /\ C \subseteq Address /\ End(h.mem, c) \in Nat /\ End(h.mem, c) = c + h.mem[c].len
      /\ c \in Address /\ h.mem[c].len \in Nat
  BY <1>2, ChunkIn
<1> HIDE DEF e
<1>5. \A y \in Filed(m, r) : /\ y \in C /\ ~h.mem[y].used /\ y # c
                             /\ y + 1 \in Address /\ y + 1 \notin C /\ y + 1 # e
  <2>1. \A y \in Filed(m, r) : /\ y \in C /\ ~h.mem[y].used
                               /\ y + 1 \in Address /\ y + 1 \notin C /\ FreeCell(h.mem, C, y + 1)
    BY <1>1, FiledFacts
  <2>2. ~FreeCell(h.mem, C, e)
    BY <1>2, <1>3, FreeCellFacts
  <2> QED
    BY <2>1, <2>2
<1>6. Lists(k, m, r)
  <2>1. \A y \in Filed(m, r) : k.mem[y + 1] = h.mem[y + 1]
    BY <1>3, <1>5
  <2> QED
    BY <1>2, <1>3, <2>1, ListsKept
<1>7. NonZero(C) /\ \A d \in C : End(h.mem, d) # 0
  BY <1>2, ChunksNonZero
<1>8. FreeSet(k, D, e) = FreeSet(h, C, 0)
  <2>1. \A d : d \in FreeSet(k, D, e) => d \in FreeSet(h, C, 0)
    BY <1>3, <1>7 DEF FreeSet, NonZero
  <2>2. \A d : d \in FreeSet(h, C, 0) => d \in FreeSet(k, D, e)
    BY <1>3, <1>7 DEF FreeSet, NonZero
  <2> QED
    BY <2>1, <2>2
<1>9. Spaced(k, D, e)
  <2>1. \A d \in C : ~h.mem[d].last => End(h.mem, d) \in C
    BY <1>2, Neighbours
  <2>2. \A d \in C : d # c => End(k.mem, d) = End(h.mem, d)
    BY <1>3 DEF End
  <2> QED
    BY <1>2, <1>3, <1>7, <2>1, <2>2 DEF Spaced, NonZero
<1>10. MasterFull(k, m)
  <2>1. \A y \in In(m) : y \in C /\ y # c
    BY <1>5 DEF Filed
  <2> QED
    BY <1>2, <1>3, <2>1 DEF MasterFull, HeadsKept
<1>11. Sound(k, B, D, e)
  BY <1>2, <1>3, <1>6, <1>8, <1>9, <1>10 DEF Sound, Good, HeadsKept
<1>12. Local(h, k, B)
  <2>1. \A d \in D : Home(d) \in B /\ d # Home(d)
    <3>1. \A d \in D : Home(d) \in B /\ Home(d) \in Nat /\ Home(d) < d
      BY <1>3, ChunkFacts
    <3> QED
      BY <3>1
  <2> QED
    BY <1>3, <2>1 DEF Local, HeadsKept
<1>13. \A d \in C : \A a \in d + 1 .. End(h.mem, d) - 1 : a \in Address /\ a \notin C
  <2>1. \A d \in C : d \in Nat /\ End(h.mem, d) \in Nat
    BY <1>2, ChunkIn
  <2>2. \A d \in C : /\ \A a \in d .. End(h.mem, d) - 1 : a \in Address
                     /\ \A a \in d + 1 .. End(h.mem, d) - 1 : a \notin C
    BY <1>2, ChunkFacts
  <2>3. \A d \in C : \A a \in d + 1 .. End(h.mem, d) - 1 : a \in d .. End(h.mem, d) - 1
    BY <2>1
  <2> QED
    BY <2>2, <2>3
<1>14. ASSUME NEW d \in C, h.mem[d].used, d # c PROVE Same(h, k, d)
  <2>1. \A a \in d + 1 .. End(h.mem, d) - 1 : a # e
    <3>1. d \in Nat /\ End(h.mem, d) \in Nat
      BY <1>2, ChunkIn
    <3>2. (d < c => End(h.mem, d) <= c) /\ (c < d => End(h.mem, c) <= d)
      BY <1>2 DEF Tiled, Apart
    <3> QED
      BY <1>3, <1>4, <1>14, <3>1, <3>2
  <2> QED
    BY <1>3, <1>13, <1>14, <2>1 DEF Same
<1>15. Step(h, C, k, D, B, c)
  BY <1>3, <1>12, <1>14 DEF Step, Kept
<1>16. Remains(h, k, c, n)
  <2>1. \A a \in c + 1 .. c + n - 1 : a \in c + 1 .. End(h.mem, c) - 1 /\ a # e
    BY <1>4 DEF e
  <2> QED
    BY <1>3, <1>13, <2>1 DEF Remains
<1> QED
  BY <1>11, <1>15, <1>16 DEF e

LEMMA SplitUsedIs ==
  ASSUME NEW h, NEW B, NEW C, NEW c \in C, Sound(h, B, C, 0), h.mem[c].used, NEW size \in Nat
  PROVE  LET g == SplitUsedChunk(h, c, size)
             n == Units(size) + 1
         IN  \E D : /\ Sound(g, B, D, 0) /\ Step(h, C, g, D, B, c) /\ c \in D
                    /\ Remains(h, g, c, IF n > h.mem[c].len - 1 THEN h.mem[c].len ELSE n)
<1> DEFINE g == SplitUsedChunk(h, c, size)
           n == Units(size) + 1
           k == FixNextPrev(CutChunk(h, c, n), c + n)
           kept == IF n > h.mem[c].len - 1 THEN h.mem[c].len ELSE n
<1>1. Shaped(h) /\ Tiled(h.mem, C, B, 0)
  BY DEF Sound, Good
<1>2. h.mem[c].len \in Nat /\ c \in Nat
  BY <1>1, ChunkIn
<1>3. n \in Nat /\ n >= 1
  <2>1. Units(size) \in Nat
    BY UnitsFacts
  <2> QED
    BY <2>1
<1>4. CASE n > h.mem[c].len - 1
  <2>1. g = h /\ kept = h.mem[c].len
    BY <1>4 DEF SplitUsedChunk
  <2>2. Step(h, C, h, C, B, c)
    BY <1>1, StepNone
  <2>3. Remains(h, h, c, h.mem[c].len)
    BY DEF Remains
  <2> QED
    BY <2>1, <2>2, <2>3
<1>5. CASE ~(n > h.mem[c].len - 1)
  <2>1. g = MergeFree(k, c + n) /\ kept = n
    BY <1>5 DEF SplitUsedChunk
  <2>2. n < h.mem[c].len
    BY <1>2, <1>3, <1>5
  <2> HIDE DEF n, k, g
  <2>3. CutAndFixed(h, k, C, B, c, n)
    BY <1>1, <1>3, <2>2, CutFix DEF k
  <2>4. Sound(k, B, C \cup {c + n}, c + n) /\ Step(h, C, k, C \cup {c + n}, B, c) /\ Remains(h, k, c, n)
    BY <1>3, <2>2, <2>3, CutUsed
  <2>5. ~k.mem[c + n].used /\ c + n \in C \cup {c + n}
    BY <2>3 DEF CutAndFixed
  <2>6. PICK D : Sound(MergeFree(k, c + n), B, D, 0)
                 /\ Step(k, C \cup {c + n}, MergeFree(k, c + n), D, B, 0)
    BY <2>4, <2>5, MergeIs
  <2>7. Step(k, C \cup {c + n}, g, D, B, 0) /\ Sound(g, B, D, 0)
    BY <2>1, <2>6
  <2>8. NonZero(C \cup {c + n}) /\ NonZero(D)
    <3>1. Tiled(k.mem, C \cup {c + n}, B, 0) /\ Tiled(g.mem, D, B, 0)
      BY <2>4, <2>7 DEF Sound, Good
    <3> QED
      BY <3>1, ChunksNonZero
  <2>9. Step(k, C \cup {c + n}, g, D, B, c)
    BY <2>7, <2>8, StepWeak DEF NonZero
  <2>10. Step(h, C, g, D, B, c)
    BY <2>4, <2>9, StepTrans
  <2>11. c \in D /\ Same(k, g, c)
    <3>1. k.mem[c].used /\ c # 0 /\ c \in C \cup {c + n}
      BY <2>4, <2>8 DEF Remains, NonZero
    <3> QED
      BY <2>7, <3>1 DEF Step, Kept
  <2>12. Remains(h, g, c, n)
    <3>1. k.mem[c].len = n /\ \A a \in c + 1 .. c + n - 1 : k.mem[a] = h.mem[a]
      BY <2>4 DEF Remains
    <3>2. End(k.mem, c) = c + n
      BY <3>1 DEF End
    <3>3. /\ g.mem[c].used /\ g.mem[c].len = n
          /\ \A a \in c + 1 .. c + n - 1 : g.mem[a] = k.mem[a]
      <4>1. /\ g.mem[c].used /\ g.mem[c].len = k.mem[c].len
            /\ \A a \in c + 1 .. End(k.mem, c) - 1 : g.mem[a] = k.mem[a]
        BY <2>11 DEF Same
      <4> QED
        BY <1>2, <1>3, <4>1, <3>1, <3>2
    <3> QED
      BY <3>1, <3>3 DEF Remains
  <2> QED
    BY <2>1, <2>7, <2>10, <2>11, <2>12 DEF g, n
<1> QED
  BY <1>4, <1>5

-----------------------------------------------------------------------------
(***************************************************************************)
(* Growing a used chunk into the free one that follows it.                 *)
(***************************************************************************)
Grown(h, g, c, n) ==
  /\ g.mem[c].used /\ g.mem[c].len = n
  /\ \A a \in c + 1 .. End(h.mem, c) - 1 : g.mem[a] = h.mem[a]

TakeNext(h, c, r) == FixNextPrev(Absorb(h, c, r), c)

LEMMA TakeNextIs ==
  ASSUME NEW h, NEW B, NEW C, NEW c \in C, NEW r \in C, Sound(h, B, C, r), h.mem[c].used, ~h.mem[r].used,
         r = End(h.mem, c)
  PROVE  LET g == TakeNext(h, c, r)
         IN  /\ Sound(g, B, C \ {r}, 0) /\ Step(h, C, g, C \ {r}, B, c) /\ c \in C \ {r}
             /\ Grown(h, g, c, h.mem[c].len + h.mem[r].len)
<1> DEFINE g1 == Absorb(h, c, r)
           g == TakeNext(h, c, r)
           D == C \ {r}
<1>1. PICK m, f : Good(h, B, C, m, f, r)
  BY DEF Sound
<1>2. Shaped(h) /\ Tiled(h.mem, C, B, 0) /\ Spaced(h, C, r) /\ Filed(m, f) = FreeSet(h, C, r)
      /\ MasterFull(h, m) /\ Lists(h, m, f)
  BY <1>1 DEF Good
<1>3. /\ c \in Address /\ IsChunk(h.mem, c) /\ C \subseteq Address /\ c \in Nat /\ c < r
      /\ h.mem[c].len \in Nat /\ h.mem[r].len \in Nat /\ h.mem[r].len >= 1 /\ r \in Nat
  BY <1>2, ChunkIn
<1>4. ~h.mem[c].last /\ c # r
  <2>1. h.mem[c].last => End(h.mem, c) \notin C
    BY <1>2, Neighbours
  <2> QED
    BY <1>3, <2>1
<1>5. HeadsKept(h, g1) /\ IsAbsorb(h.mem, g1.mem, Address, c, r)
  BY <1>2, <1>3, <1>4, AbsorbIs
<1>6. g = FixNextPrev(g1, c)
  BY DEF TakeNext
<1> HIDE DEF g1, g
<1>7. /\ g1.mem[c].used /\ g1.mem[c].len = h.mem[c].len + h.mem[r].len
      /\ \A d \in Address : d # c => g1.mem[d] = h.mem[d]
  BY <1>5 DEF IsAbsorb, Chunk
<1>8. Tiled(g1.mem, D, B, c)
  <2>1. IsAbsorb(h.mem, g1.mem, C, c, r)
    BY <1>3, <1>5 DEF IsAbsorb
  <2>2. 0 \in {0, r}
    OBVIOUS
  <2> QED
    BY <1>2, <1>4, <2>1, <2>2, AbsorbTiles
<1>9. c \in D /\ Shaped(g1)
  BY <1>4, <1>5 DEF HeadsKept
<1>10. Fixed(g1, g, D, B, c)
  BY <1>6, <1>8, <1>9, FixNext
<1>11. /\ HeadsKept(g1, g) /\ Tiled(g.mem, D, B, 0)
       /\ \A d \in D : g.mem[d].len = g1.mem[d].len /\ g.mem[d].used = g1.mem[d].used
       /\ \A x : Spaced(g1, D, x) => Spaced(g, D, x)
  BY <1>10 DEF Fixed
<1>12. HeadsKept(h, g)
  BY <1>5, <1>11 DEF HeadsKept
<1>13. \A a \in Address : a \notin C => g.mem[a] = h.mem[a]
  <2>1. ~g1.mem[c].last => End(g1.mem, c) \in D
    BY <1>8, <1>9 DEF Tiled, Rightward
  <2>2. \A a \in Address : a \notin C => g.mem[a] = g1.mem[a]
    BY <2>1, <1>10 DEF Fixed
  <2> QED
    BY <1>7, <2>2
<1>14. Lists(g, m, f)
  BY <1>1, <1>12, <1>13, ListsHeaders
<1>15. \A d \in D : d # c => g.mem[d].len = h.mem[d].len /\ g.mem[d].used = h.mem[d].used
  BY <1>3, <1>7, <1>11
<1>16. g.mem[c].used /\ g.mem[c].len = h.mem[c].len + h.mem[r].len
  BY <1>7, <1>9, <1>11
<1>17. FreeSet(g, D, 0) = FreeSet(h, C, r)
  <2>1. NonZero(C)
    BY <1>2, ChunksNonZero
  <2>2. \A d : d \in FreeSet(g, D, 0) => d \in FreeSet(h, C, r)
    BY <1>15, <1>16, <2>1 DEF FreeSet, NonZero
  <2>3. \A d : d \in FreeSet(h, C, r) => d \in FreeSet(g, D, 0)
    BY <1>15, <1>16, <2>1 DEF FreeSet, NonZero
  <2> QED
    BY <2>2, <2>3
<1>18. Spaced(g, D, 0)
  <2>1. Spaced(g1, D, 0)
    <3>1. SUFFICES ASSUME NEW d \in D, ~g1.mem[d].last, ~g1.mem[d].used
                   PROVE  g1.mem[End(g1.mem, d)].used
      BY DEF Spaced
    <3>2. d # c /\ d \in C /\ d # r /\ d \in Address
      BY <1>3, <1>7, <3>1
    <3>3. g1.mem[d] = h.mem[d] /\ End(g1.mem, d) = End(h.mem, d)
      BY <1>7, <3>2 DEF End
    <3>4. End(h.mem, d) \in C
      BY <1>2, <3>1, <3>2, <3>3, Neighbours
    <3>5. End(h.mem, d) # r
      <4>1. d \in Nat /\ d < End(h.mem, d) /\ End(h.mem, d) \in Nat
        BY <1>2, <3>2, ChunkIn
      <4>2. (d < c => End(h.mem, d) <= c) /\ (c < d => End(h.mem, c) <= d)
        BY <1>2, <3>2 DEF Tiled, Apart
      <4> QED
        BY <1>3, <3>2, <4>1, <4>2
    <3>6. h.mem[End(h.mem, d)].used
      BY <1>2, <3>1, <3>2, <3>3, <3>5 DEF Spaced
    <3>7. End(h.mem, d) \in Address
      BY <1>3, <3>4
    <3> QED
      BY <1>7, <3>3, <3>6, <3>7
  <2> QED
    BY <1>11, <2>1
<1>19. MasterFull(g, m)
  <2>1. \A y \in In(m) : y \in D /\ y # c
    BY <1>2 DEF Filed, FreeSet
  <2> QED
    BY <1>2, <1>12, <1>15, <2>1 DEF MasterFull, HeadsKept
<1>20. Sound(g, B, D, 0)
  BY <1>11, <1>12, <1>14, <1>17, <1>2, <1>18, <1>19 DEF Sound, Good, HeadsKept
<1>21. Local(h, g, B)
  <2>1. \A d \in C : Home(d) \in B /\ d # Home(d)
    <3>1. \A d \in C : Home(d) \in B /\ Home(d) \in Nat /\ Home(d) < d
      BY <1>2, ChunkFacts
    <3> QED
      BY <3>1
  <2> QED
    BY <1>12, <1>13, <2>1 DEF Local, HeadsKept
<1>22. \A d \in C : \A a \in d + 1 .. End(h.mem, d) - 1 : a \in Address /\ a \notin C
  <2>1. \A d \in C : d \in Nat /\ End(h.mem, d) \in Nat
    BY <1>2, ChunkIn
  <2>2. \A d \in C : /\ \A a \in d .. End(h.mem, d) - 1 : a \in Address
                     /\ \A a \in d + 1 .. End(h.mem, d) - 1 : a \notin C
    BY <1>2, ChunkFacts
  <2>3. \A d \in C : \A a \in d + 1 .. End(h.mem, d) - 1 : a \in d .. End(h.mem, d) - 1
    BY <2>1
  <2> QED
    BY <2>2, <2>3
<1>23. ASSUME NEW d \in C, h.mem[d].used, d # c PROVE d \in D /\ Same(h, g, d)
  BY <1>13, <1>15, <1>22, <1>23 DEF Same
<1>24. Step(h, C, g, D, B, c)
  BY <1>15, <1>21, <1>23 DEF Step, Kept
<1>25. Grown(h, g, c, h.mem[c].len + h.mem[r].len)
  BY <1>13, <1>16, <1>22 DEF Grown
<1> QED
  BY <1>9, <1>20, <1>24, <1>25 DEF g

(* What fits the two chunks together fits what the split leaves of them.   *)
LEMMA GrownRoom ==
  ASSUME NEW L \in Nat, L >= 1, NEW R \in Nat, R >= 1, NEW size \in Nat,
         NEW missing, missing = size - (L - 1) * AlignAmount, missing > 0,
         missing < R * AlignAmount,
         NEW split, split = IF missing < AlignAmount THEN 0 ELSE missing - AlignAmount,
         NEW n, n = Units(split) + 1
  PROVE  /\ split \in Nat /\ n \in Nat /\ n >= 1
         /\ Units(size) <= L + (IF R < n + 2 THEN R ELSE n) - 1
<1>1. AlignAmount \in Nat /\ AlignAmount >= 1
  BY Sizes
<1>2. (L - 1) * AlignAmount \in Nat /\ R * AlignAmount \in Nat
  BY <1>1
<1>3. missing \in Nat /\ split \in Nat
  BY <1>1, <1>2
<1>4. Units(split) \in Nat /\ split <= Units(split) * AlignAmount
  BY <1>3, UnitsFacts
<1>5. n \in Nat /\ n >= 1
  BY <1>4
<1>6. CASE R < n + 2
  <2>1. size <= (L + R - 1) * AlignAmount
    <3>1. (L + R - 1) * AlignAmount = (L - 1) * AlignAmount + R * AlignAmount
      BY <1>1
    <3> QED
      BY <1>2, <3>1
  <2>2. L + R - 1 \in Nat
    OBVIOUS
  <2>3. Units(size) <= L + R - 1
    BY <2>1, <2>2, UnitsFacts
  <2> QED
    BY <1>3, <1>5, <1>6, <2>3
<1>7. CASE ~(R < n + 2)
  <2>1. missing <= n * AlignAmount
    <3>1. n * AlignAmount = Units(split) * AlignAmount + AlignAmount
      BY <1>1, <1>4
    <3>2. Units(split) * AlignAmount \in Nat
      BY <1>1, <1>4
    <3> QED
      BY <1>1, <1>3, <1>4, <3>1, <3>2
  <2>2. size <= (L + n - 1) * AlignAmount
    <3>1. (L + n - 1) * AlignAmount = (L - 1) * AlignAmount + n * AlignAmount
      BY <1>1, <1>5
    <3>2. n * AlignAmount \in Nat
      BY <1>1, <1>5
    <3> QED
      BY <1>2, <2>1, <3>1, <3>2
  <2>3. L + n - 1 \in Nat
    BY <1>5
  <2>4. Units(size) <= L + n - 1
    BY <2>2, <2>3, UnitsFacts
  <2> QED
    BY <1>3, <1>5, <1>7, <2>4
<1> QED
  BY <1>6, <1>7

(* The chunk after a used one is in no list below the master's head.       *)
LEMMA NextIsHead ==
  ASSUME NEW h, NEW B, NEW C, NEW m, NEW r, Good(h, B, C, m, r, 0), NEW c \in C, ~h.mem[c].last,
         End(h.mem, c) \in In(m)
  PROVE  End(h.mem, c) = h.master_head
<1> DEFINE d == End(h.mem, c)
<1>1. Tiled(h.mem, C, B, 0) /\ MasterFull(h, m)
  BY DEF Good
<1>2. SUFFICES ASSUME d # h.master_head PROVE FALSE
  OBVIOUS
<1>3. h.mem[d].len = BlockSize - 1
  BY <1>1, <1>2 DEF MasterFull
<1>4. d \in C /\ h.mem[d].prev = h.mem[c].len
  BY <1>1, Neighbours
<1>5. h.mem[d].prev = 0
  BY <1>1, <1>3, <1>4, WholeAlone
<1>6. h.mem[c].len >= 1 /\ h.mem[c].len \in Nat
  BY <1>1, ChunkIn
<1> QED
  BY <1>4, <1>5, <1>6

Enlarged(h, g, c, size) ==
  /\ g.mem[c].used /\ Units(size) <= g.mem[c].len - 1
  /\ \A a \in c + 1 .. End(h.mem, c) - 1 : g.mem[a] = h.mem[a]

LEMMA GrowIs ==
  ASSUME NEW h, NEW B, NEW C, NEW c \in C, Sound(h, B, C, 0), h.mem[c].used, NEW size \in Nat,
         size > DataLen(h, c), CanGrow(h, c, size)
  PROVE  LET g == GrowInPlace(h, c, size)
         IN  \E D : /\ Sound(g, B, D, 0) /\ Step(h, C, g, D, B, c) /\ c \in D
                    /\ Enlarged(h, g, c, size)
<1> DEFINE r == ChunkNext(h, c)
           missing == size - DataLen(h, c)
           split == IF missing < AlignAmount THEN 0 ELSE missing - AlignAmount
           n == Units(split) + 1
           L == h.mem[c].len
           R == h.mem[r].len
           k == SplitFreeChunk(h, r, split)
           j == TakeNext(k, c, r)
           g == GrowInPlace(h, c, size)
<1>1. PICK m, f : Good(h, B, C, m, f, 0)
  BY DEF Sound
<1>2. Shaped(h) /\ Tiled(h.mem, C, B, 0)
  BY <1>1 DEF Good
<1>3. r # 0 /\ ~h.mem[r].used /\ missing < R * AlignAmount
  <2>1. r # 0 /\ ~h.mem[r].used /\ size < DataLen(h, c) + R * AlignAmount
    BY DEF CanGrow, IsFree, Null
  <2>2. DataLen(h, c) \in Int /\ R * AlignAmount \in Int
    <3>1. L \in Nat /\ AlignAmount \in Nat
      BY <1>2, ChunkIn, Sizes
    <3>2. r \in C
      <4>1. r = End(h.mem, c) /\ ~h.mem[c].last
        BY <2>1 DEF ChunkNext, End, Null
      <4> QED
        BY <1>2, <4>1, Neighbours
    <3>3. R \in Nat
      BY <1>2, <3>2, ChunkIn
    <3> HIDE DEF r
    <3> QED
      BY <3>1, <3>3 DEF DataLen
  <2> HIDE DEF r
  <2> QED
    BY <2>1, <2>2
<1>4. r = End(h.mem, c) /\ ~h.mem[c].last /\ r \in C
  <2>1. r = End(h.mem, c) /\ ~h.mem[c].last
    BY <1>3 DEF ChunkNext, End, Null
  <2> QED
    BY <1>2, <2>1, Neighbours
<1>5. L \in Nat /\ L >= 1 /\ R \in Nat /\ R >= 1 /\ c \in Nat /\ r \in Nat
  BY <1>2, <1>4, ChunkIn
<1>6. g = CycleRecycler(j)
  BY DEF GrowInPlace, TakeNext
<1>7. missing = size - (L - 1) * AlignAmount /\ missing > 0
  <2>1. DataLen(h, c) = (L - 1) * AlignAmount /\ DataLen(h, c) \in Int
    <3>1. AlignAmount \in Nat
      BY Sizes
    <3> QED
      BY <1>5, <3>1 DEF DataLen
  <2> QED
    BY <2>1
<1> HIDE DEF g, j, k, r, missing
<1>8. /\ split \in Nat /\ n \in Nat /\ n >= 1
      /\ Units(size) <= L + (IF R < n + 2 THEN R ELSE n) - 1
  <2> HIDE DEF L, R, split, n
  <2>1. split = IF missing < AlignAmount THEN 0 ELSE missing - AlignAmount
    BY DEF split
  <2>2. n = Units(split) + 1
    BY DEF n
  <2> QED
    BY <1>3, <1>5, <1>7, <2>1, <2>2, GrownRoom
<1>9. r \in In(m) => r = h.master_head
  BY <1>1, <1>4, NextIsHead
<1> HIDE DEF split
<1>10. /\ \E D : r \in D /\ Sound(k, B, D, r) /\ Step(h, C, k, D, B, 0)
       /\ ~k.mem[r].used
       /\ k.mem[r].len = IF R < n + 2 THEN R ELSE n
  BY <1>1, <1>3, <1>4, <1>8, <1>9, SplitFreeIs DEF k
<1>11. PICK D : r \in D /\ Sound(k, B, D, r) /\ Step(h, C, k, D, B, 0)
  BY <1>10
<1>12. NonZero(C) /\ NonZero(D)
  <2>1. Tiled(k.mem, D, B, 0)
    BY <1>11 DEF Sound, Good
  <2> QED
    BY <1>2, <2>1, ChunksNonZero
<1>13. c \in D /\ Same(h, k, c)
  <2>1. c # 0
    BY <1>12 DEF NonZero
  <2> QED
    BY <1>11, <2>1 DEF Step, Kept
<1>14. k.mem[c].used /\ k.mem[c].len = L /\ End(k.mem, c) = End(h.mem, c)
  BY <1>13 DEF Same, End
<1>15. /\ Sound(j, B, D \ {r}, 0) /\ Step(k, D, j, D \ {r}, B, c) /\ c \in D \ {r}
       /\ Grown(k, j, c, k.mem[c].len + k.mem[r].len)
  BY <1>4, <1>10, <1>11, <1>13, <1>14, TakeNextIs DEF j
<1>16. Sound(g, B, D \ {r}, 0) /\ Step(j, D \ {r}, g, D \ {r}, B, 0)
  BY <1>6, <1>15, CycleStep
<1>17. c # 0 /\ j.mem[c].used
  BY <1>12, <1>13, <1>15 DEF NonZero, Grown
<1>18. Same(j, g, c)
  BY <1>15, <1>16, <1>17 DEF Step, Kept
<1>19. Step(h, C, g, D \ {r}, B, c)
  <2>1. Step(h, C, k, D, B, c)
    BY <1>11, <1>12, StepWeak DEF NonZero
  <2>2. Step(h, C, j, D \ {r}, B, c)
    BY <1>15, <2>1, StepTrans
  <2>3. 0 \notin D \ {r}
    BY <1>12 DEF NonZero
  <2>4. Step(j, D \ {r}, g, D \ {r}, B, c)
    BY <1>16, <2>3, StepWeak
  <2> QED
    BY <2>2, <2>4, StepTrans
<1>20. g.mem[c].used /\ g.mem[c].len = L + (IF R < n + 2 THEN R ELSE n)
  BY <1>10, <1>14, <1>15, <1>18 DEF Grown, Same
<1>21. ASSUME NEW a \in c + 1 .. End(h.mem, c) - 1 PROVE g.mem[a] = h.mem[a]
  <2>1. k.mem[a] = h.mem[a]
    BY <1>13 DEF Same
  <2>2. j.mem[a] = k.mem[a]
    BY <1>14, <1>15 DEF Grown
  <2>3. a \in c + 1 .. End(j.mem, c) - 1
    <3>1. j.mem[c].len = L + k.mem[r].len
      BY <1>14, <1>15 DEF Grown
    <3>2. k.mem[r].len \in Nat
      BY <1>5, <1>8, <1>10
    <3> HIDE DEF L
    <3>3. End(h.mem, c) = c + L /\ End(j.mem, c) = c + L + k.mem[r].len
      BY <1>5, <3>1, <3>2 DEF End, L
    <3> QED
      BY <1>5, <3>2, <3>3
  <2>4. g.mem[a] = j.mem[a]
    BY <1>18, <2>3 DEF Same
  <2> QED
    BY <2>1, <2>2, <2>4
<1>22. Enlarged(h, g, c, size)
  <2>1. g.mem[c].used /\ Units(size) <= g.mem[c].len - 1
    <3> DEFINE got == IF R < n + 2 THEN R ELSE n
    <3>1. got \in Nat
      BY <1>5, <1>8
    <3>2. Units(size) <= L + got - 1
      BY <1>8
    <3>3. g.mem[c].used /\ g.mem[c].len = L + got
      BY <1>20
    <3> HIDE DEF L, got
    <3>4. g.mem[c].len - 1 = L + got - 1
      BY <1>5, <3>1, <3>3
    <3> QED
      BY <3>2, <3>3, <3>4
  <2> QED
    BY <1>21, <2>1 DEF Enlarged
<1> QED
  BY <1>15, <1>16, <1>19, <1>22 DEF g

=============================================================================
