--------------------------- MODULE WmemBlockProofs ---------------------------
(***************************************************************************)
(* Proofs about WmemBlock, for any number of slots and any of their sizes. *)
(*                                                                         *)
(* The inductive invariant IInv says that the heap is a World (the block   *)
(* list holds the blocks, some of them carved into chunks that tile them,  *)
(* the others jumbo; the free lists hold the free chunks that have room    *)
(* for a header; every chunk on the master list but its head is a full     *)
(* one) and that the allocations are its tenants: each sits in a used      *)
(* chunk of its own, large enough, that holds what its owner wrote, and no *)
(* used chunk is anybody else's. The properties the runs check are not     *)
(* inductive by themselves: they walk the lists with a bound, while a step *)
(* is only known to keep them when the lists are known to be sequences.    *)
(***************************************************************************)
EXTENDS WmemBlockHeap

-----------------------------------------------------------------------------
(***************************************************************************)
(* The whole of a state: the block list over the blocks, B of them carved  *)
(* into the chunks C, the others jumbo; and the chunks users hold.         *)
(***************************************************************************)
Big(v) == v = Chunk(0, TRUE, TRUE, TRUE, 0)
BigBlocks(h, B) == \A b \in Blocks(h) \ B : Big(h.mem[b + 1])
Listed(h, l) == Dll(h, l, 0) /\ h.block_list = At(l, 1) /\ In(l) = Blocks(h)

World(h, B, C) ==
  /\ B \subseteq Blocks(h) /\ (\E l : Listed(h, l)) /\ BigBlocks(h, B)
  /\ Sound(h, B, C, 0)

Users(h, B, C) == {c \in C : h.mem[c].used} \cup {b + 1 : b \in Blocks(h) \ B}

(* The units of data of the chunk at c, and where they are.                *)
Span(h, B, c) == IF Home(c) \in B THEN h.mem[c].len - 1 ELSE SlotSize - 2
Cells(h, B, c) == c + 1 .. c + Span(h, B, c)

Untouched(h, B, g, D, c) ==
  Span(g, D, c) = Span(h, B, c) /\ \A a \in Cells(h, B, c) : g.mem[a] = h.mem[a]

(* Whoever is not in X keeps what it holds, and nobody else comes.         *)
Serves(h, B, C, g, D, E, X) ==
  /\ \A c \in Users(h, B, C) : c \notin X => c \in Users(g, D, E) /\ Untouched(h, B, g, D, c)
  /\ \A c \in Users(g, D, E) : c \notin X => c \in Users(h, B, C)

LEMMA ServesTrans ==
  ASSUME NEW h1, NEW B1, NEW C1, NEW h2, NEW B2, NEW C2, NEW h3, NEW B3, NEW C3, NEW X,
         Serves(h1, B1, C1, h2, B2, C2, X), Serves(h2, B2, C2, h3, B3, C3, X)
  PROVE  Serves(h1, B1, C1, h3, B3, C3, X)
<1>1. ASSUME NEW c \in Users(h1, B1, C1), c \notin X
      PROVE  c \in Users(h3, B3, C3) /\ Untouched(h1, B1, h3, B3, c)
  <2>1. c \in Users(h2, B2, C2) /\ Untouched(h1, B1, h2, B2, c)
    BY <1>1 DEF Serves
  <2>2. c \in Users(h3, B3, C3) /\ Untouched(h2, B2, h3, B3, c)
    BY <1>1, <2>1 DEF Serves
  <2> QED
    BY <2>1, <2>2 DEF Untouched, Cells
<1>2. \A c \in Users(h3, B3, C3) : c \notin X => c \in Users(h1, B1, C1)
  BY DEF Serves
<1> QED
  BY <1>1, <1>2 DEF Serves

LEMMA ServesMore ==
  ASSUME NEW h, NEW B, NEW C, NEW g, NEW D, NEW E, NEW X, NEW Y, X \subseteq Y,
         Serves(h, B, C, g, D, E, X)
  PROVE  Serves(h, B, C, g, D, E, Y)
BY DEF Serves

LEMMA HomeFacts ==
  /\ \A b \in Block :
       /\ b \in Nat /\ b >= 1 /\ b \in Address /\ Home(b) = b /\ b + 1 \in Address /\ Home(b + 1) = b
       /\ b + 1 \notin Block
       /\ \A a \in b + 2 .. b + 1 + (SlotSize - 2) : /\ a \in Address /\ Home(a) = b /\ a \in Nat
                                                    /\ a # b + 1 /\ a # Home(a) /\ a \notin Block
  /\ \A h : Shaped(h) => Blocks(h) \subseteq Block
<1>1. SlotSize \in Nat /\ SlotSize >= 4
  BY Sizes
<1>2. ASSUME NEW b \in Block
      PROVE  /\ b \in Nat /\ b >= 1 /\ b \in Address /\ Home(b) = b /\ b + 1 \in Address
             /\ Home(b + 1) = b /\ b + 1 \notin Block
             /\ \A a \in b + 2 .. b + 1 + (SlotSize - 2) : /\ a \in Address /\ Home(a) = b /\ a \in Nat
                                                           /\ a # b + 1 /\ a # Home(a) /\ a \notin Block
  <2>1. /\ b \in Nat /\ b >= 1
        /\ \A a \in b .. b + SlotSize - 1 : a \in Address /\ Home(a) = b
    BY BlockFacts
  <2>2. /\ b \in b .. b + SlotSize - 1 /\ b + 1 \in b .. b + SlotSize - 1
        /\ \A a \in b + 2 .. b + 1 + (SlotSize - 2) : a \in b .. b + SlotSize - 1 /\ a \in Nat /\ a # b /\ a # b + 1
    BY <1>1, <2>1
  <2>3. \A d \in Block : Home(d) = d
    <3> TAKE d \in Block
    <3>1. d \in Nat /\ \A a \in d .. d + SlotSize - 1 : Home(a) = d
      BY BlockFacts
    <3>2. d \in d .. d + SlotSize - 1
      BY <1>1, <3>1
    <3> QED
      BY <3>1, <3>2
  <2>4. b + 1 # b
    BY <2>1
  <2> QED
    BY <2>1, <2>2, <2>3, <2>4
<1>3. \A h : Shaped(h) => Blocks(h) \subseteq Block
  BY DEF Shaped, Blocks, Block
<1> QED
  BY <1>2, <1>3

LEMMA WorldFacts ==
  ASSUME NEW h, NEW B, NEW C, World(h, B, C)
  PROVE  /\ Shaped(h) /\ Tiled(h.mem, C, B, 0) /\ Spaced(h, C, 0) /\ B \subseteq Block
         /\ B \subseteq Blocks(h) /\ Blocks(h) \subseteq Block /\ BigBlocks(h, B)
         /\ C \subseteq Address /\ NonZero(C)
<1>1. Shaped(h) /\ Tiled(h.mem, C, B, 0) /\ Spaced(h, C, 0)
  BY DEF World, Sound, Good
<1>2. Blocks(h) \subseteq Block
  BY <1>1, HomeFacts
<1>3. C \subseteq Address /\ B \subseteq Block
  BY <1>1 DEF Tiled, Inside
<1> QED
  BY <1>1, <1>2, <1>3, ChunksNonZero DEF World

(* A user's chunk: what is there and what is not.                          *)
LEMMA UserFacts ==
  ASSUME NEW h, NEW B, NEW C, World(h, B, C), NEW c \in Users(h, B, C)
  PROVE  /\ c \in Nat /\ c >= 2 /\ c \in Address /\ Span(h, B, c) \in Nat /\ c # 0
         /\ Home(c) \in Blocks(h) /\ c # Home(c)
         /\ \A a \in Cells(h, B, c) : /\ a \in Address /\ a \notin C /\ a \notin Block /\ Home(a) = Home(c)
                                      /\ ~FreeCell(h.mem, C, a)
                                      /\ \A b \in Blocks(h) \ B : a # b + 1
         /\ Home(c) \in B => c \in C /\ h.mem[c].used /\ h.mem[c].len - 1 = Span(h, B, c)
         /\ Home(c) \notin B => c = Home(c) + 1 /\ Big(h.mem[c]) /\ c \notin C
<1>1. Shaped(h) /\ Tiled(h.mem, C, B, 0) /\ B \subseteq Blocks(h) /\ Blocks(h) \subseteq Block /\ BigBlocks(h, B)
  BY WorldFacts
<1>2. SlotSize \in Nat /\ SlotSize >= 4
  BY Sizes
<1>3. CASE c \in C /\ h.mem[c].used
  <2>1. c \in Nat /\ c >= 2 /\ c \in Address /\ Home(c) \in B /\ Home(c) \in Nat /\ Home(c) < c
    BY <1>1, <1>3, ChunkFacts
  <2>2. h.mem[c].len \in Nat /\ h.mem[c].len >= 1 /\ End(h.mem, c) = c + h.mem[c].len
    BY <1>1, <1>3, ChunkIn
  <2>3. Span(h, B, c) = h.mem[c].len - 1 /\ Span(h, B, c) \in Nat
    BY <2>1, <2>2 DEF Span
  <2>4. /\ \A a \in c .. End(h.mem, c) - 1 : a \in Address /\ Home(a) = Home(c)
        /\ \A a \in c + 1 .. End(h.mem, c) - 1 : a \notin C
    BY <1>1, <1>3, ChunkFacts
  <2>5. \A a \in Cells(h, B, c) : a \in c .. End(h.mem, c) - 1 /\ a \in c + 1 .. End(h.mem, c) - 1 /\ a # Home(c)
    BY <2>1, <2>2, <2>3 DEF Cells
  <2>6. \A a \in Cells(h, B, c) : ~FreeCell(h.mem, C, a)
    BY <1>1, <1>3, <2>5, FreeCellFacts
  <2>7. \A a \in Cells(h, B, c) : a \notin Block
    BY <2>4, <2>5, HomeFacts
  <2>8. \A a \in Cells(h, B, c) : \A b \in Blocks(h) \ B : a # b + 1
    BY <1>1, <2>1, <2>4, <2>5, HomeFacts
  <2>9. Home(c) \in Blocks(h) /\ c # Home(c) /\ c # 0
    BY <1>1, <2>1
  <2> QED
    BY <1>3, <2>1, <2>3, <2>4, <2>5, <2>6, <2>7, <2>8, <2>9
<1>4. CASE \E b \in Blocks(h) \ B : c = b + 1
  <2>1. PICK b \in Blocks(h) \ B : c = b + 1
    BY <1>4
  <2>2. b \in Block
    BY <1>1
  <2>3. b \in Nat /\ b >= 1 /\ c \in Address /\ Home(c) = b
    BY <2>1, <2>2, HomeFacts
  <2>4. Span(h, B, c) = SlotSize - 2 /\ Span(h, B, c) \in Nat
    BY <1>2, <2>1, <2>3 DEF Span
  <2>5. c \in Nat /\ c >= 2 /\ c # b /\ c # 0
    BY <2>1, <2>3
  <2>6. \A a \in b + 2 .. b + 1 + (SlotSize - 2) : a \in Address /\ Home(a) = b /\ a # b + 1 /\ a \notin Block
    BY <2>2, HomeFacts
  <2>7. Cells(h, B, c) = b + 2 .. b + 1 + (SlotSize - 2)
    BY <2>1, <2>3, <2>4 DEF Cells
  <2>8. \A d \in C : Home(d) \in B
    BY <1>1 DEF Tiled, Inside
  <2>9. \A a \in Cells(h, B, c) : a \notin C /\ ~FreeCell(h.mem, C, a)
    <3> TAKE a \in Cells(h, B, c)
    <3>1. Home(a) = b /\ b \notin B
      BY <2>1, <2>6, <2>7
    <3>2. FreeCell(h.mem, C, a) => Home(a) \in B
      BY <1>1, FreeCellFacts
    <3> QED
      BY <2>8, <3>1, <3>2
  <2>10. \A a \in Cells(h, B, c) : \A d \in Blocks(h) \ B : a # d + 1
    <3>1. \A d \in Blocks(h) \ B : Home(d + 1) = d
      BY <1>1, HomeFacts
    <3> QED
      BY <2>6, <2>7, <3>1
  <2>11. Big(h.mem[c]) /\ c \notin C
    BY <1>1, <2>1, <2>3, <2>8 DEF BigBlocks
  <2> QED
    BY <2>1, <2>3, <2>4, <2>5, <2>6, <2>7, <2>9, <2>10, <2>11
<1> QED
  BY <1>3, <1>4 DEF Users

HeadsSame(h, g) == Shaped(g) /\ g.master_head = h.master_head /\ g.recycler_head = h.recycler_head

(* What the chunks of a state and its free lists are written in.           *)
FreeCells(h, C) == {c + 1 : c \in FreeSet(h, C, 0)}

LEMMA SoundSame ==
  ASSUME NEW h, NEW B, NEW C, Sound(h, B, C, 0), NEW g, HeadsSame(h, g),
         KeepsAll(h, g, C), KeepsAll(h, g, FreeCells(h, C))
  PROVE  Sound(g, B, C, 0)
<1>1. PICK m, r : Good(h, B, C, m, r, 0)
  BY DEF Sound
<1>2. Tiled(h.mem, C, B, 0) /\ Spaced(h, C, 0) /\ Filed(m, r) = FreeSet(h, C, 0)
      /\ MasterFull(h, m) /\ Lists(h, m, r)
  BY <1>1 DEF Good
<1>3. \A c \in C : g.mem[c] = h.mem[c]
  BY DEF KeepsAll
<1>4. Tiled(g.mem, C, B, 0)
  BY <1>2, <1>3, TiledSame
<1>5. \A y \in Filed(m, r) : g.mem[y + 1] = h.mem[y + 1] /\ y \in C
  BY <1>2 DEF KeepsAll, FreeCells, FreeSet
<1>6. Lists(g, m, r)
  <2>1. Dll(g, m, 1)
    <3>1. \A x \in In(m) : g.mem[x + 1] = h.mem[x + 1]
      BY <1>5 DEF Filed
    <3> QED
      BY <1>2, <3>1, DllSame DEF Lists
  <2>2. Ring(g, r)
    <3>1. \A x \in In(r) : g.mem[x + 1] = h.mem[x + 1]
      BY <1>5 DEF Filed
    <3> QED
      BY <1>2, <3>1, RingSame DEF Lists
  <2> QED
    BY <1>2, <2>1, <2>2 DEF Lists, HeadsSame
<1>7. FreeSet(g, C, 0) = FreeSet(h, C, 0)
  BY <1>3 DEF FreeSet
<1>8. Spaced(g, C, 0)
  <2>1. \A c \in C : ~h.mem[c].last => End(h.mem, c) \in C
    BY <1>2, Neighbours
  <2> QED
    BY <1>2, <1>3, <2>1 DEF Spaced, End
<1>9. MasterFull(g, m)
  BY <1>2, <1>3, <1>5 DEF MasterFull, Filed, HeadsSame
<1> QED
  BY <1>2, <1>4, <1>6, <1>7, <1>8, <1>9 DEF Sound, Good, HeadsSame

Framed(h, g, B) ==
  HeadsSame(h, g) /\ \A a \in Address : Home(a) \in B /\ a # Home(a) => g.mem[a] = h.mem[a]

LEMMA FramedSound ==
  ASSUME NEW h, NEW B, NEW C, Sound(h, B, C, 0), NEW g, Framed(h, g, B)
  PROVE  Sound(g, B, C, 0) /\ KeepsAll(h, g, C)
<1>1. PICK m, r : Good(h, B, C, m, r, 0)
  BY DEF Sound
<1>2. Tiled(h.mem, C, B, 0) /\ Filed(m, r) = FreeSet(h, C, 0)
  BY <1>1 DEF Good
<1>3. KeepsAll(h, g, C)
  <2>1. \A c \in C : c \in Address /\ Home(c) \in B /\ Home(c) \in Nat /\ Home(c) < c
    BY <1>2, ChunkFacts
  <2>2. \A c \in C : c # Home(c)
    BY <2>1
  <2> QED
    BY <2>1, <2>2 DEF Framed, KeepsAll
<1>4. KeepsAll(h, g, FreeCells(h, C))
  <2>1. \A y \in FreeSet(h, C, 0) : FreeCell(h.mem, C, y + 1)
    BY <1>1, <1>2, FiledFacts
  <2>2. \A y \in FreeSet(h, C, 0) : y + 1 \in Address /\ Home(y + 1) \in B /\ y + 1 # Home(y + 1)
    BY <1>2, <2>1, FreeCellFacts
  <2> QED
    BY <2>2 DEF Framed, KeepsAll, FreeCells
<1>5. HeadsSame(h, g)
  BY DEF Framed
<1> QED
  BY <1>3, <1>4, <1>5, SoundSame

LEMMA WorldStep ==
  ASSUME NEW h, NEW B, NEW C, World(h, B, C), NEW g, NEW E, NEW x, Sound(g, B, E, 0), Step(h, C, g, E, B, x)
  PROVE  World(g, B, E) /\ Serves(h, B, C, g, B, E, {x})
<1>1. Shaped(h) /\ Tiled(h.mem, C, B, 0) /\ B \subseteq Blocks(h) /\ Blocks(h) \subseteq Block /\ BigBlocks(h, B)
  BY WorldFacts
<1>2. /\ Shaped(g) /\ g.os = h.os /\ g.block_list = h.block_list
      /\ \A a \in Address : Home(a) \notin B \/ a = Home(a) => g.mem[a] = h.mem[a]
  BY DEF Step, Local
<1>3. Blocks(g) = Blocks(h)
  BY <1>2 DEF Blocks
<1>4. \E l : Listed(g, l)
  <2>1. PICK l : Listed(h, l)
    BY DEF World
  <2>2. \A y \in In(l) : g.mem[y + 0] = h.mem[y + 0]
    <3>1. \A y \in Block : y \in Address /\ y + 0 = y /\ Home(y) = y
      BY HomeFacts
    <3> QED
      BY <1>1, <1>2, <2>1, <3>1 DEF Listed
  <2>3. Dll(g, l, 0)
    BY <2>1, <2>2, DllSame DEF Listed
  <2> QED
    BY <1>2, <1>3, <2>1, <2>3 DEF Listed
<1>5. \A b \in Blocks(h) \ B : /\ g.mem[b + 1] = h.mem[b + 1]
                               /\ \A a \in b + 2 .. b + 1 + (SlotSize - 2) : g.mem[a] = h.mem[a]
  <2>1. \A b \in Blocks(h) \ B : /\ b + 1 \in Address /\ Home(b + 1) = b
                                 /\ \A a \in b + 2 .. b + 1 + (SlotSize - 2) : a \in Address /\ Home(a) = b
    BY <1>1, HomeFacts
  <2> QED
    BY <1>2, <2>1
<1>6. World(g, B, E)
  BY <1>1, <1>3, <1>4, <1>5 DEF World, BigBlocks
<1>7. ASSUME NEW c \in Users(h, B, C), c # x
      PROVE  c \in Users(g, B, E) /\ Untouched(h, B, g, B, c)
  <2>1. CASE Home(c) \in B
    <3>1. c \in C /\ h.mem[c].used /\ h.mem[c].len - 1 = Span(h, B, c) /\ Span(h, B, c) \in Nat /\ c \in Nat
      BY <2>1, UserFacts
    <3>2. c \in E /\ Same(h, g, c)
      BY <1>7, <3>1 DEF Step, Kept
    <3>3. c \in Users(g, B, E) /\ Span(g, B, c) = Span(h, B, c)
      BY <2>1, <3>2 DEF Users, Same, Span
    <3>4. h.mem[c].len \in Nat
      BY <1>1, <3>1, ChunkIn
    <3>5. \A a \in Cells(h, B, c) : a \in c + 1 .. End(h.mem, c) - 1
      BY <3>1, <3>4 DEF Cells, End
    <3> QED
      BY <3>2, <3>3, <3>5 DEF Untouched, Same
  <2>2. CASE Home(c) \notin B
    <3>1. c = Home(c) + 1 /\ Home(c) \in Blocks(h) /\ c \in Nat
      BY <2>2, UserFacts
    <3>2. Home(c) \in Nat
      BY <1>1, <3>1, HomeFacts
    <3>3. Span(g, B, c) = SlotSize - 2 /\ Span(h, B, c) = SlotSize - 2
      BY <2>2 DEF Span
    <3>4. Cells(h, B, c) = Home(c) + 2 .. Home(c) + 1 + (SlotSize - 2)
      <4> DEFINE d == Home(c)
      <4>1. c = d + 1 /\ d \in Nat
        BY <3>1, <3>2
      <4> HIDE DEF d
      <4>2. c + 1 = d + 2
        BY <4>1
      <4>3. Cells(h, B, c) = d + 2 .. d + 1 + (SlotSize - 2)
        BY <3>3, <4>1, <4>2 DEF Cells
      <4> QED
        BY <4>3 DEF d
    <3>5. \A a \in Cells(h, B, c) : g.mem[a] = h.mem[a]
      BY <1>5, <2>2, <3>1, <3>4
    <3>6. c \in Users(g, B, E)
      BY <1>3, <2>2, <3>1 DEF Users
    <3> QED
      BY <3>3, <3>5, <3>6 DEF Untouched
  <2> QED
    BY <2>1, <2>2
<1>8. ASSUME NEW c \in Users(g, B, E), c # x PROVE c \in Users(h, B, C)
  <2>1. c \in E /\ g.mem[c].used => c \in C /\ h.mem[c].used
    BY <1>8 DEF Step, Kept
  <2> QED
    BY <1>3, <2>1 DEF Users
<1> QED
  BY <1>6, <1>7, <1>8 DEF Serves

(* The cells the allocator reads.                                          *)
Headers(h, C) == Blocks(h) \cup {b + 1 : b \in Blocks(h)} \cup C \cup FreeCells(h, C)

LEMMA HeadersFacts ==
  ASSUME NEW h, NEW B, NEW C, World(h, B, C)
  PROVE  /\ \A a \in Headers(h, C) : a \in Address
         /\ \A y \in FreeSet(h, C, 0) : FreeCell(h.mem, C, y + 1)
         /\ \A b \in B : b + 1 \in C
<1>1. Tiled(h.mem, C, B, 0) /\ B \subseteq Blocks(h) /\ Blocks(h) \subseteq Block /\ C \subseteq Address
  BY WorldFacts
<1>2. PICK m, r : Good(h, B, C, m, r, 0)
  BY DEF World, Sound
<1>3. Filed(m, r) = FreeSet(h, C, 0)
  BY <1>2 DEF Good
<1>4. \A y \in FreeSet(h, C, 0) : FreeCell(h.mem, C, y + 1) /\ y + 1 \in Address
  BY <1>2, <1>3, FiledFacts
<1>5. \A b \in Block : b \in Address /\ b + 1 \in Address
  BY HomeFacts
<1>6. \A b \in B : b + 1 \in C
  BY <1>1 DEF Tiled, Inside
<1> QED
  BY <1>1, <1>4, <1>5, <1>6 DEF Headers, FreeCells

LEMMA WorldSame ==
  ASSUME NEW h, NEW B, NEW C, World(h, B, C), NEW g, HeadsKept(h, g), KeepsAll(h, g, Headers(h, C))
  PROVE  /\ World(g, B, C) /\ Users(g, B, C) = Users(h, B, C)
         /\ \A c \in Users(h, B, C) : Span(g, B, c) = Span(h, B, c)
<1>1. Blocks(g) = Blocks(h) /\ HeadsSame(h, g)
  BY DEF HeadsKept, Blocks, HeadsSame
<1>2. KeepsAll(h, g, C) /\ KeepsAll(h, g, FreeCells(h, C))
  BY DEF KeepsAll, Headers
<1>3. Sound(g, B, C, 0)
  <2>1. Sound(h, B, C, 0)
    BY DEF World
  <2> QED
    BY <1>1, <1>2, <2>1, SoundSame
<1>4. \E l : Listed(g, l)
  <2>1. PICK l : Listed(h, l)
    BY DEF World
  <2>2. \A y \in In(l) : g.mem[y + 0] = h.mem[y + 0]
    <3>1. \A y \in Block : y + 0 = y
      BY HomeFacts
    <3>2. Blocks(h) \subseteq Block
      BY WorldFacts
    <3> QED
      BY <2>1, <3>1, <3>2 DEF Listed, KeepsAll, Headers
  <2>3. Dll(g, l, 0)
    BY <2>1, <2>2, DllSame DEF Listed
  <2> QED
    BY <1>1, <2>1, <2>3 DEF Listed, HeadsKept
<1>5. BigBlocks(g, B)
  BY <1>1 DEF World, BigBlocks, KeepsAll, Headers
<1>6. World(g, B, C)
  BY <1>1, <1>3, <1>4, <1>5 DEF World
<1>7. Users(g, B, C) = Users(h, B, C)
  BY <1>1, <1>2 DEF Users, KeepsAll
<1>8. \A c \in Users(h, B, C) : Span(g, B, c) = Span(h, B, c)
  <2> TAKE c \in Users(h, B, C)
  <2>1. Home(c) \in B => c \in C
    BY UserFacts
  <2> QED
    BY <1>2, <2>1 DEF Span, KeepsAll
<1> QED
  BY <1>6, <1>7, <1>8

LEMMA CellsApart ==
  ASSUME NEW h, NEW B, NEW C, World(h, B, C), NEW c \in Users(h, B, C), NEW d \in Users(h, B, C), c # d,
         NEW a \in Cells(h, B, c)
  PROVE  a \notin Cells(h, B, d) /\ a # d
<1>1. Home(a) = Home(c) /\ \A x \in Cells(h, B, d) : Home(x) = Home(d)
  BY UserFacts
<1>2. Home(c) \in B => c \in C /\ c \in Nat /\ h.mem[c].len - 1 = Span(h, B, c) /\ Span(h, B, c) \in Nat
  BY UserFacts
<1>3. Home(d) \in B => d \in C /\ d \in Nat /\ h.mem[d].len - 1 = Span(h, B, d) /\ Span(h, B, d) \in Nat
  BY UserFacts
<1>4. Home(c) \notin B => c = Home(c) + 1
  BY UserFacts
<1>5. Home(d) \notin B => d = Home(d) + 1
  BY UserFacts
<1>6. CASE Home(c) # Home(d)
  <2>1. Home(a) # Home(d)
    BY <1>1, <1>6
  <2> QED
    BY <1>1, <2>1
<1>7. CASE Home(c) = Home(d)
  <2>1. Home(c) \in B /\ Home(d) \in B
    BY <1>4, <1>5, <1>7
  <2>2. Tiled(h.mem, C, B, 0)
    BY WorldFacts
  <2>3. (c < d => End(h.mem, c) <= d) /\ (d < c => End(h.mem, d) <= c)
    BY <1>2, <1>3, <2>1, <2>2 DEF Tiled, Apart
  <2>4. /\ h.mem[c].len \in Nat /\ h.mem[d].len \in Nat /\ End(h.mem, c) = c + h.mem[c].len
        /\ End(h.mem, d) = d + h.mem[d].len
    BY <1>2, <1>3, <2>1, <2>2, ChunkIn
  <2>5. c \in Nat /\ d \in Nat
    BY <1>2, <1>3, <2>1
  <2>6. End(h.mem, c) = c + 1 + Span(h, B, c) /\ End(h.mem, d) = d + 1 + Span(h, B, d)
    BY <1>2, <1>3, <2>1, <2>4
  <2> QED
    BY <1>2, <1>3, <2>1, <2>3, <2>5, <2>6 DEF Cells
<1> QED
  BY <1>6, <1>7

(* What is written into the data of one user's chunk.                      *)
WroteOnly(h, g, S) == HeadsKept(h, g) /\ \A a \in Address : a \notin S => g.mem[a] = h.mem[a]

LEMMA WriteIs ==
  ASSUME NEW h, NEW B, NEW C, World(h, B, C), NEW c \in Users(h, B, C), NEW g, WroteOnly(h, g, Cells(h, B, c))
  PROVE  /\ World(g, B, C) /\ Serves(h, B, C, g, B, C, {c}) /\ c \in Users(g, B, C)
         /\ Span(g, B, c) = Span(h, B, c)
<1>1. HeadsKept(h, g) /\ \A a \in Address : a \notin Cells(h, B, c) => g.mem[a] = h.mem[a]
  BY DEF WroteOnly
<1>2. KeepsAll(h, g, Headers(h, C))
  <2>1. \A a \in Headers(h, C) : a \in Address
    BY HeadersFacts
  <2>2. SUFFICES ASSUME NEW a \in Headers(h, C), a \in Cells(h, B, c) PROVE FALSE
    BY <1>1, <2>1 DEF KeepsAll
  <2>3. a \notin C /\ a \notin Block /\ ~FreeCell(h.mem, C, a) /\ \A b \in Blocks(h) \ B : a # b + 1
    BY <2>2, UserFacts
  <2>4. Blocks(h) \subseteq Block
    BY WorldFacts
  <2>5. a \notin FreeCells(h, C)
    <3>1. \A y \in FreeSet(h, C, 0) : FreeCell(h.mem, C, y + 1)
      BY HeadersFacts
    <3> QED
      BY <2>3, <3>1 DEF FreeCells
  <2>6. \A b \in B : b + 1 \in C
    BY HeadersFacts
  <2> QED
    BY <2>2, <2>3, <2>4, <2>5, <2>6 DEF Headers
<1>3. /\ World(g, B, C) /\ Users(g, B, C) = Users(h, B, C)
      /\ \A d \in Users(h, B, C) : Span(g, B, d) = Span(h, B, d)
  BY <1>1, <1>2, WorldSame
<1>4. ASSUME NEW d \in Users(h, B, C), d # c, NEW a \in Cells(h, B, d) PROVE g.mem[a] = h.mem[a]
  <2>1. a \in Address
    BY UserFacts
  <2>2. a \notin Cells(h, B, c)
    BY <1>4, CellsApart
  <2> QED
    BY <1>1, <2>1, <2>2
<1>5. Serves(h, B, C, g, B, C, {c})
  BY <1>3, <1>4 DEF Serves, Untouched
<1> QED
  BY <1>3, <1>5

-----------------------------------------------------------------------------
(***************************************************************************)
(* The block list.                                                         *)
(***************************************************************************)
Chained(h, g, S) ==
  HeadsSame(h, g) /\ g.os = h.os /\ \A a \in Address : a \notin S => g.mem[a] = h.mem[a]

Linked(h, l) == Dll(h, l, 0) /\ h.block_list = At(l, 1)

LEMMA LinkedFacts ==
  ASSUME NEW h, NEW l, Linked(h, l)
  PROVE  /\ Distinct(l) /\ Len(l) \in Nat /\ Dll(h, l, 0)
         /\ \A j \in 1 .. Len(l) : /\ l[j] \in In(l) /\ l[j] \in Address /\ l[j] # 0 /\ l[j] + 0 = l[j]
                                   /\ h.mem[l[j]] = Links(At(l, j - 1), At(l, j + 1))
         /\ \A j, k \in 1 .. Len(l) : l[j] = l[k] => j = k
         /\ \A x \in In(l) : x \in Address /\ \E j \in 1 .. Len(l) : l[j] = x
<1>1. Distinct(l) /\ Dll(h, l, 0)
  BY DEF Linked, Dll
<1>2. /\ Len(l) \in Nat /\ \A j \in 1 .. Len(l) : l[j] \in Address /\ l[j] \in In(l)
      /\ \A x \in In(l) : x \in Address /\ \E j \in 1 .. Len(l) : l[j] = x
      /\ \A j, k \in 1 .. Len(l) : l[j] = l[k] => j = k
  BY <1>1, Members
<1>3. \A j \in 1 .. Len(l) : l[j] # 0 /\ l[j] + 0 = l[j]
  BY <1>2, AddressPositive
<1>4. \A j \in 1 .. Len(l) : h.mem[l[j]] = Links(At(l, j - 1), At(l, j + 1))
  BY <1>1, <1>3 DEF Dll
<1> QED
  BY <1>1, <1>2, <1>3, <1>4

LEMMA AddListIs ==
  ASSUME NEW h, Shaped(h), NEW l, Linked(h, l), NEW b \in Address, b \notin In(l)
  PROVE  LET g == AddToBlockList(h, b)
         IN  /\ Chained(h, g, In(l) \cup {b}) /\ Linked(g, Lead(l, b)) /\ In(Lead(l, b)) = In(l) \cup {b}
             /\ g.mem[b] = Links(0, At(l, 1))
<1> DEFINE n == h.block_list
           h1 == [h EXCEPT !.mem[b] = Links(Null, n)]
           h2 == [h1 EXCEPT !.block_list = b]
           g == AddToBlockList(h, b)
<1>1. /\ Distinct(l) /\ Len(l) \in Nat /\ Dll(h, l, 0) /\ n = At(l, 1)
      /\ \A j \in 1 .. Len(l) : /\ l[j] \in In(l) /\ l[j] \in Address /\ l[j] # 0 /\ l[j] + 0 = l[j]
                                /\ h.mem[l[j]] = Links(At(l, j - 1), At(l, j + 1))
      /\ \A j, k \in 1 .. Len(l) : l[j] = l[k] => j = k
  BY LinkedFacts DEF Linked
<1>2. b + 0 = b /\ b # 0
  BY AddressPositive
<1>3. g = IF n = 0 THEN h2 ELSE [h2 EXCEPT !.mem[n].prev = b]
  BY DEF AddToBlockList, Shaped, Null
<1> HIDE DEF g
<1>4. Wrote(h, h1, b, Links(0, n))
  BY CellSet DEF Null
<1>5. BlocksSet(h1, h2, b)
  BY <1>4, HeadSet DEF Wrote
<1> HIDE DEF h1, h2
<1>6. /\ Shaped(h2) /\ h2.os = h.os /\ h2.master_head = h.master_head /\ h2.recycler_head = h.recycler_head
      /\ h2.block_list = b /\ h2.mem[b] = Links(0, n) /\ \A a \in Address : a # b => h2.mem[a] = h.mem[a]
  BY <1>4, <1>5 DEF Wrote, BlocksSet
<1>7. (n # 0 <=> Len(l) >= 1) /\ (Len(l) >= 1 => n = l[1] /\ 1 \in 1 .. Len(l))
  BY <1>1, FirstIs
<1>8. /\ Shaped(g) /\ g.os = h.os /\ g.master_head = h.master_head /\ g.recycler_head = h.recycler_head
      /\ g.block_list = b /\ g.mem[b] = Links(0, n)
      /\ Len(l) >= 1 => g.mem[l[1]] = Links(b, At(l, 2))
      /\ \A a \in Address : a # b /\ (Len(l) >= 1 => a # l[1]) => g.mem[a] = h.mem[a]
  <2>1. CASE n = 0
    BY <1>3, <1>6, <1>7, <2>1
  <2>2. CASE n # 0
    <3>1. n = l[1] /\ 1 \in 1 .. Len(l) /\ n \in Address /\ n # b /\ g = [h2 EXCEPT !.mem[n].prev = b]
      BY <1>1, <1>3, <1>7, <2>2
    <3>2. h2.mem[n] = Links(At(l, 0), At(l, 2))
      <4>1. h.mem[l[1]] = Links(At(l, 1 - 1), At(l, 1 + 1))
        BY <1>1, <3>1
      <4> QED
        BY <1>6, <3>1, <4>1
    <3>3. Wrote(h2, g, n, Links(b, At(l, 2)))
      BY <1>6, <3>1, <3>2, PrevSet
    <3> QED
      BY <1>6, <3>1, <3>3 DEF Wrote
  <2> QED
    BY <2>1, <2>2
<1>9. Dll(g, Lead(l, b), 0) /\ In(Lead(l, b)) = In(l) \cup {b} /\ At(Lead(l, b), 1) = b
  <2>1. g.mem[b + 0] = Links(0, At(l, 1))
    BY <1>1, <1>2, <1>8
  <2>2. Len(l) >= 1 => g.mem[l[1] + 0] = Links(b, At(l, 2))
    BY <1>1, <1>7, <1>8
  <2>3. \A j \in 2 .. Len(l) : g.mem[l[j] + 0] = h.mem[l[j] + 0]
    <3> TAKE j \in 2 .. Len(l)
    <3>1. j \in 1 .. Len(l) /\ 1 \in 1 .. Len(l) /\ j # 1 /\ Len(l) >= 1
      BY <1>1
    <3>2. l[j] + 0 = l[j] /\ l[j] \in Address /\ l[j] # b /\ l[j] # l[1]
      BY <1>1, <3>1
    <3> QED
      BY <1>8, <3>1, <3>2
  <2> QED
    BY <1>1, <2>1, <2>2, <2>3, DllLead
<1>10. Chained(h, g, In(l) \cup {b})
  BY <1>1, <1>7, <1>8 DEF Chained, HeadsSame
<1> QED
  BY <1>1, <1>8, <1>9, <1>10 DEF Linked, g

LEMMA RemoveListIs ==
  ASSUME NEW h, Shaped(h), NEW l, Linked(h, l), NEW k \in 1 .. Len(l)
  PROVE  LET g == RemoveFromBlockList(h, l[k])
         IN  /\ Chained(h, g, In(l) \ {l[k]}) /\ Linked(g, Drop(l, k)) /\ In(Drop(l, k)) = In(l) \ {l[k]}
<1> DEFINE b == l[k]
           a == At(l, k - 1)
           z == At(l, k + 1)
           h1 == IF a # Null THEN [h EXCEPT !.mem[a].next = z] ELSE [h EXCEPT !.block_list = z]
           g == RemoveFromBlockList(h, b)
<1>1. /\ Distinct(l) /\ Len(l) \in Nat /\ Dll(h, l, 0) /\ h.block_list = At(l, 1)
      /\ \A j \in 1 .. Len(l) : /\ l[j] \in In(l) /\ l[j] \in Address /\ l[j] # 0 /\ l[j] + 0 = l[j]
                                /\ h.mem[l[j]] = Links(At(l, j - 1), At(l, j + 1))
      /\ \A j, i \in 1 .. Len(l) : l[j] = l[i] => j = i
  BY LinkedFacts DEF Linked
<1>2. h.mem[b] = Links(a, z)
  BY <1>1
<1>3. g = IF z # 0 THEN [h1 EXCEPT !.mem[z].prev = a] ELSE h1
  <2>1. h.mem[b].prev = a /\ h.mem[b].next = z
    BY <1>2 DEF Links
  <2> HIDE DEF a, z
  <2> QED
    BY <2>1 DEF RemoveFromBlockList, Null
<1>5. (a # 0 <=> k > 1) /\ (k > 1 => k - 1 \in 1 .. Len(l) /\ a = l[k - 1])
  BY <1>1 DEF At
<1>6. (z # 0 <=> k < Len(l)) /\ (k < Len(l) => k + 1 \in 1 .. Len(l) /\ z = l[k + 1])
  BY <1>1 DEF At
<1>8. k < Len(l) => h.mem[z] = Links(b, At(l, k + 2))
  <2> HAVE k < Len(l)
  <2>1. h.mem[l[k + 1]] = Links(At(l, k + 1 - 1), At(l, k + 1 + 1)) /\ k + 1 - 1 = k /\ k + 1 + 1 = k + 2
    BY <1>1, <1>6
  <2> QED
    BY <1>6, <2>1 DEF At
<1>9. k > 1 => h.mem[a] = Links(At(l, k - 2), b)
  <2> HAVE k > 1
  <2>1. h.mem[l[k - 1]] = Links(At(l, k - 1 - 1), At(l, k - 1 + 1)) /\ k - 1 - 1 = k - 2 /\ k - 1 + 1 = k
    BY <1>1, <1>5
  <2> QED
    BY <1>5, <2>1 DEF At
<1> HIDE DEF h1, a, z, g
<1>10. k > 1 /\ k < Len(l) => a # z
  <2> HAVE k > 1 /\ k < Len(l)
  <2>1. k - 1 # k + 1
    OBVIOUS
  <2> QED
    BY <1>1, <1>5, <1>6, <2>1
<1>11. /\ Shaped(h1) /\ h1.os = h.os /\ h1.block_list = (IF k > 1 THEN h.block_list ELSE z)
       /\ h1.recycler_head = h.recycler_head /\ h1.master_head = h.master_head
       /\ k > 1 => h1.mem[a] = Links(At(l, k - 2), z)
       /\ \A d \in Address : (k > 1 => d # a) => h1.mem[d] = h.mem[d]
  <2>1. CASE a = 0
    <3>1. BlocksSet(h, h1, z)
      BY <2>1, HeadSet DEF h1, Null
    <3> QED
      BY <1>5, <2>1, <3>1 DEF BlocksSet
  <2>2. CASE a # 0
    <3>1. h1 = [h EXCEPT !.mem[a].next = z] /\ k > 1 /\ a \in Address
      BY <1>1, <1>5, <2>2 DEF h1, Null
    <3>2. Wrote(h, h1, a, Links(At(l, k - 2), z))
      BY <1>9, <3>1, NextSet
    <3> QED
      BY <3>1, <3>2 DEF Wrote
  <2> QED
    BY <2>1, <2>2
<1>12. /\ Shaped(g) /\ g.os = h.os /\ g.block_list = (IF k > 1 THEN h.block_list ELSE z)
       /\ g.recycler_head = h.recycler_head /\ g.master_head = h.master_head
       /\ k > 1 => g.mem[a] = Links(At(l, k - 2), z)
       /\ k < Len(l) => g.mem[z] = Links(a, At(l, k + 2))
       /\ \A d \in Address : (k > 1 => d # a) /\ (k < Len(l) => d # z) => g.mem[d] = h.mem[d]
  <2>1. CASE z = 0
    <3>1. g = h1 /\ ~(k < Len(l))
      BY <1>3, <1>6, <2>1
    <3> QED
      BY <1>11, <3>1
  <2>2. CASE z # 0
    <3>1. g = [h1 EXCEPT !.mem[z].prev = a] /\ k < Len(l) /\ z \in Address
      BY <1>1, <1>3, <1>6, <2>2
    <3>2. h1.mem[z] = Links(b, At(l, k + 2))
      BY <1>8, <1>10, <1>11, <3>1
    <3>3. Wrote(h1, g, z, Links(a, At(l, k + 2)))
      BY <1>11, <3>1, <3>2, PrevSet
    <3>4. k > 1 => a \in Address
      BY <1>1, <1>5
    <3> QED
      BY <1>10, <1>11, <3>1, <3>3, <3>4 DEF Wrote
  <2> QED
    BY <2>1, <2>2
<1>13. (k > 1 => b # a) /\ (k < Len(l) => b # z)
  <2>1. k - 1 # k /\ k + 1 # k
    OBVIOUS
  <2> QED
    BY <1>1, <1>5, <1>6, <2>1
<1>14. Dll(g, Drop(l, k), 0) /\ In(Drop(l, k)) = In(l) \ {l[k]}
       /\ At(Drop(l, k), 1) = IF k = 1 THEN At(l, 2) ELSE At(l, 1)
  <2>1. k > 1 => g.mem[l[k - 1] + 0] = Links(At(l, k - 2), At(l, k + 1))
    BY <1>1, <1>5, <1>12 DEF z
  <2>2. k < Len(l) => g.mem[l[k + 1] + 0] = Links(At(l, k - 1), At(l, k + 2))
    BY <1>1, <1>6, <1>12 DEF a
  <2>3. \A j \in 1 .. Len(l) : j \notin {k - 1, k, k + 1} => g.mem[l[j] + 0] = h.mem[l[j] + 0]
    <3> TAKE j \in 1 .. Len(l)
    <3> HAVE j \notin {k - 1, k, k + 1}
    <3>1. (k > 1 => l[j] # a) /\ (k < Len(l) => l[j] # z)
      BY <1>1, <1>5, <1>6
    <3> QED
      BY <1>1, <1>12, <3>1
  <2> QED
    BY <1>1, <2>1, <2>2, <2>3, DllDrop
<1>15. g.block_list = At(Drop(l, k), 1)
  <2>1. CASE k = 1
    BY <1>12, <1>14, <2>1 DEF z
  <2>2. CASE k # 1
    BY <1>1, <1>12, <1>14, <2>2
  <2> QED
    BY <2>1, <2>2
<1>16. Chained(h, g, In(l) \ {l[k]})
  BY <1>1, <1>5, <1>6, <1>12, <1>13 DEF Chained, HeadsSame
<1> QED
  BY <1>14, <1>15, <1>16 DEF Linked, g

-----------------------------------------------------------------------------
(***************************************************************************)
(* Blocks that come and go.                                                *)
(***************************************************************************)
LEMMA WholeMaster ==
  ASSUME NEW h, NEW B, NEW C, NEW m, NEW r, Good(h, B, C, m, r, 0),
         h.master_head # 0 => h.mem[h.master_head].len = BlockSize - 1
  PROVE  \A y \in In(m) : h.mem[y].len = BlockSize - 1
<1>1. MasterFull(h, m) /\ Lists(h, m, r)
  BY DEF Good
<1>2. \A y \in In(m) : y # 0
  <2>1. Distinct(m)
    BY <1>1 DEF Lists, Dll
  <2> QED
    BY <2>1, Members, AddressPositive
<1> QED
  BY <1>1, <1>2 DEF MasterFull

Begun(h, g, C, b) ==
  /\ Shaped(g) /\ g.os = h.os /\ g.block_list = h.block_list
  /\ g.master_head = b + 1 /\ g.mem[b + 1].len = BlockSize - 1
  /\ Whole(g.mem[b + 1])
  /\ \A a \in Address : ~FreeCell(h.mem, C, a) /\ a # b + 1 /\ a # b + 2 => g.mem[a] = h.mem[a]

LEMMA InitBlockIs ==
  ASSUME NEW h, NEW B, NEW C, Sound(h, B, C, 0), NEW b \in Block, b \notin B,
         h.master_head # 0 => h.mem[h.master_head].len = BlockSize - 1
  PROVE  LET g == InitBlock(h, b)
         IN  Sound(g, B \cup {b}, C \cup {b + 1}, 0) /\ Begun(h, g, C, b)
<1> DEFINE c == b + 1
           v == Chunk(0, TRUE, FALSE, FALSE, BlockSize - 1)
           k == [h EXCEPT !.mem[c] = v]
           g == InitBlock(h, b)
<1>1. /\ b \in Nat /\ b >= 1 /\ c \in Address /\ Home(c) = b /\ c # b
      /\ b + 2 \in Address /\ Home(b + 2) = b /\ c + 1 = b + 2
  <2>1. /\ b \in Nat /\ b >= 1 /\ c \in Address /\ Home(c) = b
        /\ \A a \in b + 2 .. b + 1 + (SlotSize - 2) : a \in Address /\ Home(a) = b
    BY HomeFacts
  <2>2. SlotSize \in Nat /\ SlotSize >= 4
    BY Sizes
  <2> QED
    BY <2>1, <2>2
<1>2. Shaped(h) /\ Tiled(h.mem, C, B, 0)
  BY DEF Sound, Good
<1>3. Wrote(h, k, c, v)
  BY <1>1, <1>2, CellSet
<1>4. Whole(k.mem[c]) /\ k.mem[c].len = BlockSize - 1 /\ ~k.mem[c].used /\ k.mem[c].last
  BY <1>3 DEF Wrote, Whole, Chunk
<1>5. g = PushMaster(k, c)
  BY DEF InitBlock
<1> HIDE DEF k, g, v
<1>6. Framed(h, k, B)
  BY <1>1, <1>3 DEF Framed, HeadsSame, Wrote
<1>7. Sound(k, B, C, 0) /\ KeepsAll(h, k, C)
  BY <1>6, FramedSound
<1>8. PICK m, r : Good(k, B, C, m, r, 0)
  BY <1>7 DEF Sound
<1>9. /\ Shaped(k) /\ Tiled(k.mem, C, B, 0) /\ Spaced(k, C, 0) /\ Filed(m, r) = FreeSet(k, C, 0)
      /\ Lists(k, m, r)
  BY <1>8 DEF Good
<1>10. \A d \in C : d \in Address /\ Home(d) \in B /\ d # c /\ d # c + 1
  <2>1. \A d \in C : Home(d) \in B /\ d \in Address
    BY <1>9, ChunkFacts
  <2> QED
    BY <1>1, <2>1
<1>11. c \notin Filed(m, r)
  BY <1>9, <1>10 DEF FreeSet
<1>12. Touches(k, g, Filed(m, r) \cup {c}) /\ Lists(g, Lead(m, c), r)
  BY <1>1, <1>5, <1>9, <1>11, PushIs
<1>13. \A y \in Filed(m, r) : FreeCell(k.mem, C, y + 1) /\ y \in C /\ y \in Address /\ y \in Nat
  <2>1. \A y \in Filed(m, r) : FreeCell(k.mem, C, y + 1) /\ y \in C /\ y \in Address
    BY <1>8, FiledFacts
  <2> QED
    BY <2>1, AddressPositive
<1>14. \A a \in Address : ~FreeCell(k.mem, C, a) /\ a # c + 1 => g.mem[a] = k.mem[a]
  <2> TAKE a \in Address
  <2> HAVE ~FreeCell(k.mem, C, a) /\ a # c + 1
  <2>1. a \in Nat /\ c \in Nat
    BY <1>1, AddressPositive
  <2>2. a - 1 \notin Filed(m, r)
    <3>1. SUFFICES ASSUME a - 1 \in Filed(m, r) PROVE FALSE
      OBVIOUS
    <3>2. FreeCell(k.mem, C, a - 1 + 1) /\ a - 1 + 1 = a
      BY <1>13, <2>1, <3>1
    <3> QED
      BY <3>2
  <2>3. a - 1 # c
    BY <2>1
  <2> QED
    BY <1>12, <2>2, <2>3 DEF Touches
<1>15. \A d \in C : g.mem[d] = k.mem[d]
  <2>1. \A d \in C : ~FreeCell(k.mem, C, d)
    BY <1>9, FreeCellFacts
  <2> QED
    BY <1>10, <1>14, <2>1
<1>16. g.mem[c] = k.mem[c]
  <2>1. ~FreeCell(k.mem, C, c)
    <3>1. FreeCell(k.mem, C, c) => Home(c) \in B
      BY <1>9, FreeCellFacts
    <3> QED
      BY <1>1, <3>1
  <2>2. c # c + 1
    BY <1>1
  <2> QED
    BY <1>1, <1>14, <2>1, <2>2
<1>17. Whole(g.mem[c]) /\ g.mem[c].len = BlockSize - 1 /\ ~g.mem[c].used /\ g.mem[c].last
  BY <1>4, <1>16
<1>18. Tiled(g.mem, C \cup {b + 1}, B \cup {b}, 0)
  BY <1>9, <1>15, <1>17, BlockComes
<1>19. Distinct(m)
  BY <1>9, ListsFacts
<1>20. In(Lead(m, c)) = In(m) \cup {c} /\ At(Lead(m, c), 1) = c
  <2>1. c \notin In(m)
    BY <1>11 DEF Filed
  <2>2. In(Lead(m, c)) = In(m) \cup {c} /\ Lead(m, c)[1] = c /\ Len(Lead(m, c)) = Len(m) + 1
    BY <1>1, <1>19, <2>1, LeadIs
  <2>3. Len(m) \in Nat
    BY <1>19, Members
  <2>4. 1 \in 1 .. Len(Lead(m, c))
    BY <2>2, <2>3
  <2> QED
    BY <2>2, <2>4 DEF At
<1>21. Filed(Lead(m, c), r) = FreeSet(g, C \cup {c}, 0)
  <2>1. BlockSize \in Nat /\ BlockSize >= 4 /\ c # 0
    BY <1>1, Sizes
  <2>2. Filed(Lead(m, c), r) = FreeSet(k, C, 0) \cup {c}
    BY <1>9, <1>20 DEF Filed
  <2>3. BlockSize - 1 >= 2
    BY <2>1
  <2>4. \A d : d \in FreeSet(g, C \cup {c}, 0) => d \in FreeSet(k, C, 0) \cup {c}
    BY <1>15 DEF FreeSet
  <2>5. \A d : d \in FreeSet(k, C, 0) \cup {c} => d \in FreeSet(g, C \cup {c}, 0)
    BY <1>15, <1>17, <2>1, <2>3 DEF FreeSet
  <2> QED
    BY <2>2, <2>4, <2>5
<1>22. Spaced(g, C \cup {c}, 0)
  <2>1. \A d \in C : ~k.mem[d].last => End(k.mem, d) \in C
    BY <1>9, Neighbours
  <2> QED
    BY <1>9, <1>15, <1>17, <2>1 DEF Spaced, End
<1>23. MasterFull(g, Lead(m, c))
  <2>1. k.master_head # 0 => k.mem[k.master_head].len = BlockSize - 1
    <3>1. k.master_head = h.master_head
      BY <1>3 DEF Wrote
    <3>2. h.master_head # 0 => h.master_head \in In(m)
      BY <1>9, <1>19, <3>1, FirstIs, ListsFacts
    <3>3. \A y \in In(m) : y \in C
      BY <1>13 DEF Filed
    <3> QED
      BY <1>7, <3>1, <3>2, <3>3 DEF KeepsAll
  <2>2. \A y \in In(m) : k.mem[y].len = BlockSize - 1 /\ y \in C
    BY <1>8, <1>13, <2>1, WholeMaster DEF Filed
  <2> QED
    BY <1>15, <1>17, <1>20, <2>2 DEF MasterFull
<1>24. Sound(g, B \cup {b}, C \cup {b + 1}, 0)
  BY <1>12, <1>18, <1>21, <1>22, <1>23 DEF Sound, Good, Touches
<1>25. Begun(h, g, C, b)
  <2>1. \A a \in Address : ~FreeCell(h.mem, C, a) => ~FreeCell(k.mem, C, a)
    BY <1>7 DEF KeepsAll, FreeCell, End
  <2>2. \A a \in Address : ~FreeCell(h.mem, C, a) /\ a # b + 1 /\ a # b + 2 => g.mem[a] = h.mem[a]
    BY <1>1, <1>3, <1>14, <2>1 DEF Wrote
  <2>3. g.master_head = b + 1
    BY <1>12, <1>20 DEF Lists
  <2>4. Shaped(g) /\ g.os = h.os /\ g.block_list = h.block_list
    BY <1>3, <1>12 DEF Touches, Wrote
  <2> QED
    BY <1>17, <2>2, <2>3, <2>4 DEF Begun
<1> QED
  BY <1>24, <1>25 DEF g

LEMMA FreshBlock ==
  ASSUME NEW h, Shaped(h), FreeSlots(h) # {}
  PROVE  /\ NewSlot(h) \in Slot /\ NewSlot(h) \notin h.os
         /\ Base(NewSlot(h)) \in Block /\ Base(NewSlot(h)) \notin Blocks(h)
<1> DEFINE s == NewSlot(h)
<1>1. s \in FreeSlots(h)
  BY NewSlotFree
<1> HIDE DEF s
<1>2. s \in Slot /\ s \notin h.os
  BY <1>1 DEF FreeSlots
<1>3. Base(s) \in Block
  BY <1>2 DEF Block
<1>4. ASSUME NEW t \in h.os, Base(t) = Base(s) PROVE FALSE
  <2>1. t \in Slot /\ t # s
    BY <1>2, <1>4 DEF Shaped
  <2>2. Base(s) \in Nat /\ (Base(s) + SlotSize <= Base(t) \/ Base(t) + SlotSize <= Base(s))
    BY <1>2, <2>1, SlotFacts
  <2>3. SlotSize \in Nat /\ SlotSize >= 4
    BY Sizes
  <2> QED
    BY <1>4, <2>2, <2>3
<1> QED
  BY <1>2, <1>3, <1>4 DEF Blocks, s

LEMMA OsTakeIs ==
  ASSUME NEW h, Shaped(h), NEW s \in Slot
  PROVE  LET g == OsTake(h, s)
         IN  /\ HeadsSame(h, g) /\ g.mem = h.mem /\ g.block_list = h.block_list
             /\ Blocks(g) = Blocks(h) \cup {Base(s)}
<1> DEFINE g == OsTake(h, s)
<1>1. g = [mem |-> h.mem, block_list |-> h.block_list, master_head |-> h.master_head,
           recycler_head |-> h.recycler_head, os |-> h.os \cup {s}]
  BY DEF OsTake, Shaped
<1>2. h.os \cup {s} \subseteq Slot
  BY DEF Shaped
<1>3. /\ g.mem = h.mem /\ g.block_list = h.block_list /\ g.master_head = h.master_head
      /\ g.recycler_head = h.recycler_head /\ g.os = h.os \cup {s}
  BY <1>1
<1>4. Shaped(g)
  <2>1. g = [mem |-> g.mem, block_list |-> g.block_list, master_head |-> g.master_head,
             recycler_head |-> g.recycler_head, os |-> g.os]
    BY <1>1
  <2> QED
    BY <1>2, <1>3, <2>1 DEF Shaped
<1> QED
  BY <1>3, <1>4 DEF HeadsSame, Blocks

Extended(h, g, b) ==
  /\ HeadsSame(h, g) /\ Blocks(g) = Blocks(h) \cup {b} /\ (\E l : Listed(g, l))
  /\ \A a \in Address : a \notin Block => g.mem[a] = h.mem[a]

LEMMA ExtendIs ==
  ASSUME NEW h, Shaped(h), NEW l, Listed(h, l), FreeSlots(h) # {}
  PROVE  Extended(h, AddToBlockList(OsTake(h, NewSlot(h)), Base(NewSlot(h))), Base(NewSlot(h)))
<1> DEFINE s == NewSlot(h)
           b == Base(s)
           k == OsTake(h, s)
           g == AddToBlockList(k, b)
<1>1. s \in Slot /\ b \in Block /\ b \notin Blocks(h)
  BY FreshBlock
<1> HIDE DEF s
<1>2. HeadsSame(h, k) /\ k.mem = h.mem /\ k.block_list = h.block_list /\ Blocks(k) = Blocks(h) \cup {b}
  BY <1>1, OsTakeIs
<1> HIDE DEF k, b
<1>3. Linked(k, l) /\ In(l) = Blocks(h)
  BY <1>2 DEF Listed, Linked, Dll
<1>4. b \in Address /\ Blocks(h) \subseteq Block
  BY <1>1, HomeFacts
<1>5. /\ Chained(k, g, In(l) \cup {b}) /\ Linked(g, Lead(l, b)) /\ In(Lead(l, b)) = In(l) \cup {b}
  BY <1>1, <1>2, <1>3, <1>4, AddListIs DEF HeadsSame
<1> HIDE DEF g
<1>6. Blocks(g) = Blocks(k)
  BY <1>5 DEF Chained, Blocks
<1>7. Listed(g, Lead(l, b))
  BY <1>2, <1>3, <1>5, <1>6 DEF Listed, Linked
<1>8. \A a \in Address : a \notin Block => g.mem[a] = h.mem[a]
  BY <1>1, <1>2, <1>3, <1>4, <1>5 DEF Chained
<1> QED
  BY <1>2, <1>5, <1>6, <1>7, <1>8 DEF Extended, Chained, HeadsSame, g, k, b, s

(* Nothing of the chunks has changed outside the blocks S, free headers    *)
(* apart.                                                                  *)
Elsewhere(h, g, C, S) ==
  \A a \in Address : ~FreeCell(h.mem, C, a) /\ a \notin Block /\ Home(a) \in Blocks(h) /\ Home(a) \notin S
                       => g.mem[a] = h.mem[a]

LEMMA ElsewhereKeeps ==
  ASSUME NEW h, NEW B, NEW C, World(h, B, C), NEW g, NEW S, Elsewhere(h, g, C, S), NEW D,
         \A b \in Blocks(h) : b \in D <=> b \in B, NEW c \in Users(h, B, C), Home(c) \notin S
  PROVE  g.mem[c] = h.mem[c] /\ Untouched(h, B, g, D, c)
<1>1. Tiled(h.mem, C, B, 0)
  BY WorldFacts
<1>2. /\ c \in Address /\ Home(c) \in Blocks(h) /\ c # Home(c)
      /\ Home(c) \in B => c \in C
  BY UserFacts
<1>3. c \notin Block
  BY <1>2, HomeFacts
<1>4. ~FreeCell(h.mem, C, c)
  <2>1. FreeCell(h.mem, C, c) => c \notin C /\ Home(c) \in B
    BY <1>1, FreeCellFacts
  <2> QED
    BY <1>2, <2>1
<1>5. g.mem[c] = h.mem[c]
  BY <1>2, <1>3, <1>4 DEF Elsewhere
<1>6. \A a \in Cells(h, B, c) : a \in Address /\ a \notin Block /\ Home(a) = Home(c) /\ ~FreeCell(h.mem, C, a)
  BY UserFacts
<1>7. \A a \in Cells(h, B, c) : g.mem[a] = h.mem[a]
  BY <1>2, <1>6 DEF Elsewhere
<1>8. Span(g, D, c) = Span(h, B, c)
  BY <1>2, <1>5 DEF Span
<1> QED
  BY <1>5, <1>7, <1>8 DEF Untouched

LEMMA NewBlockIs ==
  ASSUME NEW h, NEW B, NEW C, World(h, B, C), FreeSlots(h) # {},
         h.master_head # 0 => h.mem[h.master_head].len = BlockSize - 1
  PROVE  LET g == NewBlock(h)
             b == Base(NewSlot(h))
         IN  /\ World(g, B \cup {b}, C \cup {b + 1})
             /\ Serves(h, B, C, g, B \cup {b}, C \cup {b + 1}, {})
             /\ g.master_head = b + 1 /\ g.mem[b + 1].len = BlockSize - 1
<1> DEFINE b == Base(NewSlot(h))
           k == AddToBlockList(OsTake(h, NewSlot(h)), b)
           g == NewBlock(h)
<1>1. Shaped(h) /\ Tiled(h.mem, C, B, 0) /\ B \subseteq Blocks(h) /\ Blocks(h) \subseteq Block /\ BigBlocks(h, B)
      /\ B \subseteq Block
  BY WorldFacts
<1>2. b \in Block /\ b \notin Blocks(h)
  BY <1>1, FreshBlock
<1>3. PICK l : Listed(h, l)
  BY DEF World
<1>4. Extended(h, k, b)
  BY <1>1, <1>3, ExtendIs
<1>5. g = InitBlock(k, b)
  BY DEF NewBlock
<1> HIDE DEF b, k, g
<1>6. Framed(h, k, B)
  <2>1. \A a \in Address : a # Home(a) => a \notin Block
    BY HomeFacts
  <2> QED
    BY <1>4, <2>1 DEF Framed, Extended
<1>7. Sound(k, B, C, 0) /\ KeepsAll(h, k, C)
  BY <1>6, FramedSound DEF World
<1>8. k.master_head # 0 => k.mem[k.master_head].len = BlockSize - 1
  <2>1. k.master_head = h.master_head
    BY <1>4 DEF Extended, HeadsSame
  <2>2. h.master_head # 0 => h.master_head \in C
    <3>1. PICK m, r : Good(h, B, C, m, r, 0)
      BY DEF World, Sound
    <3>2. Lists(h, m, r) /\ \A y \in Filed(m, r) : y \in C
      BY <3>1, FiledFacts DEF Good
    <3>3. Distinct(m) /\ h.master_head = At(m, 1)
      BY <1>1, <3>2, ListsFacts
    <3>4. h.master_head # 0 => h.master_head \in In(m)
      BY <3>3, FirstIs
    <3> QED
      BY <3>2, <3>4 DEF Filed
  <2> QED
    BY <1>7, <2>1, <2>2 DEF KeepsAll
<1>9. b \notin B
  BY <1>1, <1>2
<1>10. Sound(g, B \cup {b}, C \cup {b + 1}, 0) /\ Begun(k, g, C, b)
  BY <1>2, <1>5, <1>7, <1>8, <1>9, InitBlockIs
<1>11. /\ g.os = k.os /\ g.block_list = k.block_list /\ g.master_head = b + 1 /\ g.mem[b + 1].len = BlockSize - 1
       /\ \A a \in Address : ~FreeCell(k.mem, C, a) /\ a # b + 1 /\ a # b + 2 => g.mem[a] = k.mem[a]
       /\ Whole(g.mem[b + 1])
  BY <1>10 DEF Begun
<1>12. \A a \in Address : ~FreeCell(h.mem, C, a) => ~FreeCell(k.mem, C, a)
  BY <1>7 DEF KeepsAll, FreeCell, End
<1>13. /\ Home(b + 1) = b /\ Home(b + 2) = b /\ b + 1 \notin Block /\ b + 2 \notin Block
  <2>1. /\ b \in Nat /\ Home(b + 1) = b /\ b + 1 \notin Block
        /\ \A a \in b + 2 .. b + 1 + (SlotSize - 2) : Home(a) = b /\ a \notin Block
    BY <1>2, HomeFacts
  <2>2. SlotSize \in Nat /\ SlotSize >= 4
    BY Sizes
  <2>3. b + 2 \in b + 2 .. b + 1 + (SlotSize - 2)
    BY <2>1, <2>2
  <2> QED
    BY <2>1, <2>3
<1>14. \A x \in Block : g.mem[x] = k.mem[x]
  <2> TAKE x \in Block
  <2>1. x \in Address /\ Home(x) = x
    BY HomeFacts
  <2>2. ~FreeCell(h.mem, C, x)
    <3>1. FreeCell(h.mem, C, x) => x # Home(x)
      BY <1>1, FreeCellFacts
    <3> QED
      BY <2>1, <3>1
  <2> QED
    BY <1>11, <1>12, <1>13, <2>1, <2>2
<1>15. Blocks(g) = Blocks(h) \cup {b}
  BY <1>4, <1>11 DEF Extended, Blocks
<1>16. \E q : Listed(g, q)
  <2>1. PICK q : Listed(k, q)
    BY <1>4 DEF Extended
  <2>2. In(q) = Blocks(h) \cup {b}
    BY <1>4, <2>1 DEF Listed, Extended
  <2>3. \A y \in In(q) : g.mem[y + 0] = k.mem[y + 0]
    <3>1. \A y \in Block : y + 0 = y
      <4>1. \A y \in Block : y \in Nat
        BY HomeFacts
      <4> QED
        BY <4>1
    <3> QED
      BY <1>1, <1>2, <1>14, <2>2, <3>1
  <2>4. Dll(g, q, 0)
    BY <2>1, <2>3, DllSame DEF Listed
  <2> QED
    BY <1>11, <1>15, <2>1, <2>2, <2>4 DEF Listed
<1>17. Elsewhere(h, g, C, {})
  BY <1>2, <1>4, <1>11, <1>12, <1>13 DEF Elsewhere, Extended
<1>18. BigBlocks(g, B \cup {b})
  <2>1. \A d \in Blocks(h) \ B : g.mem[d + 1] = h.mem[d + 1]
    <3> TAKE d \in Blocks(h) \ B
    <3>1. d + 1 \in Users(h, B, C)
      BY DEF Users
    <3>2. \A x \in Blocks(h) : x \in B \cup {b} <=> x \in B
      BY <1>2
    <3> QED
      BY <1>17, <3>1, <3>2, ElsewhereKeeps
  <2> QED
    BY <1>1, <1>15, <2>1 DEF BigBlocks
<1>19. World(g, B \cup {b}, C \cup {b + 1})
  BY <1>1, <1>10, <1>15, <1>16, <1>18 DEF World
<1>20. ASSUME NEW c \in Users(h, B, C)
       PROVE  c \in Users(g, B \cup {b}, C \cup {b + 1}) /\ Untouched(h, B, g, B \cup {b}, c)
  <2>1. \A x \in Blocks(h) : x \in B \cup {b} <=> x \in B
    BY <1>2
  <2>2. g.mem[c] = h.mem[c] /\ Untouched(h, B, g, B \cup {b}, c)
    BY <1>17, <2>1, ElsewhereKeeps
  <2>3. \A d \in Blocks(h) \ B : d \in Blocks(g) \ (B \cup {b})
    BY <1>2, <1>15
  <2> QED
    BY <2>2, <2>3 DEF Users
<1>21. ASSUME NEW c \in Users(g, B \cup {b}, C \cup {b + 1}) PROVE c \in Users(h, B, C)
  <2>1. ~g.mem[b + 1].used
    BY <1>11 DEF Whole, Chunk
  <2>2. CASE c \in C /\ g.mem[c].used
    <3>1. g.mem[c] = h.mem[c]
      <4>1. c \in Address /\ c \notin Block
        <5>1. c \in Address /\ Home(c) \in Nat /\ Home(c) < c
          BY <1>1, <2>2, ChunkFacts
        <5>2. c # Home(c)
          BY <5>1
        <5> QED
          BY <5>1, <5>2, HomeFacts
      <4>2. ~FreeCell(h.mem, C, c)
        BY <1>1, <2>2, FreeCellFacts
      <4>3. Home(c) \in Blocks(h)
        BY <1>1, <2>2, ChunkFacts
      <4> QED
        BY <1>17, <4>1, <4>2, <4>3 DEF Elsewhere
    <3> QED
      BY <2>2, <3>1 DEF Users
  <2>3. CASE \E d \in Blocks(g) \ (B \cup {b}) : c = d + 1
    BY <1>15, <2>3 DEF Users
  <2> QED
    BY <1>21, <2>1, <2>2, <2>3 DEF Users
<1>22. Serves(h, B, C, g, B \cup {b}, C \cup {b + 1}, {})
  BY <1>20, <1>21 DEF Serves
<1> QED
  BY <1>11, <1>19, <1>22 DEF g, b

LEMMA AllocJumboIs ==
  ASSUME NEW h, NEW B, NEW C, World(h, B, C), FreeSlots(h) # {}
  PROVE  LET g == AllocJumbo(h)
             c == Base(NewSlot(h)) + 1
         IN  /\ World(g, B, C) /\ Serves(h, B, C, g, B, C, {c})
             /\ c \in Users(g, B, C) /\ c \notin Users(h, B, C) /\ Span(g, B, c) = SlotSize - 2
<1> DEFINE b == Base(NewSlot(h))
           k == AddToBlockList(OsTake(h, NewSlot(h)), b)
           v == Chunk(0, TRUE, TRUE, TRUE, 0)
           g == AllocJumbo(h)
<1>1. Shaped(h) /\ Tiled(h.mem, C, B, 0) /\ B \subseteq Blocks(h) /\ Blocks(h) \subseteq Block /\ BigBlocks(h, B)
      /\ B \subseteq Block
  BY WorldFacts
<1>2. b \in Block /\ b \notin Blocks(h)
  BY <1>1, FreshBlock
<1>3. PICK l : Listed(h, l)
  BY DEF World
<1>4. Extended(h, k, b)
  BY <1>1, <1>3, ExtendIs
<1>5. g = [k EXCEPT !.mem[b + 1] = v]
  BY DEF AllocJumbo
<1> HIDE DEF b, k, g
<1>6. b + 1 \in Address /\ Home(b + 1) = b /\ b + 1 \notin Block
  BY <1>2, HomeFacts
<1>7. Wrote(k, g, b + 1, v)
  BY <1>4, <1>5, <1>6, CellSet DEF Extended, HeadsSame
<1>8. Big(g.mem[b + 1])
  BY <1>7 DEF Big, Wrote
<1> HIDE DEF v
<1>9. /\ HeadsSame(h, g) /\ Blocks(g) = Blocks(h) \cup {b} /\ g.block_list = k.block_list
      /\ \A a \in Address : a \notin Block /\ a # b + 1 => g.mem[a] = h.mem[a]
  BY <1>4, <1>7 DEF Extended, Wrote, HeadsSame, Blocks
<1>10. b \notin B
  BY <1>1, <1>2
<1>11. Framed(h, g, B)
  <2>1. \A a \in Address : a # Home(a) => a \notin Block
    BY HomeFacts
  <2> QED
    BY <1>6, <1>9, <1>10, <2>1 DEF Framed
<1>12. Sound(g, B, C, 0) /\ KeepsAll(h, g, C)
  BY <1>11, FramedSound DEF World
<1>13. \E q : Listed(g, q)
  <2>1. PICK q : Listed(k, q)
    BY <1>4 DEF Extended
  <2>2. In(q) = Blocks(h) \cup {b}
    BY <1>4, <2>1 DEF Listed, Extended
  <2>3. \A y \in In(q) : g.mem[y + 0] = k.mem[y + 0]
    <3>1. \A y \in Block : y + 0 = y /\ y \in Address
      <4>1. \A y \in Block : y \in Nat /\ y \in Address
        BY HomeFacts
      <4> QED
        BY <4>1
    <3> QED
      BY <1>1, <1>2, <1>6, <1>7, <2>2, <3>1 DEF Wrote
  <2>4. Dll(g, q, 0)
    BY <2>1, <2>3, DllSame DEF Listed
  <2> QED
    BY <1>9, <2>1, <2>2, <2>4 DEF Listed
<1>14. Elsewhere(h, g, C, {})
  BY <1>2, <1>6, <1>9 DEF Elsewhere
<1>15. ASSUME NEW c \in Users(h, B, C)
       PROVE  g.mem[c] = h.mem[c] /\ Untouched(h, B, g, B, c)
  <2>1. Home(c) \notin {}
    OBVIOUS
  <2>2. \A d \in Blocks(h) : d \in B <=> d \in B
    OBVIOUS
  <2> QED
    BY <1>14, <2>1, <2>2, ElsewhereKeeps
<1>16. BigBlocks(g, B)
  <2>1. \A d \in Blocks(h) \ B : g.mem[d + 1] = h.mem[d + 1]
    BY <1>15 DEF Users
  <2> QED
    BY <1>1, <1>8, <1>9, <2>1 DEF BigBlocks
<1>17. World(g, B, C)
  BY <1>1, <1>9, <1>12, <1>13, <1>16 DEF World
<1>18. Users(g, B, C) = Users(h, B, C) \cup {b + 1}
  BY <1>9, <1>10, <1>12 DEF Users, KeepsAll
<1>19. b + 1 \notin Users(h, B, C)
  <2>1. b + 1 \in Users(h, B, C) => Home(b + 1) \in Blocks(h)
    BY UserFacts
  <2> QED
    BY <1>2, <1>6, <2>1
<1>20. Span(g, B, b + 1) = SlotSize - 2
  BY <1>6, <1>10 DEF Span
<1>21. Serves(h, B, C, g, B, C, {b + 1})
  BY <1>15, <1>18 DEF Serves
<1> QED
  BY <1>17, <1>18, <1>19, <1>20, <1>21 DEF g, b

LEMMA OsFreeIs ==
  ASSUME NEW h, Shaped(h), NEW b \in Block
  PROVE  LET g == OsFree(h, b)
         IN  /\ HeadsSame(h, g) /\ g.block_list = h.block_list
             /\ Blocks(g) = Blocks(h) \ {b}
             /\ \A a \in Address : Home(a) # b => g.mem[a] = h.mem[a]
<1> DEFINE g == OsFree(h, b)
           s == SlotOf(b)
           mem2 == [a \in Address |-> IF a \in SlotCells(s) THEN Junk ELSE h.mem[a]]
<1>1. g = [mem |-> mem2, block_list |-> h.block_list, master_head |-> h.master_head,
           recycler_head |-> h.recycler_head, os |-> h.os \ {s}]
  <2>1. g = [h EXCEPT !.os = h.os \ {s}, !.mem = mem2]
    BY DEF OsFree
  <2> HIDE DEF g, mem2, s
  <2> QED
    BY <2>1 DEF Shaped
<1> HIDE DEF g
<1>2. /\ g.mem = mem2 /\ g.block_list = h.block_list /\ g.master_head = h.master_head
      /\ g.recycler_head = h.recycler_head /\ g.os = h.os \ {s}
  BY <1>1
<1>3. Shaped(g)
  <2>1. g = [mem |-> g.mem, block_list |-> g.block_list, master_head |-> g.master_head,
             recycler_head |-> g.recycler_head, os |-> g.os]
    BY <1>1
  <2>2. g.mem = [a \in Address |-> g.mem[a]]
    BY <1>2
  <2>3. g.os \in SUBSET Slot
    BY <1>2 DEF Shaped
  <2> QED
    BY <2>1, <2>2, <2>3 DEF Shaped
<1>4. Base(s) = b /\ s \in Slot /\ SlotCells(s) = b .. b + SlotSize - 1
      /\ \A a \in b .. b + SlotSize - 1 : Home(a) = b
  BY BlockFacts
<1>5. \A a \in Address : Home(a) # b => g.mem[a] = h.mem[a]
  BY <1>2, <1>4
<1>6. \A t \in h.os : Base(t) = b => t = s
  <2> TAKE t \in h.os
  <2> HAVE Base(t) = b
  <2>1. t \in Slot
    BY DEF Shaped
  <2>2. SlotSize \in Nat /\ SlotSize >= 4 /\ b \in Nat
    BY Sizes, BlockFacts
  <2>3. t # s => Base(s) + SlotSize <= Base(t) \/ Base(t) + SlotSize <= Base(s)
    BY <1>4, <2>1, SlotFacts
  <2> QED
    BY <1>4, <2>2, <2>3
<1>7. Blocks(g) = Blocks(h) \ {b}
  BY <1>2, <1>4, <1>6 DEF Blocks
<1> QED
  BY <1>2, <1>3, <1>5, <1>7 DEF HeadsSame, g

LEMMA FreeJumboIs ==
  ASSUME NEW h, NEW B, NEW C, World(h, B, C), NEW b \in Blocks(h) \ B
  PROVE  LET g == OsFree(RemoveFromBlockList(h, b), b)
         IN  /\ World(g, B, C) /\ Serves(h, B, C, g, B, C, {b + 1}) /\ b + 1 \notin Users(g, B, C)
<1> DEFINE k == RemoveFromBlockList(h, b)
           g == OsFree(k, b)
<1>1. Shaped(h) /\ Tiled(h.mem, C, B, 0) /\ B \subseteq Blocks(h) /\ Blocks(h) \subseteq Block /\ BigBlocks(h, B)
      /\ B \subseteq Block
  BY WorldFacts
<1>2. PICK l : Listed(h, l)
  BY DEF World
<1>3. Linked(h, l) /\ In(l) = Blocks(h) /\ b \in In(l)
  BY <1>2 DEF Listed, Linked
<1>4. PICK j \in 1 .. Len(l) : l[j] = b
  BY <1>3, LinkedFacts
<1>5. Chained(h, k, In(l) \ {b}) /\ Linked(k, Drop(l, j)) /\ In(Drop(l, j)) = In(l) \ {b}
  BY <1>1, <1>3, <1>4, RemoveListIs
<1> HIDE DEF k
<1>6. Shaped(k) /\ b \in Block /\ HeadsSame(h, k) /\ Blocks(k) = Blocks(h)
  BY <1>1, <1>5 DEF Chained, HeadsSame, Blocks
<1>7. /\ HeadsSame(k, g) /\ g.block_list = k.block_list
      /\ Blocks(g) = Blocks(k) \ {b}
      /\ \A a \in Address : Home(a) # b => g.mem[a] = k.mem[a]
  BY <1>6, OsFreeIs
<1> HIDE DEF g
<1>8. /\ HeadsSame(h, g) /\ Blocks(g) = Blocks(h) \ {b}
      /\ \A a \in Address : a \notin Block /\ Home(a) # b => g.mem[a] = h.mem[a]
  BY <1>1, <1>3, <1>5, <1>6, <1>7 DEF HeadsSame, Chained
<1>9. Framed(h, g, B)
  <2>1. \A a \in Address : a # Home(a) => a \notin Block
    BY HomeFacts
  <2> QED
    BY <1>8, <2>1 DEF Framed
<1>10. Sound(g, B, C, 0) /\ KeepsAll(h, g, C)
  BY <1>9, FramedSound DEF World
<1>11. Listed(g, Drop(l, j))
  <2>1. \A y \in In(Drop(l, j)) : g.mem[y + 0] = k.mem[y + 0]
    <3>1. \A y \in Block : y + 0 = y /\ y \in Address /\ Home(y) = y
      <4>1. \A y \in Block : y \in Nat /\ y \in Address /\ Home(y) = y
        BY HomeFacts
      <4> QED
        BY <4>1
    <3> QED
      BY <1>1, <1>3, <1>5, <1>7, <3>1
  <2>2. Dll(g, Drop(l, j), 0)
    BY <1>5, <2>1, DllSame DEF Linked
  <2> QED
    BY <1>3, <1>5, <1>7, <1>8, <2>2 DEF Listed, Linked
<1>12. Elsewhere(h, g, C, {b})
  BY <1>8 DEF Elsewhere
<1>13. ASSUME NEW c \in Users(h, B, C), c # b + 1
       PROVE  g.mem[c] = h.mem[c] /\ Untouched(h, B, g, B, c)
  <2>1. Home(c) \notin {b}
    <3>1. Home(c) \notin B => c = Home(c) + 1
      BY UserFacts
    <3> QED
      BY <1>13, <3>1
  <2>2. \A d \in Blocks(h) : d \in B <=> d \in B
    OBVIOUS
  <2> QED
    BY <1>12, <2>1, <2>2, ElsewhereKeeps
<1>14. BigBlocks(g, B)
  <2>1. \A d \in Blocks(h) \ B : d # b => g.mem[d + 1] = h.mem[d + 1]
    <3> TAKE d \in Blocks(h) \ B
    <3> HAVE d # b
    <3>1. d + 1 # b + 1
      BY <1>1, <1>6, HomeFacts
    <3> QED
      BY <1>13, <3>1 DEF Users
  <2> QED
    BY <1>1, <1>8, <2>1 DEF BigBlocks
<1>15. World(g, B, C)
  BY <1>1, <1>8, <1>10, <1>11, <1>14 DEF World
<1>16. b + 1 \notin C
  <2>1. b + 1 \in C => Home(b + 1) \in B
    BY <1>1, ChunkFacts
  <2> QED
    BY <1>6, <2>1, HomeFacts
<1>17. Users(g, B, C) = Users(h, B, C) \ {b + 1}
  <2>1. \A c \in C : g.mem[c] = h.mem[c]
    BY <1>10 DEF KeepsAll
  <2>2. \A d \in Blocks(h) : d + 1 = b + 1 => d = b
    BY <1>1, <1>6, HomeFacts
  <2> QED
    BY <1>8, <1>16, <2>1, <2>2 DEF Users
<1>18. Serves(h, B, C, g, B, C, {b + 1})
  BY <1>13, <1>17 DEF Serves
<1> QED
  BY <1>15, <1>17, <1>18 DEF g, k

-----------------------------------------------------------------------------
(***************************************************************************)
(* wmem_block_alloc.                                                       *)
(***************************************************************************)
LEMMA ServesNobody ==
  ASSUME NEW h, NEW B, NEW C, World(h, B, C), NEW g, NEW D, NEW E, World(g, D, E),
         Serves(h, B, C, g, D, E, {0})
  PROVE  Serves(h, B, C, g, D, E, {})
<1>1. (\A c \in Users(h, B, C) : c # 0) /\ (\A c \in Users(g, D, E) : c # 0)
  BY UserFacts
<1> QED
  BY <1>1 DEF Serves

LEMMA ServesItself ==
  ASSUME NEW h, NEW B, NEW C
  PROVE  Serves(h, B, C, h, B, C, {})
BY DEF Serves, Untouched

LEMMA HeadIs ==
  ASSUME NEW h, NEW B, NEW C, NEW m, NEW r, Good(h, B, C, m, r, 0)
  PROVE  /\ h.master_head # 0 => /\ h.master_head \in C /\ ~h.mem[h.master_head].used
                                 /\ h.master_head \in In(m)
         /\ h.recycler_head # 0 => /\ h.recycler_head \in C /\ ~h.mem[h.recycler_head].used
                                   /\ h.recycler_head \in In(r) /\ h.recycler_head \notin In(m)
<1>1. Lists(h, m, r) /\ Shaped(h)
  BY DEF Good
<1>2. \A y \in Filed(m, r) : y \in C /\ ~h.mem[y].used
  BY FiledFacts
<1>3. Distinct(m) /\ Distinct(r) /\ h.master_head = At(m, 1) /\ h.recycler_head = At(r, 1)
      /\ \A x \in In(r) : x \notin In(m)
  BY <1>1, ListsFacts
<1>4. (h.master_head # 0 => h.master_head \in In(m)) /\ (h.recycler_head # 0 => h.recycler_head \in In(r))
  BY <1>3, FirstIs
<1> QED
  BY <1>2, <1>3, <1>4 DEF Filed

LEMMA WholeData ==
  ASSUME NEW h, NEW c, h.mem[c].len = BlockSize - 1
  PROVE  DataLen(h, c) = MaxAllocSize /\ MaxAllocSize \in Nat
<1>1. BlockSize \in Nat /\ BlockSize >= 4 /\ AlignAmount \in Nat
  BY Sizes
<1>2. BlockSize - 1 - 1 = BlockSize - 2 /\ BlockSize - 2 \in Nat
  BY <1>1
<1> QED
  BY <1>1, <1>2 DEF DataLen, MaxAllocSize

LEMMA RecycleMasterIs ==
  ASSUME NEW h, NEW B, NEW C, World(h, B, C), NEW size \in Nat, size <= MaxAllocSize
  PROVE  LET g == RecycleMaster(h, size)
         IN  /\ World(g, B, C) /\ Serves(h, B, C, g, B, C, {}) /\ g.os = h.os
             /\ g.master_head # 0 => ~(DataLen(g, g.master_head) < size)
<1> DEFINE k == AddToRecycler(PopMaster(h), h.master_head)
           g == RecycleMaster(h, size)
<1>1. CASE h.master_head # 0 /\ DataLen(h, h.master_head) < size
  <2>1. g = k
    BY <1>1 DEF RecycleMaster, Null
  <2>2. PICK m, r : Good(h, B, C, m, r, 0)
    BY DEF World, Sound
  <2>3. /\ Sound(k, B, C, 0) /\ Step(h, C, k, C, B, 0)
        /\ k.master_head # 0 => k.mem[k.master_head].len = BlockSize - 1
    BY <1>1, <2>2, RecycleIs
  <2> HIDE DEF k
  <2>4. World(k, B, C) /\ Serves(h, B, C, k, B, C, {0})
    BY <2>3, WorldStep
  <2>5. Serves(h, B, C, k, B, C, {})
    BY <2>4, ServesNobody
  <2>6. k.os = h.os
    BY <2>3 DEF Step, Local
  <2>7. k.master_head # 0 => ~(DataLen(k, k.master_head) < size)
    BY <2>3, WholeData
  <2> QED
    BY <2>1, <2>4, <2>5, <2>6, <2>7
<1>2. CASE ~(h.master_head # 0 /\ DataLen(h, h.master_head) < size)
  <2>1. g = h
    BY <1>2 DEF RecycleMaster, Null
  <2> QED
    BY <1>2, <2>1, ServesItself
<1> QED
  BY <1>1, <1>2

Taken(h, B, C, g, D, E, size) ==
  /\ World(g, D, E) /\ Serves(h, B, C, g, D, E, {})
  /\ g.master_head # 0 /\ ~(DataLen(g, g.master_head) < size) /\ B \subseteq D

LEMMA WithMasterIs ==
  ASSUME NEW h, NEW B, NEW C, World(h, B, C), NEW size \in Nat, size <= MaxAllocSize,
         FreeSlots(h) # {} \/ RecycleMaster(h, size).master_head # Null
  PROVE  \E D, E : Taken(h, B, C, WithMaster(h, size), D, E, size)
<1> DEFINE k == RecycleMaster(h, size)
           g == WithMaster(h, size)
           b == Base(NewSlot(k))
<1>1. /\ World(k, B, C) /\ Serves(h, B, C, k, B, C, {}) /\ k.os = h.os
      /\ k.master_head # 0 => ~(DataLen(k, k.master_head) < size)
  BY RecycleMasterIs
<1>2. g = IF k.master_head = 0 THEN NewBlock(k) ELSE k
  BY DEF WithMaster, Null
<1>3. FreeSlots(k) # {} \/ k.master_head # 0
  BY <1>1 DEF FreeSlots, Null
<1> HIDE DEF k, g
<1>4. CASE k.master_head # 0
  <2>1. Taken(h, B, C, g, B, C, size)
    BY <1>1, <1>2, <1>4 DEF Taken
  <2> QED
    BY <2>1 DEF g
<1>5. CASE k.master_head = 0
  <2>1. g = NewBlock(k) /\ FreeSlots(k) # {}
    BY <1>2, <1>3, <1>5
  <2>2. /\ World(g, B \cup {b}, C \cup {b + 1})
        /\ Serves(k, B, C, g, B \cup {b}, C \cup {b + 1}, {})
        /\ g.master_head = b + 1 /\ g.mem[b + 1].len = BlockSize - 1
    BY <1>1, <1>5, <2>1, NewBlockIs
  <2>3. b + 1 # 0
    <3>1. Shaped(k)
      BY <1>1, WorldFacts
    <3>2. b \in Block
      BY <2>1, <3>1, FreshBlock
    <3>3. b \in Nat
      BY <3>2, BlockFacts
    <3> QED
      BY <3>3
  <2> HIDE DEF b
  <2>4. Serves(h, B, C, g, B \cup {b}, C \cup {b + 1}, {})
    BY <1>1, <2>2, ServesTrans
  <2>5. ~(DataLen(g, g.master_head) < size)
    BY <2>2, WholeData
  <2>6. Taken(h, B, C, g, B \cup {b}, C \cup {b + 1}, size)
    BY <2>2, <2>3, <2>4, <2>5 DEF Taken
  <2> QED
    BY <2>6 DEF g
<1> QED
  BY <1>4, <1>5

(* The chunk that is taken, then split, then marked.                       *)
TakeChunk(h, c, size) == Marked(CycleRecycler(SplitFreeChunk(h, c, size)), c, TRUE)

Given(h, B, C, g, D, E, c, size) ==
  /\ World(g, D, E) /\ Serves(h, B, C, g, D, E, {c})
  /\ c \in Users(g, D, E) /\ c \notin Users(h, B, C) /\ Units(size) <= Span(g, D, c)
  /\ B \subseteq D

LEMMA TakeChunkIs ==
  ASSUME NEW h, NEW B, NEW C, World(h, B, C), NEW m, NEW r, Good(h, B, C, m, r, 0),
         NEW c \in C, ~h.mem[c].used, c \in In(m) => c = h.master_head,
         NEW size \in Nat, ~(DataLen(h, c) < size)
  PROVE  \E D : Given(h, B, C, TakeChunk(h, c, size), B, D, c, size)
<1> DEFINE n == Units(size) + 1
           k == SplitFreeChunk(h, c, size)
           j == CycleRecycler(k)
           g == TakeChunk(h, c, size)
<1>1. Tiled(h.mem, C, B, 0)
  BY WorldFacts
<1>2. h.mem[c].len \in Nat /\ h.mem[c].len >= 1
  BY <1>1, ChunkIn
<1>3. /\ \E D : c \in D /\ Sound(k, B, D, c) /\ Step(h, C, k, D, B, 0)
      /\ ~k.mem[c].used
      /\ k.mem[c].len = IF h.mem[c].len < n + 2 THEN h.mem[c].len ELSE n
  BY SplitFreeIs
<1>4. Units(size) \in Nat /\ Units(size) <= h.mem[c].len - 1
  <2>1. AlignAmount \in Nat /\ h.mem[c].len - 1 \in Nat
    BY <1>2, Sizes
  <2>2. size <= (h.mem[c].len - 1) * AlignAmount
    <3>1. (h.mem[c].len - 1) * AlignAmount \in Nat
      BY <2>1
    <3> QED
      BY <3>1 DEF DataLen
  <2> QED
    BY <2>1, <2>2, UnitsFacts
<1>5. k.mem[c].len \in Nat /\ Units(size) <= k.mem[c].len - 1
  BY <1>2, <1>3, <1>4
<1>6. g = Marked(j, c, TRUE)
  BY DEF TakeChunk
<1> HIDE DEF n, k, j, g
<1>7. PICK D : c \in D /\ Sound(k, B, D, c) /\ Step(h, C, k, D, B, 0)
  BY <1>3
<1>8. Sound(j, B, D, c) /\ Step(k, D, j, D, B, 0) /\ j.mem[c] = k.mem[c]
  BY <1>7, CycleStep DEF j
<1>9. ~j.mem[c].used /\ j.mem[c].len = k.mem[c].len
  BY <1>3, <1>8
<1>10. Sound(g, B, D, 0) /\ Step(j, D, g, D, B, c) /\ g.mem[c].used /\ g.mem[c].len = k.mem[c].len
  BY <1>6, <1>7, <1>8, <1>9, UseIs
<1>11. 0 \notin C /\ 0 \notin D
  <2>1. Tiled(g.mem, D, B, 0)
    BY <1>10 DEF Sound, Good
  <2> QED
    BY <1>1, <2>1, ChunksNonZero DEF NonZero
<1>12. Step(h, C, g, D, B, c)
  <2>1. Step(h, C, k, D, B, c) /\ Step(k, D, j, D, B, c)
    BY <1>7, <1>8, <1>11, StepWeak
  <2>2. Step(h, C, j, D, B, c)
    BY <2>1, StepTrans
  <2> QED
    BY <1>10, <2>2, StepTrans
<1>13. World(g, B, D) /\ Serves(h, B, C, g, B, D, {c})
  BY <1>10, <1>12, WorldStep
<1>14. c \in Users(g, B, D)
  BY <1>7, <1>10 DEF Users
<1>15. c \notin Users(h, B, C)
  <2>1. c \in Users(h, B, C) => (Home(c) \in B => h.mem[c].used)
    BY UserFacts
  <2>2. Home(c) \in B
    BY <1>1, ChunkFacts
  <2> QED
    BY <2>1, <2>2
<1>16. Units(size) <= Span(g, B, c)
  <2>1. Home(c) \in B
    BY <1>1, ChunkFacts
  <2> QED
    BY <1>5, <1>10, <2>1 DEF Span
<1>17. Given(h, B, C, g, B, D, c, size)
  BY <1>13, <1>14, <1>15, <1>16 DEF Given
<1> QED
  BY <1>17 DEF g

LEMMA GivenFrom ==
  ASSUME NEW h, NEW B, NEW C, NEW k, NEW D, NEW E, Serves(h, B, C, k, D, E, {}), B \subseteq D,
         NEW g, NEW F, NEW G, NEW c, NEW size, Given(k, D, E, g, F, G, c, size)
  PROVE  Given(h, B, C, g, F, G, c, size)
<1>1. Serves(h, B, C, k, D, E, {c})
  BY ServesMore
<1>2. Serves(k, D, E, g, F, G, {c})
  BY DEF Given
<1>3. Serves(h, B, C, g, F, G, {c})
  BY <1>1, <1>2, ServesTrans
<1>4. c \notin Users(h, B, C)
  BY DEF Given, Serves
<1>5. B \subseteq F
  BY DEF Given
<1> QED
  BY <1>3, <1>4, <1>5 DEF Given

LEMMA AllocIs ==
  ASSUME NEW h, NEW B, NEW C, World(h, B, C), NEW size \in Size, Serviceable(h, size)
  PROVE  LET new == BlockAlloc(h, size)
         IN  \E D, E : Given(h, B, C, new.heap, D, E, new.ptr - 1, size) /\ new.ptr - 1 + 1 = new.ptr
                       /\ new.ptr \in Nat
<1> DEFINE new == BlockAlloc(h, size)
<1>1. size \in Nat /\ Units(size) <= SlotSize - 2
  BY SizeFacts
<1>2. MaxAllocSize \in Nat
  BY Sizes DEF MaxAllocSize
<1>3. Shaped(h)
  BY WorldFacts
<1>4. CASE size > MaxAllocSize
  <2> DEFINE b == Base(NewSlot(h))
             g == AllocJumbo(h)
  <2>1. new.heap = g /\ new.ptr = b + 2
    BY <1>4 DEF BlockAlloc
  <2>2. FreeSlots(h) # {}
    BY <1>1, <1>2, <1>4 DEF Serviceable
  <2>3. /\ World(g, B, C) /\ Serves(h, B, C, g, B, C, {b + 1})
        /\ b + 1 \in Users(g, B, C) /\ b + 1 \notin Users(h, B, C) /\ Span(g, B, b + 1) = SlotSize - 2
    BY <2>2, AllocJumboIs
  <2>4. b \in Nat
    BY <1>3, <2>2, FreshBlock, BlockFacts
  <2> HIDE DEF b, g, new
  <2>5. new.ptr - 1 = b + 1 /\ new.ptr - 1 + 1 = new.ptr /\ new.ptr \in Nat
    BY <2>1, <2>4
  <2>6. Given(h, B, C, g, B, C, b + 1, size)
    BY <1>1, <2>3 DEF Given
  <2>7. Given(h, B, C, new.heap, B, C, new.ptr - 1, size)
    BY <2>1, <2>5, <2>6
  <2> QED
    BY <2>5, <2>7 DEF new
<1>5. CASE ~(size > MaxAllocSize)
  <2>1. size <= MaxAllocSize
    BY <1>1, <1>2, <1>5
  <2> DEFINE k == IF FromRecycler(h, size) THEN h ELSE WithMaster(h, size)
             c == IF FromRecycler(h, size) THEN h.recycler_head ELSE k.master_head
  <2>2. new.heap = TakeChunk(k, c, size) /\ new.ptr = c + 1
    BY <1>5 DEF BlockAlloc, TakeChunk, Marked
  <2>3. CASE FromRecycler(h, size)
    <3>1. k = h /\ c = h.recycler_head
      BY <2>3
    <3>2. PICK m, r : Good(h, B, C, m, r, 0)
      BY DEF World, Sound
    <3>3. h.recycler_head # 0 /\ DataLen(h, h.recycler_head) >= size
      BY <2>3 DEF FromRecycler, Null
    <3>4. h.recycler_head \in C /\ ~h.mem[h.recycler_head].used /\ h.recycler_head \notin In(m)
      BY <3>2, <3>3, HeadIs
    <3>5. ~(DataLen(h, h.recycler_head) < size) /\ h.recycler_head \in Nat
      <4>1. Tiled(h.mem, C, B, 0)
        BY WorldFacts
      <4>2. h.mem[h.recycler_head].len \in Nat /\ h.recycler_head \in Nat /\ AlignAmount \in Nat
        BY <3>4, <4>1, ChunkIn, Sizes
      <4>3. DataLen(h, h.recycler_head) \in Int
        BY <4>2 DEF DataLen
      <4> QED
        BY <1>1, <3>3, <4>2, <4>3
    <3>6. PICK D : Given(h, B, C, TakeChunk(h, h.recycler_head, size), B, D, h.recycler_head, size)
      BY <1>1, <3>2, <3>4, <3>5, TakeChunkIs
    <3> HIDE DEF k, c, new
    <3>7. new.ptr - 1 = h.recycler_head /\ new.ptr - 1 + 1 = new.ptr /\ new.ptr \in Nat
      BY <2>2, <3>1, <3>5
    <3>8. Given(h, B, C, new.heap, B, D, new.ptr - 1, size)
      BY <2>2, <3>1, <3>6, <3>7
    <3> QED
      BY <3>7, <3>8 DEF new
  <2>4. CASE ~FromRecycler(h, size)
    <3>1. k = WithMaster(h, size) /\ c = k.master_head
      BY <2>4
    <3>2. FreeSlots(h) # {} \/ RecycleMaster(h, size).master_head # Null
      BY <2>4 DEF Serviceable
    <3>3. PICK D, E : Taken(h, B, C, WithMaster(h, size), D, E, size)
      BY <1>1, <2>1, <3>2, WithMasterIs
    <3> HIDE DEF k, c, new
    <3>4. /\ World(k, D, E) /\ Serves(h, B, C, k, D, E, {})
          /\ k.master_head # 0 /\ ~(DataLen(k, k.master_head) < size) /\ B \subseteq D
      BY <3>1, <3>3 DEF Taken
    <3>5. PICK m, r : Good(k, D, E, m, r, 0)
      BY <3>4 DEF World, Sound
    <3>6. c \in E /\ ~k.mem[c].used
      BY <3>1, <3>4, <3>5, HeadIs
    <3>7. PICK F : Given(k, D, E, TakeChunk(k, c, size), D, F, c, size)
      BY <1>1, <3>1, <3>4, <3>5, <3>6, TakeChunkIs
    <3>8. Given(h, B, C, new.heap, D, F, c, size)
      BY <2>2, <3>4, <3>7, GivenFrom
    <3>9. c \in Nat
      <4>1. Tiled(k.mem, E, D, 0)
        BY <3>4, WorldFacts
      <4> QED
        BY <3>6, <4>1, ChunkIn
    <3>10. new.ptr - 1 = c /\ new.ptr - 1 + 1 = new.ptr /\ new.ptr \in Nat
      BY <2>2, <3>9
    <3> QED
      BY <3>8, <3>10 DEF new
  <2> QED
    BY <2>3, <2>4
<1> QED
  BY <1>4, <1>5

-----------------------------------------------------------------------------
(***************************************************************************)
(* wmem_block_free.                                                        *)
(***************************************************************************)
LEMMA UserJumbo ==
  ASSUME NEW h, NEW B, NEW C, World(h, B, C), NEW c \in Users(h, B, C)
  PROVE  /\ h.mem[c].used
         /\ h.mem[c].jumbo <=> Home(c) \notin B
         /\ Home(c) \notin B => c - 1 = Home(c) /\ Home(c) \in Blocks(h) \ B /\ Home(c) + 1 = c
<1>1. CASE Home(c) \in B
  <2>1. c \in C /\ h.mem[c].used
    BY <1>1, UserFacts
  <2>2. Tiled(h.mem, C, B, 0)
    BY WorldFacts
  <2>3. IsChunk(h.mem, c)
    BY <2>1, <2>2, ChunkIn
  <2>4. ~h.mem[c].jumbo
    BY <2>3 DEF IsChunk, Chunk
  <2> QED
    BY <1>1, <2>1, <2>4
<1>2. CASE Home(c) \notin B
  <2>1. c = Home(c) + 1 /\ Big(h.mem[c]) /\ Home(c) \in Blocks(h)
    BY <1>2, UserFacts
  <2>2. Home(c) \in Nat
    BY <2>1, WorldFacts, HomeFacts
  <2>3. h.mem[c].used /\ h.mem[c].jumbo
    BY <2>1 DEF Big, Chunk
  <2>4. c - 1 = Home(c)
    BY <2>1, <2>2
  <2> QED
    BY <1>2, <2>1, <2>3, <2>4
<1> QED
  BY <1>1, <1>2

Freed(h, B, C, g, D, E, c) ==
  World(g, D, E) /\ Serves(h, B, C, g, D, E, {c}) /\ c \notin Users(g, D, E)

Unmarked(h, c) == [h EXCEPT !.mem[c].used = FALSE]

LEMMA FreeSmall ==
  ASSUME NEW h, NEW p, NEW c, p - 1 = c, ~h.mem[c].jumbo
  PROVE  BlockFree(h, p) = CycleRecycler(MergeFree(Unmarked(h, c), c))
<1>1. BlockFree(h, p) = IF h.mem[p - 1].jumbo THEN FreeJumbo(h, p - 1)
                        ELSE CycleRecycler(MergeFree(Unmarked(h, p - 1), p - 1))
  BY DEF BlockFree, Unmarked
<1> QED
  BY <1>1

LEMMA FreeIs ==
  ASSUME NEW h, NEW B, NEW C, World(h, B, C), NEW c \in Users(h, B, C)
  PROVE  \E E : Freed(h, B, C, BlockFree(h, c + 1), B, E, c)
<1> DEFINE g == BlockFree(h, c + 1)
<1>1. c \in Nat /\ c + 1 - 1 = c
  <2>1. c \in Nat
    BY UserFacts
  <2> QED
    BY <2>1
<1>2. h.mem[c].used /\ (h.mem[c].jumbo <=> Home(c) \notin B)
  BY UserJumbo
<1>3. CASE h.mem[c].jumbo
  <2>1. c - 1 = Home(c) /\ Home(c) \in Blocks(h) \ B /\ Home(c) + 1 = c
    BY <1>2, <1>3, UserJumbo
  <2>2. g = OsFree(RemoveFromBlockList(h, c - 1), c - 1)
    BY <1>1, <1>3 DEF BlockFree, FreeJumbo
  <2> DEFINE b == Home(c)
  <2>3. b \in Blocks(h) \ B /\ b + 1 = c /\ g = OsFree(RemoveFromBlockList(h, b), b)
    BY <2>1, <2>2
  <2> HIDE DEF b, g
  <2>4. World(g, B, C) /\ Serves(h, B, C, g, B, C, {c}) /\ c \notin Users(g, B, C)
    BY <2>3, FreeJumboIs
  <2>5. Freed(h, B, C, g, B, C, c)
    BY <2>4 DEF Freed
  <2> QED
    BY <2>5 DEF g
<1>4. CASE ~h.mem[c].jumbo
  <2>1. Home(c) \in B
    BY <1>2, <1>4
  <2>2. c \in C /\ c # 0
    BY <2>1, UserFacts
  <2> DEFINE k == Marked(h, c, FALSE)
             j == MergeFree(k, c)
  <2>3. g = CycleRecycler(j)
    <3>1. Unmarked(h, c) = k
      BY DEF Unmarked, Marked
    <3>2. \E p : p = c + 1 /\ p - 1 = c
      BY <1>1
    <3> HIDE DEF k
    <3>3. PICK p : p = c + 1 /\ p - 1 = c
      BY <3>2
    <3>4. BlockFree(h, p) = CycleRecycler(MergeFree(Unmarked(h, c), c))
      BY <1>4, <3>3, FreeSmall
    <3> QED
      BY <3>1, <3>3, <3>4
  <2>4. Sound(h, B, C, 0)
    BY DEF World
  <2>5. Sound(k, B, C, c) /\ Step(h, C, k, C, B, c) /\ ~k.mem[c].used
    BY <1>2, <2>2, <2>4, UnuseIs
  <2> HIDE DEF k, j, g
  <2>6. PICK D : Sound(j, B, D, 0) /\ Step(k, C, j, D, B, 0)
    BY <2>2, <2>5, MergeIs DEF j
  <2>7. Sound(g, B, D, 0) /\ Step(j, D, g, D, B, 0)
    BY <2>3, <2>6, CycleStep
  <2>8. 0 \notin C /\ 0 \notin D
    <3>1. Tiled(j.mem, D, B, 0) /\ Tiled(h.mem, C, B, 0)
      BY <2>4, <2>6 DEF Sound, Good
    <3> QED
      BY <3>1, ChunksNonZero DEF NonZero
  <2>9. Step(h, C, g, D, B, c)
    <3>1. Step(k, C, j, D, B, c) /\ Step(j, D, g, D, B, c)
      BY <2>6, <2>7, <2>8, StepWeak
    <3>2. Step(h, C, j, D, B, c)
      BY <2>5, <3>1, StepTrans
    <3> QED
      BY <3>1, <3>2, StepTrans
  <2>10. World(g, B, D) /\ Serves(h, B, C, g, B, D, {c})
    BY <2>7, <2>9, WorldStep
  <2>11. c \notin Users(g, B, D)
    <3>1. SUFFICES ASSUME c \in Users(g, B, D) PROVE FALSE
      OBVIOUS
    <3>2. c \in D /\ g.mem[c].used
      BY <2>1, <2>10, <3>1, UserFacts
    <3>3. c \in D /\ j.mem[c].used
      BY <2>2, <2>7, <3>2 DEF Step, Kept
    <3>4. k.mem[c].used
      BY <2>2, <2>6, <3>3 DEF Step, Kept
    <3> QED
      BY <2>5, <3>4
  <2>12. Freed(h, B, C, g, B, D, c)
    BY <2>10, <2>11 DEF Freed
  <2> QED
    BY <2>12 DEF g
<1> QED
  BY <1>3, <1>4

-----------------------------------------------------------------------------
(***************************************************************************)
(* wmem_block_realloc: what a realloc of the chunk at c to size leaves, d  *)
(* being the chunk it results in.                                          *)
(***************************************************************************)
Copied(h, g, c, d, n) == \A u \in 0 .. n - 1 : g.mem[d + 1 + u] = h.mem[c + 1 + u]

Resized(h, B, C, g, D, E, c, d, size) ==
  /\ World(g, D, E) /\ Serves(h, B, C, g, D, E, {c, d})
  /\ d \in Users(g, D, E) /\ Units(size) <= Span(g, D, d)
  /\ c # d => c \notin Users(g, D, E) /\ d \notin Users(h, B, C)
  /\ \A n \in Nat : n <= Units(size) /\ n <= Span(h, B, c) => Copied(h, g, c, d, n)

LEMMA CopyIs ==
  ASSUME NEW h, Shaped(h), NEW d \in Nat, NEW c \in Nat, NEW n \in Nat,
         \A u \in 0 .. n - 1 : d + 1 + u \in Address
  PROVE  LET g == CopyUnits(h, d + 1, c + 1, n)
         IN  HeadsKept(h, g) /\ Copied(h, g, c, d, n)
             /\ \A a \in Address : a \notin d + 1 .. d + n => g.mem[a] = h.mem[a]
<1> DEFINE g == CopyUnits(h, d + 1, c + 1, n)
           f == [a \in Address |-> IF a \in d + 1 .. d + 1 + n - 1 THEN h.mem[a - (d + 1) + (c + 1)] ELSE h.mem[a]]
<1>1. g = [h EXCEPT !.mem = f]
  BY DEF CopyUnits
<1>2. \A a \in Address : f[a] = IF a \in d + 1 .. d + 1 + n - 1 THEN h.mem[a - (d + 1) + (c + 1)] ELSE h.mem[a]
  OBVIOUS
<1>3. f = [a \in Address |-> f[a]]
  OBVIOUS
<1> HIDE DEF f, g
<1>4. HeadsKept(h, g) /\ g.mem = f
  BY <1>1, <1>3 DEF HeadsKept, Shaped
<1>5. Copied(h, g, c, d, n)
  <2>1. ASSUME NEW u \in 0 .. n - 1 PROVE g.mem[d + 1 + u] = h.mem[c + 1 + u]
    <3>1. d + 1 + u \in Address /\ d + 1 + u \in d + 1 .. d + 1 + n - 1
      OBVIOUS
    <3>2. d + 1 + u - (d + 1) + (c + 1) = c + 1 + u
      OBVIOUS
    <3>3. g.mem[d + 1 + u] = h.mem[d + 1 + u - (d + 1) + (c + 1)]
      BY <1>2, <1>4, <3>1
    <3> QED
      BY <3>2, <3>3
  <2> QED
    BY <2>1 DEF Copied
<1>6. ASSUME NEW a \in Address, a \notin d + 1 .. d + n PROVE g.mem[a] = h.mem[a]
  <2>1. d + 1 + n - 1 = d + n
    OBVIOUS
  <2> QED
    BY <1>2, <1>4, <1>6, <2>1
<1> QED
  BY <1>4, <1>5, <1>6 DEF g

LEMMA CopiedLess ==
  ASSUME NEW h, NEW g, NEW c, NEW d, NEW n \in Nat, Copied(h, g, c, d, n), NEW k \in Nat, k <= n
  PROVE  Copied(h, g, c, d, k)
<1>1. \A u \in 0 .. k - 1 : u \in 0 .. n - 1
  OBVIOUS
<1> QED
  BY <1>1 DEF Copied

LEMMA CopiedTrans ==
  ASSUME NEW h, NEW j, NEW g, NEW c, NEW d, NEW e, NEW n, Copied(h, j, c, d, n), Copied(j, g, d, e, n)
  PROVE  Copied(h, g, c, e, n)
BY DEF Copied

(* What is untouched is copied onto itself.                                *)
LEMMA UntouchedCopied ==
  ASSUME NEW h, NEW B, NEW C, World(h, B, C), NEW c \in Users(h, B, C), NEW g, NEW D, Untouched(h, B, g, D, c),
         NEW n \in Nat, n <= Span(h, B, c)
  PROVE  Copied(h, g, c, c, n)
<1>1. c \in Nat /\ Span(h, B, c) \in Nat
  BY UserFacts
<1> DEFINE s == Span(h, B, c)
<1>2. ASSUME NEW u \in 0 .. n - 1 PROVE c + 1 + u \in c + 1 .. c + s
  <2> HIDE DEF s
  <2>1. s \in Nat /\ n <= s
    BY <1>1 DEF s
  <2> QED
    BY <1>1, <2>1
<1> QED
  BY <1>2 DEF Copied, Untouched, Cells

LEMMA UserAddress ==
  ASSUME NEW h, NEW B, NEW C, World(h, B, C), NEW c \in Users(h, B, C), NEW n \in Nat, n <= Span(h, B, c)
  PROVE  /\ \A u \in 0 .. n - 1 : c + 1 + u \in Address
         /\ \A a \in c + 1 .. c + n : a \in Cells(h, B, c)
<1>1. c \in Nat /\ Span(h, B, c) \in Nat /\ \A a \in Cells(h, B, c) : a \in Address
  BY UserFacts
<1> DEFINE s == Span(h, B, c)
<1>2. s \in Nat /\ n <= s
  BY <1>1
<1>3. Cells(h, B, c) = c + 1 .. c + s
  BY DEF Cells
<1> HIDE DEF s
<1>4. ASSUME NEW u \in 0 .. n - 1 PROVE c + 1 + u \in c + 1 .. c + s
  BY <1>1, <1>2
<1>5. ASSUME NEW a \in c + 1 .. c + n PROVE a \in c + 1 .. c + s
  BY <1>1, <1>2
<1> QED
  BY <1>1, <1>3, <1>4, <1>5

LEMMA CopyOver ==
  ASSUME NEW h, NEW B, NEW C, World(h, B, C), NEW c \in Users(h, B, C), NEW d \in Users(h, B, C),
         NEW n \in Nat, n <= Span(h, B, d)
  PROVE  LET g == CopyUnits(h, d + 1, c + 1, n)
         IN  /\ World(g, B, C) /\ Serves(h, B, C, g, B, C, {d}) /\ d \in Users(g, B, C)
             /\ Span(g, B, d) = Span(h, B, d) /\ Copied(h, g, c, d, n)
<1> DEFINE g == CopyUnits(h, d + 1, c + 1, n)
<1>1. Shaped(h)
  BY WorldFacts
<1>2. c \in Nat /\ d \in Nat
  BY UserFacts
<1>3. (\A u \in 0 .. n - 1 : d + 1 + u \in Address) /\ \A a \in d + 1 .. d + n : a \in Cells(h, B, d)
  BY UserAddress
<1>4. HeadsKept(h, g) /\ Copied(h, g, c, d, n)
      /\ \A a \in Address : a \notin d + 1 .. d + n => g.mem[a] = h.mem[a]
  BY <1>1, <1>2, <1>3, CopyIs
<1> HIDE DEF g
<1>5. WroteOnly(h, g, Cells(h, B, d))
  BY <1>3, <1>4 DEF WroteOnly
<1>6. /\ World(g, B, C) /\ Serves(h, B, C, g, B, C, {d}) /\ d \in Users(g, B, C)
      /\ Span(g, B, d) = Span(h, B, d)
  BY <1>5, WriteIs
<1> QED
  BY <1>4, <1>6 DEF g

(* All of what the chunk at c holds fits in less than size.                *)
LEMMA SpanLess ==
  ASSUME NEW h, NEW B, NEW C, World(h, B, C), NEW c \in Users(h, B, C), Home(c) \in B,
         NEW size \in Nat, size > DataLen(h, c)
  PROVE  Span(h, B, c) \in Nat /\ Span(h, B, c) <= Units(size) /\ Span(h, B, c) = h.mem[c].len - 1
<1>1. Span(h, B, c) \in Nat /\ h.mem[c].len - 1 = Span(h, B, c)
  BY UserFacts
<1> DEFINE s == Span(h, B, c)
<1>2. size > s * AlignAmount
  BY <1>1 DEF DataLen
<1>3. s \in Nat /\ AlignAmount \in Nat
  BY <1>1, Sizes
<1> HIDE DEF s
<1>4. ~(size <= s * AlignAmount)
  <2>1. s * AlignAmount \in Nat
    BY <1>3
  <2> QED
    BY <1>2, <2>1
<1>5. ~(Units(size) <= s) /\ Units(size) \in Nat
  BY <1>3, <1>4, UnitsFacts
<1>6. s <= Units(size)
  BY <1>3, <1>5
<1> QED
  BY <1>1, <1>6 DEF s

LEMMA MoveFold ==
  ASSUME NEW h, NEW p, NEW c, p - 1 = c, NEW size
  PROVE  LET new == BlockAlloc(h, size)
         IN  MoveAllocation(h, p, size)
                = [heap |-> BlockFree(CopyUnits(new.heap, new.ptr, p, new.heap.mem[c].len - 1), p), ptr |-> new.ptr]
BY DEF MoveAllocation

LEMMA MoveIs ==
  ASSUME NEW h, NEW B, NEW C, World(h, B, C), NEW c \in Users(h, B, C), Home(c) \in B,
         NEW size \in Size, size > DataLen(h, c), Serviceable(h, size)
  PROVE  LET new == MoveAllocation(h, c + 1, size)
         IN  \E D, E : Resized(h, B, C, new.heap, D, E, c, new.ptr - 1, size) /\ new.ptr - 1 + 1 = new.ptr
                       /\ new.ptr \in Nat
<1> DEFINE new == BlockAlloc(h, size)
           a == new.heap
           d == new.ptr - 1
           s == Span(h, B, c)
           k == CopyUnits(a, d + 1, c + 1, s)
           g == BlockFree(k, c + 1)
           all == MoveAllocation(h, c + 1, size)
<1>1. size \in Nat
  BY SizeFacts
<1>2. s \in Nat /\ s <= Units(size) /\ Units(size) \in Nat
  BY <1>1, SpanLess, UnitsFacts
<1>3. PICK D, E : Given(h, B, C, a, D, E, d, size) /\ d + 1 = new.ptr /\ new.ptr \in Nat
  BY AllocIs
<1>4. c \in Nat /\ c + 1 - 1 = c
  <2>1. c \in Nat
    BY UserFacts
  <2> QED
    BY <2>1
<1>5. a.mem[c].len - 1 = s /\ c \in Users(a, D, E) /\ Untouched(h, B, a, D, c) /\ c # d
  <2>1. c \in Users(a, D, E) /\ Untouched(h, B, a, D, c) /\ c # d /\ Home(c) \in D /\ World(a, D, E)
    BY <1>3 DEF Given, Serves
  <2>2. a.mem[c].len - 1 = Span(a, D, c)
    BY <2>1, UserFacts
  <2> QED
    BY <2>1, <2>2 DEF Untouched
<1>6. all.heap = g /\ all.ptr = new.ptr
  <2>1. \E p : p = c + 1 /\ p - 1 = c
    BY <1>4
  <2>2. PICK p : p = c + 1 /\ p - 1 = c
    BY <2>1
  <2>3. MoveAllocation(h, p, size) = [heap |-> BlockFree(CopyUnits(a, new.ptr, p, a.mem[c].len - 1), p), ptr |-> new.ptr]
    BY <2>2, MoveFold
  <2> HIDE DEF new, s, a
  <2>4. all = [heap |-> BlockFree(CopyUnits(a, d + 1, c + 1, s), c + 1), ptr |-> new.ptr]
    BY <1>3, <1>5, <2>2, <2>3
  <2> HIDE DEF all
  <2> QED
    BY <2>4
<1> HIDE DEF new, d, s, all
<1>7. World(a, D, E) /\ Serves(h, B, C, a, D, E, {d}) /\ d \in Users(a, D, E) /\ d \notin Users(h, B, C)
      /\ Units(size) <= Span(a, D, d)
  BY <1>3 DEF Given
<1>8. s <= Span(a, D, d)
  <2>1. Span(a, D, d) \in Nat
    BY <1>7, UserFacts
  <2> QED
    BY <1>2, <1>7, <2>1
<1>9. /\ World(k, D, E) /\ Serves(a, D, E, k, D, E, {d}) /\ d \in Users(k, D, E)
      /\ Span(k, D, d) = Span(a, D, d) /\ Copied(a, k, c, d, s)
  BY <1>2, <1>5, <1>7, <1>8, CopyOver
<1> HIDE DEF k, a
<1>10. c \in Users(k, D, E)
  BY <1>5, <1>9 DEF Serves
<1>11. PICK F : Freed(k, D, E, g, D, F, c)
  BY <1>9, <1>10, FreeIs
<1> HIDE DEF g
<1>12. World(g, D, F) /\ Serves(k, D, E, g, D, F, {c}) /\ c \notin Users(g, D, F)
  BY <1>11 DEF Freed
<1>13. d \in Users(g, D, F) /\ Untouched(k, D, g, D, d)
  BY <1>5, <1>9, <1>12 DEF Serves
<1>14. Serves(h, B, C, g, D, F, {c, d})
  <2>1. {d} \subseteq {c, d} /\ {c} \subseteq {c, d}
    OBVIOUS
  <2>2. Serves(h, B, C, a, D, E, {c, d})
    BY <1>7, <2>1, ServesMore
  <2>3. Serves(a, D, E, k, D, E, {c, d})
    BY <1>9, <2>1, ServesMore
  <2>4. Serves(k, D, E, g, D, F, {c, d})
    BY <1>12, <2>1, ServesMore
  <2>5. Serves(h, B, C, k, D, E, {c, d})
    BY <2>2, <2>3, ServesTrans
  <2> QED
    BY <2>4, <2>5, ServesTrans
<1>15. Copied(h, g, c, d, s)
  <2>1. Copied(h, a, c, c, s)
    BY <1>2, <1>5, UntouchedCopied DEF s
  <2>2. s <= Span(k, D, d)
    BY <1>8, <1>9
  <2>3. Copied(k, g, d, d, s)
    BY <1>2, <1>9, <1>13, <2>2, UntouchedCopied
  <2>4. Copied(h, k, c, d, s)
    BY <1>9, <2>1, CopiedTrans
  <2> QED
    BY <2>3, <2>4, CopiedTrans
<1>16. \A n \in Nat : n <= Units(size) /\ n <= Span(h, B, c) => Copied(h, g, c, d, n)
  <2>1. ASSUME NEW n \in Nat, n <= s PROVE Copied(h, g, c, d, n)
    BY <1>2, <1>15, <2>1, CopiedLess
  <2> QED
    BY <2>1 DEF s
<1>17. Units(size) <= Span(g, D, d)
  BY <1>7, <1>9, <1>13 DEF Untouched
<1>18. Resized(h, B, C, g, D, F, c, d, size)
  BY <1>7, <1>12, <1>13, <1>14, <1>16, <1>17 DEF Resized
<1>19. Resized(h, B, C, all.heap, D, F, c, all.ptr - 1, size) /\ all.ptr - 1 + 1 = all.ptr
  BY <1>3, <1>6, <1>18 DEF d
<1>20. all.ptr \in Nat
  BY <1>3, <1>6
<1> QED
  BY <1>19, <1>20 DEF all

LEMMA ResizedInPlace ==
  ASSUME NEW h, NEW B, NEW C, World(h, B, C), NEW c \in Users(h, B, C), Home(c) \in B, NEW g, NEW D,
         Sound(g, B, D, 0), Step(h, C, g, D, B, c), c \in D, NEW N \in Nat, Remains(h, g, c, N + 1),
         NEW size, Units(size) \in Nat, Units(size) <= N
  PROVE  Resized(h, B, C, g, B, D, c, c, size)
<1>1. World(g, B, D) /\ Serves(h, B, C, g, B, D, {c})
  BY WorldStep
<1>2. c \in Users(g, B, D)
  BY DEF Remains, Users
<1>3. Units(size) <= Span(g, B, c)
  BY DEF Remains, Span
<1>4. ASSUME NEW n \in Nat, n <= Units(size) PROVE Copied(h, g, c, c, n)
  <2>1. c \in Nat
    BY UserFacts
  <2>2. n <= N
    BY <1>4
  <2>3. ASSUME NEW u \in 0 .. n - 1 PROVE c + 1 + u \in c + 1 .. c + (N + 1) - 1
    BY <2>1, <2>2
  <2> QED
    BY <2>3 DEF Copied, Remains
<1>5. {c, c} = {c}
  OBVIOUS
<1> QED
  BY <1>1, <1>2, <1>3, <1>4, <1>5 DEF Resized

LEMMA ReallocFold ==
  ASSUME NEW h, NEW p, NEW c, p - 1 = c, NEW size
  PROVE  /\ BlockRealloc(h, p, size) =
              IF size > DataLen(h, c)
              THEN IF CanGrow(h, c, size)
                   THEN [heap |-> GrowInPlace(h, c, size), ptr |-> p]
                   ELSE MoveAllocation(h, p, size)
              ELSE IF size < DataLen(h, c)
              THEN [heap |-> CycleRecycler(SplitUsedChunk(h, c, size)), ptr |-> p]
              ELSE [heap |-> h, ptr |-> p]
         /\ ReallocServiceable(h, p, size) <=>
              (size > DataLen(h, c) => CanGrow(h, c, size) \/ Serviceable(h, size))
<1>1. BlockRealloc(h, p, size) =
              IF size > DataLen(h, p - 1)
              THEN IF CanGrow(h, p - 1, size)
                   THEN [heap |-> GrowInPlace(h, p - 1, size), ptr |-> p]
                   ELSE MoveAllocation(h, p, size)
              ELSE IF size < DataLen(h, p - 1)
              THEN [heap |-> CycleRecycler(SplitUsedChunk(h, p - 1, size)), ptr |-> p]
              ELSE [heap |-> h, ptr |-> p]
  BY DEF BlockRealloc
<1>2. ReallocServiceable(h, p, size) <=>
              (size > DataLen(h, p - 1) => CanGrow(h, p - 1, size) \/ Serviceable(h, size))
  BY DEF ReallocServiceable
<1> QED
  BY <1>1, <1>2

(* The chunk shrinks, or stays as long as it was.                          *)
LEMMA ShrinkIs ==
  ASSUME NEW h, NEW B, NEW C, World(h, B, C), NEW c \in Users(h, B, C), Home(c) \in B,
         NEW size \in Size, ~(size > DataLen(h, c))
  PROVE  /\ \E D : Resized(h, B, C, CycleRecycler(SplitUsedChunk(h, c, size)), B, D, c, c, size)
         /\ \E D : Resized(h, B, C, h, B, D, c, c, size)
<1> DEFINE s == h.mem[c].len - 1
           n == Units(size) + 1
           k == SplitUsedChunk(h, c, size)
           g == CycleRecycler(k)
<1>1. /\ c \in C /\ h.mem[c].used /\ c # 0 /\ Tiled(h.mem, C, B, 0)
  BY UserFacts, WorldFacts
<1>2. h.mem[c].len \in Nat /\ h.mem[c].len >= 1 /\ End(h.mem, c) = c + h.mem[c].len /\ c \in Nat
  BY <1>1, ChunkIn
<1>3. s \in Nat /\ s + 1 = h.mem[c].len
  BY <1>2
<1>4. size \in Nat /\ Units(size) \in Nat
  BY SizeFacts
<1>5. Sound(h, B, C, 0) /\ Shaped(h)
  BY WorldFacts DEF World
<1>6. Units(size) <= s
  <2>1. AlignAmount \in Nat
    BY Sizes
  <2>2. DataLen(h, c) = s * AlignAmount
    BY DEF DataLen
  <2> HIDE DEF s
  <2>3. s * AlignAmount \in Nat
    BY <1>3, <2>1
  <2>4. size <= s * AlignAmount
    BY <1>4, <2>2, <2>3
  <2> QED
    BY <1>3, <1>4, <2>4, UnitsFacts
<1>7. PICK D : /\ Sound(k, B, D, 0) /\ Step(h, C, k, D, B, c) /\ c \in D
               /\ Remains(h, k, c, IF n > h.mem[c].len - 1 THEN h.mem[c].len ELSE n)
  BY <1>1, <1>4, <1>5, SplitUsedIs
<1> HIDE DEF k
<1>8. \E N \in Nat : Remains(h, k, c, N + 1) /\ Units(size) <= N
  <2>1. CASE n > h.mem[c].len - 1
    <3>1. Remains(h, k, c, h.mem[c].len)
      BY <1>7, <2>1
    <3>2. Remains(h, k, c, s + 1)
      BY <1>3, <3>1
    <3> QED
      BY <1>3, <1>6, <3>2
  <2>2. CASE ~(n > h.mem[c].len - 1)
    <3>1. Remains(h, k, c, Units(size) + 1)
      BY <1>7, <2>2
    <3> QED
      BY <1>4, <3>1
  <2> QED
    BY <2>1, <2>2
<1> HIDE DEF n, s, g
<1>9. PICK N \in Nat : Remains(h, k, c, N + 1) /\ Units(size) <= N
  BY <1>8
<1>10. Sound(g, B, D, 0) /\ Step(k, D, g, D, B, 0)
  BY <1>7, CycleStep DEF g
<1>11. Step(h, C, g, D, B, c)
  <2>1. 0 \notin D
    <3>1. Tiled(k.mem, D, B, 0)
      BY <1>7 DEF Sound, Good
    <3> QED
      BY <3>1, ChunksNonZero DEF NonZero
  <2>2. Step(k, D, g, D, B, c)
    BY <1>10, <2>1, StepWeak
  <2> QED
    BY <1>7, <2>2, StepTrans
<1>12. Remains(h, g, c, N + 1)
  <2>1. k.mem[c].used /\ k.mem[c].len = N + 1 /\ \A a \in c + 1 .. c + (N + 1) - 1 : k.mem[a] = h.mem[a]
    BY <1>9 DEF Remains
  <2>2. Same(k, g, c)
    BY <1>1, <1>7, <1>10, <2>1 DEF Step, Kept
  <2>3. End(k.mem, c) = c + (N + 1)
    BY <2>1 DEF End
  <2>4. g.mem[c].used /\ g.mem[c].len = N + 1 /\ \A a \in c + 1 .. c + (N + 1) - 1 : g.mem[a] = k.mem[a]
    <3>1. g.mem[c].used /\ g.mem[c].len = k.mem[c].len
      BY <2>2 DEF Same
    <3>2. \A a \in c + 1 .. End(k.mem, c) - 1 : g.mem[a] = k.mem[a]
      BY <2>2 DEF Same
    <3>3. c + 1 .. End(k.mem, c) - 1 = c + 1 .. c + (N + 1) - 1
      BY <1>2, <2>3
    <3>4. \A a \in c + 1 .. c + (N + 1) - 1 : g.mem[a] = k.mem[a]
      BY <3>2, <3>3
    <3> QED
      BY <2>1, <3>1, <3>4
  <2> QED
    BY <2>1, <2>4 DEF Remains
<1>13. Resized(h, B, C, g, B, D, c, c, size)
  BY <1>4, <1>7, <1>9, <1>10, <1>11, <1>12, ResizedInPlace
<1>14. Resized(h, B, C, h, B, C, c, c, size)
  <2>1. Step(h, C, h, C, B, c)
    BY <1>5, StepNone
  <2>2. Remains(h, h, c, s + 1)
    BY <1>1, <1>3 DEF Remains
  <2> QED
    BY <1>1, <1>3, <1>4, <1>5, <1>6, <2>1, <2>2, ResizedInPlace
<1> QED
  BY <1>13, <1>14 DEF g, k

LEMMA GrownIs ==
  ASSUME NEW h, NEW B, NEW C, World(h, B, C), NEW c \in Users(h, B, C), Home(c) \in B,
         NEW size \in Size, size > DataLen(h, c), CanGrow(h, c, size)
  PROVE  \E D : Resized(h, B, C, GrowInPlace(h, c, size), B, D, c, c, size)
<1> DEFINE g == GrowInPlace(h, c, size)
<1>1. /\ c \in C /\ h.mem[c].used /\ c # 0 /\ Tiled(h.mem, C, B, 0)
  BY UserFacts, WorldFacts
<1>2. size \in Nat /\ Units(size) \in Nat /\ Sound(h, B, C, 0)
  BY SizeFacts DEF World
<1>3. PICK D : /\ Sound(g, B, D, 0) /\ Step(h, C, g, D, B, c) /\ c \in D
               /\ Enlarged(h, g, c, size)
  BY <1>1, <1>2, GrowIs
<1> HIDE DEF g
<1>4. World(g, B, D) /\ Serves(h, B, C, g, B, D, {c})
  BY <1>3, WorldStep
<1>5. c \in Users(g, B, D) /\ Units(size) <= Span(g, B, c)
  BY <1>3 DEF Enlarged, Users, Span
<1>6. ASSUME NEW n \in Nat, n <= Span(h, B, c) PROVE Copied(h, g, c, c, n)
  <2>1. c \in Nat /\ h.mem[c].len \in Nat /\ End(h.mem, c) = c + h.mem[c].len
    BY <1>1, ChunkIn
  <2>2. n <= h.mem[c].len - 1
    BY <1>6 DEF Span
  <2>3. ASSUME NEW u \in 0 .. n - 1 PROVE c + 1 + u \in c + 1 .. End(h.mem, c) - 1
    BY <2>1, <2>2
  <2> QED
    BY <1>3, <2>3 DEF Copied, Enlarged
<1>7. {c, c} = {c}
  OBVIOUS
<1>8. Resized(h, B, C, g, B, D, c, c, size)
  BY <1>4, <1>5, <1>6, <1>7 DEF Resized
<1> QED
  BY <1>8 DEF g

LEMMA ReallocIs ==
  ASSUME NEW h, NEW B, NEW C, World(h, B, C), NEW c \in Users(h, B, C), Home(c) \in B,
         NEW size \in Size, NEW p \in Nat, p - 1 = c, ReallocServiceable(h, p, size)
  PROVE  LET new == BlockRealloc(h, p, size)
         IN  \E D, E : Resized(h, B, C, new.heap, D, E, c, new.ptr - 1, size) /\ new.ptr - 1 + 1 = new.ptr
                       /\ new.ptr \in Nat
<1> DEFINE new == BlockRealloc(h, p, size)
<1>1. p = c + 1 /\ p - 1 + 1 = p /\ c \in Nat
  <2>1. c \in Nat
    BY UserFacts
  <2> QED
    BY <2>1
<1>2. CASE size > DataLen(h, c) /\ CanGrow(h, c, size)
  <2>1. new = [heap |-> GrowInPlace(h, c, size), ptr |-> p]
    BY <1>2, ReallocFold
  <2>2. PICK D : Resized(h, B, C, GrowInPlace(h, c, size), B, D, c, c, size)
    BY <1>2, GrownIs
  <2> HIDE DEF new
  <2>3. Resized(h, B, C, new.heap, B, D, c, new.ptr - 1, size) /\ new.ptr = p
    BY <2>1, <2>2
  <2> QED
    BY <1>1, <2>3 DEF new
<1>3. CASE size > DataLen(h, c) /\ ~CanGrow(h, c, size)
  <2>1. new = MoveAllocation(h, c + 1, size) /\ Serviceable(h, size)
    BY <1>1, <1>3, ReallocFold
  <2> DEFINE all == MoveAllocation(h, c + 1, size)
  <2>2. PICK D, E : Resized(h, B, C, all.heap, D, E, c, all.ptr - 1, size) /\ all.ptr - 1 + 1 = all.ptr
                    /\ all.ptr \in Nat
    BY <1>3, <2>1, MoveIs
  <2> HIDE DEF new, all
  <2>3. new = all
    BY <2>1 DEF all
  <2> QED
    BY <2>2, <2>3 DEF new
<1>4. CASE ~(size > DataLen(h, c))
  <2>1. new = [heap |-> CycleRecycler(SplitUsedChunk(h, c, size)), ptr |-> p] \/ new = [heap |-> h, ptr |-> p]
    BY <1>4, ReallocFold
  <2>2. /\ \E D : Resized(h, B, C, CycleRecycler(SplitUsedChunk(h, c, size)), B, D, c, c, size)
        /\ \E D : Resized(h, B, C, h, B, D, c, c, size)
    BY <1>4, ShrinkIs
  <2> HIDE DEF new
  <2>3. new.ptr = p /\ \E D : Resized(h, B, C, new.heap, B, D, c, new.ptr - 1, size)
    <3>1. CASE new = [heap |-> CycleRecycler(SplitUsedChunk(h, c, size)), ptr |-> p]
      BY <2>2, <3>1
    <3>2. CASE new = [heap |-> h, ptr |-> p]
      BY <2>2, <3>2
    <3> QED
      BY <2>1, <3>1, <3>2
  <2> QED
    BY <1>1, <2>3 DEF new
<1> QED
  BY <1>2, <1>3, <1>4

-----------------------------------------------------------------------------
(***************************************************************************)
(* The realloc of a jumbo allocation: the block may move, and its          *)
(* neighbours in the block list are told.                                  *)
(***************************************************************************)
Relink(h, b) ==
  LET p == h.mem[b].prev
      n == h.mem[b].next
      h2 == IF n # Null THEN [h EXCEPT !.mem[n].prev = b] ELSE h
  IN  IF p # Null THEN [h2 EXCEPT !.mem[p].next = b] ELSE [h2 EXCEPT !.block_list = b]

LEMMA ReallocIsRelink ==
  ASSUME NEW h, NEW c, NEW size, NEW t
  PROVE  ReallocJumbo(h, c, size, t) = Relink(OsRealloc(h, c - 1, t, Units(size) + 2), Base(t))
BY DEF ReallocJumbo, Relink

(* In h1 the block at x has the links the block l[k] has in h.             *)
Renamed(h, h1, l, k, x) ==
  /\ h1.mem[x] = h.mem[l[k]] /\ h1.block_list = h.block_list
  /\ \A j \in 1 .. Len(l) : j # k => h1.mem[l[j]] = h.mem[l[j]]
  /\ x \notin In(l) \ {l[k]}

Relinked(h1, g, l, k, x) ==
  Chained(h1, g, In(l) \ {l[k]}) /\ \E q : Linked(g, q) /\ In(q) = (In(l) \ {l[k]}) \cup {x}

LEMMA RelinkIs ==
  ASSUME NEW h, NEW l, Linked(h, l), NEW k \in 1 .. Len(l), NEW h1, Shaped(h1),
         NEW x \in Address, Renamed(h, h1, l, k, x)
  PROVE  Relinked(h1, Relink(h1, x), l, k, x)
<1> DEFINE b == l[k]
           a == At(l, k - 1)
           z == At(l, k + 1)
           h2 == IF z # 0 THEN [h1 EXCEPT !.mem[z].prev = x] ELSE h1
           g == Relink(h1, x)
<1>0. /\ h1.mem[x] = h.mem[l[k]] /\ h1.block_list = h.block_list
      /\ \A j \in 1 .. Len(l) : j # k => h1.mem[l[j]] = h.mem[l[j]]
      /\ x \notin In(l) \ {l[k]}
  BY DEF Renamed
<1>1. /\ Distinct(l) /\ Len(l) \in Nat /\ Dll(h, l, 0) /\ h.block_list = At(l, 1)
      /\ \A j \in 1 .. Len(l) : /\ l[j] \in In(l) /\ l[j] \in Address /\ l[j] # 0 /\ l[j] + 0 = l[j]
                                /\ h.mem[l[j]] = Links(At(l, j - 1), At(l, j + 1))
      /\ \A j, i \in 1 .. Len(l) : l[j] = l[i] => j = i
  BY LinkedFacts DEF Linked
<1>2. h1.mem[x] = Links(a, z)
  BY <1>0, <1>1
<1>3. g = IF a # 0 THEN [h2 EXCEPT !.mem[a].next = x] ELSE [h2 EXCEPT !.block_list = x]
  <2>1. h1.mem[x].prev = a /\ h1.mem[x].next = z
    BY <1>2 DEF Links
  <2> HIDE DEF a, z
  <2> QED
    BY <2>1 DEF Relink, Null
<1>5. (a # 0 <=> k > 1) /\ (k > 1 => k - 1 \in 1 .. Len(l) /\ a = l[k - 1] /\ k - 1 # k)
  BY <1>0, <1>1 DEF At
<1>6. (z # 0 <=> k < Len(l)) /\ (k < Len(l) => k + 1 \in 1 .. Len(l) /\ z = l[k + 1] /\ k + 1 # k)
  BY <1>0, <1>1 DEF At
<1>7. k < Len(l) => h1.mem[z] = Links(b, At(l, k + 2)) /\ z \in Address /\ z \in In(l) \ {b}
  <2> HAVE k < Len(l)
  <2>1. h1.mem[l[k + 1]] = Links(At(l, k + 1 - 1), At(l, k + 1 + 1)) /\ k + 1 - 1 = k /\ k + 1 + 1 = k + 2
    BY <1>0, <1>1, <1>6
  <2> QED
    BY <1>0, <1>1, <1>6, <2>1 DEF At
<1>8. k > 1 => h1.mem[a] = Links(At(l, k - 2), b) /\ a \in Address /\ a \in In(l) \ {b}
  <2> HAVE k > 1
  <2>1. h1.mem[l[k - 1]] = Links(At(l, k - 1 - 1), At(l, k - 1 + 1)) /\ k - 1 - 1 = k - 2 /\ k - 1 + 1 = k
    <3>1. k - 1 \in 1 .. Len(l) /\ h1.mem[l[k - 1]] = h.mem[l[k - 1]]
      BY <1>0, <1>5
    <3> QED
      BY <1>1, <3>1
  <2> QED
    BY <1>0, <1>1, <1>5, <2>1 DEF At
<1>9. k > 1 /\ k < Len(l) => a # z
  <2> HAVE k > 1 /\ k < Len(l)
  <2>1. k - 1 # k + 1
    OBVIOUS
  <2> QED
    BY <1>0, <1>1, <1>5, <1>6, <2>1
<1> HIDE DEF h2, g
<1>10. /\ Shaped(h2) /\ h2.os = h1.os /\ h2.block_list = h1.block_list
       /\ h2.recycler_head = h1.recycler_head /\ h2.master_head = h1.master_head
       /\ k < Len(l) => h2.mem[z] = Links(x, At(l, k + 2))
       /\ \A d \in Address : (k < Len(l) => d # z) => h2.mem[d] = h1.mem[d]
  <2> HIDE DEF a, z, b
  <2>1. CASE z = 0
    BY <1>6, <2>1 DEF h2
  <2>2. CASE z # 0
    <3>1. h2 = [h1 EXCEPT !.mem[z].prev = x] /\ k < Len(l) /\ z \in Address
      BY <1>6, <1>7, <2>2 DEF h2
    <3>2. Wrote(h1, h2, z, Links(x, At(l, k + 2)))
      BY <1>7, <3>1, PrevSet
    <3> QED
      BY <3>1, <3>2 DEF Wrote
  <2> QED
    BY <2>1, <2>2
<1>11. /\ Shaped(g) /\ g.os = h1.os /\ g.block_list = (IF k > 1 THEN h1.block_list ELSE x)
       /\ g.recycler_head = h1.recycler_head /\ g.master_head = h1.master_head
       /\ k > 1 => g.mem[a] = Links(At(l, k - 2), x)
       /\ k < Len(l) => g.mem[z] = Links(x, At(l, k + 2))
       /\ \A d \in Address : (k > 1 => d # a) /\ (k < Len(l) => d # z) => g.mem[d] = h1.mem[d]
  <2> HIDE DEF a, z, b
  <2>1. CASE a = 0
    <3>1. g = [h2 EXCEPT !.block_list = x] /\ ~(k > 1)
      BY <1>3, <1>5, <2>1
    <3>2. BlocksSet(h2, g, x)
      BY <1>0, <1>10, <3>1, HeadSet
    <3> QED
      BY <1>0, <1>10, <3>1, <3>2 DEF BlocksSet
  <2>2. CASE a # 0
    <3>1. g = [h2 EXCEPT !.mem[a].next = x] /\ k > 1 /\ a \in Address
      BY <1>3, <1>5, <1>8, <2>2
    <3>2. h2.mem[a] = Links(At(l, k - 2), b)
      BY <1>8, <1>9, <1>10, <3>1
    <3>3. Wrote(h2, g, a, Links(At(l, k - 2), x))
      BY <1>0, <1>10, <3>1, <3>2, NextSet
    <3>4. k < Len(l) => z \in Address
      BY <1>7
    <3> QED
      BY <1>9, <1>10, <3>1, <3>3, <3>4 DEF Wrote
  <2> QED
    BY <2>1, <2>2
<1>12. (k > 1 => x # a) /\ (k < Len(l) => x # z)
  BY <1>0, <1>7, <1>8
<1>13. g.mem[x] = Links(a, z)
  BY <1>2, <1>11, <1>12
<1>14. Chained(h1, g, In(l) \ {b})
  BY <1>7, <1>8, <1>11 DEF Chained, HeadsSame
<1>15. \A j \in 1 .. Len(l) : j \notin {k - 1, k, k + 1} => g.mem[l[j]] = h.mem[l[j]]
  <2> TAKE j \in 1 .. Len(l)
  <2> HAVE j \notin {k - 1, k, k + 1}
  <2>1. (k > 1 => l[j] # a) /\ (k < Len(l) => l[j] # z) /\ l[j] \in Address /\ h1.mem[l[j]] = h.mem[l[j]]
    BY <1>0, <1>1, <1>5, <1>6
  <2> QED
    BY <1>0, <1>11, <2>1
<1>16. CASE x = b
  <2>1. ASSUME NEW j \in 1 .. Len(l) PROVE g.mem[l[j] + 0] = h.mem[l[j] + 0]
    <3>1. CASE j = k
      BY <1>0, <1>1, <1>13, <1>16, <3>1
    <3>2. CASE j = k - 1
      <4>1. k > 1 /\ a = l[j] /\ h1.mem[a] = h.mem[a]
        BY <1>0, <1>5, <3>2
      <4> QED
        BY <1>0, <1>1, <1>8, <1>11, <1>16, <4>1
    <3>3. CASE j = k + 1
      <4>1. k < Len(l) /\ z = l[j] /\ h1.mem[z] = h.mem[z]
        BY <1>0, <1>6, <3>3
      <4> QED
        BY <1>0, <1>1, <1>7, <1>11, <1>16, <4>1
    <3> QED
      BY <1>0, <1>1, <1>15, <3>1, <3>2, <3>3
  <2>2. \A y \in In(l) : g.mem[y + 0] = h.mem[y + 0]
    BY <2>1 DEF In
  <2>3. Dll(g, l, 0)
    BY <1>0, <1>1, <2>2, DllSame
  <2>4. g.block_list = At(l, 1)
    <3>1. CASE k > 1
      BY <1>0, <1>1, <1>11, <3>1
    <3>2. CASE ~(k > 1)
      <4>1. k = 1
        BY <3>2
      <4> QED
        BY <1>0, <1>1, <1>11, <1>16, <3>2, <4>1 DEF At
    <3> QED
      BY <3>1, <3>2
  <2>5. In(l) = (In(l) \ {b}) \cup {x}
    BY <1>0, <1>1, <1>16
  <2>6. Linked(g, l)
    BY <2>3, <2>4 DEF Linked
  <2> QED
    BY <1>0, <1>14, <2>5, <2>6 DEF g, Relinked
<1>17. CASE x # b
  <2>0. x \notin In(l) /\ x + 0 = x
    BY <1>0, <1>17, AddressPositive
  <2>1. g.mem[x + 0] = Links(At(l, k - 1), At(l, k + 1))
    BY <1>0, <1>13, <2>0
  <2>2. k > 1 => g.mem[l[k - 1] + 0] = Links(At(l, k - 2), x)
    BY <1>0, <1>1, <1>5, <1>11
  <2>3. k < Len(l) => g.mem[l[k + 1] + 0] = Links(x, At(l, k + 2))
    BY <1>0, <1>1, <1>6, <1>11
  <2>4. \A j \in 1 .. Len(l) : j \notin {k - 1, k, k + 1} => g.mem[l[j] + 0] = h.mem[l[j] + 0]
    BY <1>1, <1>15
  <2>5. Dll(g, Swap(l, k, x), 0) /\ In(Swap(l, k, x)) = (In(l) \ {l[k]}) \cup {x}
        /\ At(Swap(l, k, x), 1) = IF k = 1 THEN x ELSE At(l, 1)
    BY <1>0, <1>1, <2>0, <2>1, <2>2, <2>3, <2>4, DllSwap
  <2>6. g.block_list = IF k = 1 THEN x ELSE At(l, 1)
    <3>1. CASE k > 1
      <4>1. k # 1
        BY <3>1
      <4> QED
        BY <1>0, <1>1, <1>11, <3>1, <4>1
    <3>2. CASE ~(k > 1)
      <4>1. k = 1
        BY <3>2
      <4> QED
        BY <1>0, <1>11, <3>2, <4>1
    <3> QED
      BY <3>1, <3>2
  <2>7. Linked(g, Swap(l, k, x))
    BY <2>5, <2>6 DEF Linked
  <2> QED
    BY <1>14, <2>5, <2>7 DEF g, Relinked
<1> QED
  BY <1>0, <1>16, <1>17

LEMMA OsReallocIs ==
  ASSUME NEW h, Shaped(h), NEW b \in Block, NEW t \in Slot, NEW n \in Nat, n <= SlotSize
  PROVE  LET g == OsRealloc(h, b, t, n)
         IN  /\ HeadsSame(h, g) /\ g.block_list = h.block_list
             /\ Blocks(g) = (Blocks(h) \ {b}) \cup {Base(t)}
             /\ \A a \in Address : Home(a) # b /\ Home(a) # Base(t) => g.mem[a] = h.mem[a]
             /\ \A i \in 0 .. n - 1 : g.mem[Base(t) + i] = h.mem[b + i]
<1> DEFINE g == OsRealloc(h, b, t, n)
           s == SlotOf(b)
           d == Base(t)
           mem2 == [a \in Address |->
                          IF a \in SlotCells(t)
                          THEN IF a - d < n THEN h.mem[a - d + b] ELSE Junk
                          ELSE IF a \in SlotCells(s) THEN Junk ELSE h.mem[a]]
<1>1. g = [mem |-> mem2, block_list |-> h.block_list, master_head |-> h.master_head,
           recycler_head |-> h.recycler_head, os |-> (h.os \ {s}) \cup {t}]
  <2>1. g = [h EXCEPT !.os = (h.os \ {s}) \cup {t}, !.mem = mem2]
    BY DEF OsRealloc
  <2> HIDE DEF g, mem2, s
  <2> QED
    BY <2>1 DEF Shaped
<1> HIDE DEF g
<1>2. /\ g.mem = mem2 /\ g.block_list = h.block_list /\ g.master_head = h.master_head
      /\ g.recycler_head = h.recycler_head /\ g.os = (h.os \ {s}) \cup {t}
  BY <1>1
<1>3. Shaped(g)
  <2>1. g = [mem |-> g.mem, block_list |-> g.block_list, master_head |-> g.master_head,
             recycler_head |-> g.recycler_head, os |-> g.os]
    BY <1>1
  <2>2. g.mem = [a \in Address |-> g.mem[a]]
    BY <1>2
  <2>3. g.os \in SUBSET Slot
    BY <1>2 DEF Shaped
  <2> QED
    BY <2>1, <2>2, <2>3 DEF Shaped
<1>4. Base(s) = b /\ s \in Slot /\ SlotCells(s) = b .. b + SlotSize - 1 /\ b \in Nat
      /\ \A a \in b .. b + SlotSize - 1 : Home(a) = b
  BY BlockFacts
<1>5. d \in Block /\ d \in Nat /\ SlotOf(d) = t /\ SlotCells(t) = d .. d + SlotSize - 1
      /\ \A a \in d .. d + SlotSize - 1 : a \in Address /\ Home(a) = d
  <2>1. d \in Block
    BY DEF Block
  <2>2. SlotOf(d) = t
    <3>1. d + 0 = d /\ 0 \in 0 .. SlotSize - 1
      BY SlotFacts, Sizes
    <3> QED
      BY <3>1, SlotFacts
  <2> HIDE DEF d
  <2> QED
    BY <2>1, <2>2, BlockFacts
<1>6. \A a \in Address : Home(a) # b /\ Home(a) # d => g.mem[a] = h.mem[a]
  <2> HIDE DEF d
  <2> QED
    BY <1>2, <1>4, <1>5
<1>7. \A i \in 0 .. n - 1 : g.mem[d + i] = h.mem[b + i]
  <2>0. \A a \in Address : mem2[a] = IF a \in SlotCells(t) THEN IF a - d < n THEN h.mem[a - d + b] ELSE Junk
                                      ELSE IF a \in SlotCells(s) THEN Junk ELSE h.mem[a]
    OBVIOUS
  <2> HIDE DEF d, mem2
  <2> TAKE i \in 0 .. n - 1
  <2>1. d + i \in d .. d + SlotSize - 1 /\ d + i - d = i /\ i < n /\ i + b = b + i
    BY <1>4, <1>5, Sizes
  <2>2. d + i \in Address /\ d + i \in SlotCells(t)
    BY <1>5, <2>1
  <2>3. \A a \in Address : \A e : a \in SlotCells(t) /\ a - d < n /\ a - d + b = e => mem2[a] = h.mem[e]
    BY <2>0
  <2>4. \E a \in Nat, e \in Nat : a = d + i /\ e = b + i
    BY <1>4, <1>5
  <2>9. PICK a \in Nat, e \in Nat : a = d + i /\ e = b + i
    BY <2>4
  <2>6. a = d + i /\ e = b + i /\ a - d + b = e /\ a - d < n
    BY <1>4, <1>5, <2>9
  <2>7. a \in Address /\ a \in SlotCells(t)
    BY <2>2, <2>6
  <2>8. mem2[a] = h.mem[e]
    BY <2>3, <2>6, <2>7
  <2>5. mem2[d + i] = h.mem[b + i]
    BY <2>6, <2>8
  <2> QED
    BY <1>2, <2>5 DEF mem2
<1>8. \A u \in h.os : Base(u) = b => u = s
  <2> TAKE u \in h.os
  <2> HAVE Base(u) = b
  <2>1. u \in Slot
    BY DEF Shaped
  <2>2. SlotSize \in Nat /\ SlotSize >= 4 /\ b \in Nat
    BY Sizes, BlockFacts
  <2>3. u # s => Base(s) + SlotSize <= Base(u) \/ Base(u) + SlotSize <= Base(s)
    BY <1>4, <2>1, SlotFacts
  <2> QED
    BY <1>4, <2>2, <2>3
<1>9. Blocks(g) = (Blocks(h) \ {b}) \cup {d}
  BY <1>2, <1>4, <1>8 DEF Blocks
<1> QED
  BY <1>2, <1>3, <1>6, <1>7, <1>9 DEF HeadsSame, g

LEMMA ReallocJumboIs ==
  ASSUME NEW h, NEW B, NEW C, World(h, B, C), NEW c \in Users(h, B, C), Home(c) \notin B,
         NEW size \in Size, NEW t \in FreeSlots(h) \cup {SlotOf(c + 1)}
  PROVE  Resized(h, B, C, ReallocJumbo(h, c, size, t), B, C, c, Base(t) + 1, size)
<1> DEFINE b == Home(c)
           d == Base(t)
           n == Units(size) + 2
           k == OsRealloc(h, b, t, n)
           g == ReallocJumbo(h, c, size, t)
<1>1. Shaped(h) /\ Tiled(h.mem, C, B, 0) /\ B \subseteq Blocks(h) /\ Blocks(h) \subseteq Block /\ BigBlocks(h, B)
      /\ B \subseteq Block
  BY WorldFacts
<1>2. c - 1 = b /\ b \in Blocks(h) \ B /\ b + 1 = c /\ b \in Block /\ b \in Nat
  BY <1>1, UserJumbo, BlockFacts
<1>3. size \in Nat /\ Units(size) \in Nat /\ n \in Nat /\ n >= 2 /\ n <= SlotSize
  BY SizeFacts, Sizes
<1>4. SlotOf(c + 1) = SlotOf(b) /\ SlotOf(b) \in Slot /\ Base(SlotOf(b)) = b
  <2>1. c + 1 \in b .. b + SlotSize - 1
    BY <1>2, Sizes
  <2> QED
    BY <1>2, <2>1, BlockFacts
<1>5. t \in Slot /\ d \in Block /\ (d # b => d \notin Blocks(h)) /\ d \notin B
  <2>1. CASE t = SlotOf(c + 1)
    BY <1>2, <1>4, <2>1
  <2>2. CASE t \in FreeSlots(h)
    <3>1. t \in Slot /\ t \notin h.os
      BY <2>2 DEF FreeSlots
    <3>2. d \in Block
      BY <3>1 DEF Block
    <3>3. \A u \in h.os : Base(u) # d
      <4> TAKE u \in h.os
      <4>1. u \in Slot /\ u # t
        BY <1>1, <3>1 DEF Shaped
      <4>2. Base(t) + SlotSize <= Base(u) \/ Base(u) + SlotSize <= Base(t)
        BY <3>1, <4>1, SlotFacts
      <4>3. Base(t) \in Nat /\ Base(u) \in Nat /\ SlotSize \in Nat /\ SlotSize >= 4
        BY <3>1, <4>1, SlotFacts, Sizes
      <4> QED
        BY <4>2, <4>3
    <3>4. d \notin Blocks(h)
      BY <3>3 DEF Blocks
    <3> QED
      BY <1>1, <3>1, <3>2, <3>4
  <2> QED
    BY <2>1, <2>2
<1>6. g = Relink(k, d)
  <2>1. g = Relink(OsRealloc(h, c - 1, t, Units(size) + 2), Base(t))
    BY ReallocIsRelink
  <2> HIDE DEF g, b, d
  <2> QED
    BY <1>2, <2>1 DEF d
<1>7. /\ HeadsSame(h, k) /\ k.block_list = h.block_list
      /\ Blocks(k) = (Blocks(h) \ {b}) \cup {d}
      /\ \A a \in Address : Home(a) # b /\ Home(a) # d => k.mem[a] = h.mem[a]
      /\ \A i \in 0 .. n - 1 : k.mem[d + i] = h.mem[b + i]
  BY <1>1, <1>2, <1>3, <1>5, OsReallocIs
<1> HIDE DEF g, k, b, d
<1>8. d \in Nat /\ d \in Address /\ Home(d) = d /\ d + 1 \in Address /\ Home(d + 1) = d
      /\ d + 1 \notin Block /\ d + 0 = d
      /\ Home(b) = b /\ b \in Address /\ b + 0 = b
  BY <1>2, <1>5, HomeFacts
<1>9. k.mem[d] = h.mem[b] /\ k.mem[d + 1] = h.mem[b + 1]
  <2>1. 0 \in 0 .. n - 1 /\ 1 \in 0 .. n - 1
    BY <1>3
  <2>2. k.mem[d + 0] = h.mem[b + 0] /\ k.mem[d + 1] = h.mem[b + 1]
    BY <1>7, <2>1
  <2> QED
    BY <1>8, <2>2
<1>10. PICK l : Listed(h, l)
  BY DEF World
<1>11. Linked(h, l) /\ In(l) = Blocks(h) /\ b \in In(l)
  BY <1>2, <1>10 DEF Listed, Linked
<1>12. PICK j \in 1 .. Len(l) : l[j] = b
  BY <1>11, LinkedFacts
<1>13. Chained(k, g, In(l) \ {b}) /\ \E q : Linked(g, q) /\ In(q) = (In(l) \ {b}) \cup {d}
  <2>1. \A i \in 1 .. Len(l) : i # j => k.mem[l[i]] = h.mem[l[i]]
    <3> TAKE i \in 1 .. Len(l)
    <3> HAVE i # j
    <3>1. l[i] # b /\ l[i] \in Blocks(h) /\ l[i] \in Address
      BY <1>11, <1>12, LinkedFacts
    <3>2. Home(l[i]) = l[i] /\ l[i] # d
      BY <1>1, <1>5, <3>1, HomeFacts
    <3> QED
      BY <1>7, <3>1, <3>2
  <2>2. d \notin In(l) \ {l[j]} /\ d \in Address
    BY <1>5, <1>8, <1>11, <1>12
  <2>3. Shaped(k) /\ k.block_list = h.block_list
    BY <1>7 DEF HeadsSame
  <2>4. k.mem[d] = h.mem[l[j]]
    BY <1>9, <1>12
  <2>5. Linked(h, l)
    BY <1>11
  <2>7. Renamed(h, k, l, j, d)
    BY <2>1, <2>2, <2>3, <2>4 DEF Renamed
  <2>6. Relinked(k, Relink(k, d), l, j, d)
    BY <2>2, <2>3, <2>5, <2>7, RelinkIs
  <2> QED
    BY <1>6, <1>12, <2>6 DEF Relinked
<1>14. PICK q : Linked(g, q) /\ In(q) = (In(l) \ {b}) \cup {d}
  BY <1>13
<1>15. /\ HeadsSame(h, g) /\ Blocks(g) = (Blocks(h) \ {b}) \cup {d}
       /\ \A a \in Address : a \notin Block => g.mem[a] = k.mem[a]
  BY <1>1, <1>7, <1>11, <1>13 DEF HeadsSame, Chained, Blocks
<1>16. Listed(g, q)
  BY <1>11, <1>14, <1>15 DEF Listed, Linked
<1>17. Framed(h, g, B)
  <2>1. \A a \in Address : a # Home(a) => a \notin Block
    BY HomeFacts
  <2> QED
    BY <1>2, <1>5, <1>7, <1>15, <2>1 DEF Framed
<1>18. Sound(g, B, C, 0) /\ KeepsAll(h, g, C)
  BY <1>17, FramedSound DEF World
<1>19. Elsewhere(h, g, C, {b, d})
  BY <1>7, <1>15 DEF Elsewhere
<1>20. ASSUME NEW e \in Users(h, B, C), e # c
       PROVE  g.mem[e] = h.mem[e] /\ Untouched(h, B, g, B, e)
  <2>1. Home(e) \notin {b, d}
    <3>1. (Home(e) \notin B => e = Home(e) + 1) /\ Home(e) \in Blocks(h)
      BY UserFacts
    <3> QED
      BY <1>2, <1>5, <1>20, <3>1
  <2>2. \A i \in Blocks(h) : i \in B <=> i \in B
    OBVIOUS
  <2> QED
    BY <1>19, <2>1, <2>2, ElsewhereKeeps
<1>21. Big(g.mem[d + 1])
  <2>1. Big(h.mem[b + 1])
    BY <1>1, <1>2 DEF BigBlocks
  <2>2. g.mem[d + 1] = h.mem[b + 1]
    BY <1>8, <1>9, <1>15
  <2> QED
    BY <2>1, <2>2
<1>22. BigBlocks(g, B)
  <2>1. \A i \in Blocks(h) \ B : i # b => g.mem[i + 1] = h.mem[i + 1]
    <3> TAKE i \in Blocks(h) \ B
    <3> HAVE i # b
    <3>1. i + 1 # c
      BY <1>1, <1>2, HomeFacts
    <3> QED
      BY <1>20, <3>1 DEF Users
  <2> QED
    BY <1>1, <1>15, <1>21, <2>1 DEF BigBlocks
<1>23. World(g, B, C)
  BY <1>1, <1>2, <1>15, <1>16, <1>18, <1>22 DEF World
<1>24. c \notin C /\ (d + 1 \in Users(h, B, C) => d = b)
  <2>1. c \notin C
    BY UserFacts
  <2>2. d + 1 \in Users(h, B, C) => Home(d + 1) \in Blocks(h)
    BY UserFacts
  <2> QED
    BY <1>5, <1>8, <2>1, <2>2
<1>25. Users(g, B, C) = (Users(h, B, C) \ {c}) \cup {d + 1}
  <2>1. \A e \in C : g.mem[e] = h.mem[e]
    BY <1>18 DEF KeepsAll
  <2>2. \A i \in Blocks(h) : i + 1 = b + 1 => i = b
    BY <1>1, <1>2, HomeFacts
  <2> QED
    BY <1>2, <1>5, <1>15, <1>24, <2>1, <2>2 DEF Users
<1>26. Serves(h, B, C, g, B, C, {c, d + 1})
  BY <1>20, <1>25 DEF Serves
<1>27. Units(size) <= Span(g, B, d + 1)
  <2>1. Span(g, B, d + 1) = SlotSize - 2
    BY <1>5, <1>8 DEF Span
  <2> QED
    BY <2>1, SizeFacts
<1>28. ASSUME NEW m \in Nat, m <= Units(size) PROVE Copied(h, g, c, d + 1, m)
  <2>1. ASSUME NEW u \in 0 .. m - 1 PROVE g.mem[d + 1 + 1 + u] = h.mem[c + 1 + u]
    <3>1. u + 2 \in 0 .. n - 1 /\ d + (u + 2) = d + 1 + 1 + u /\ b + (u + 2) = c + 1 + u
          /\ d + (u + 2) \in d + 2 .. d + 1 + (SlotSize - 2)
      <4>1. u \in Nat /\ u < m /\ c = b + 1 /\ b \in Nat /\ d \in Nat /\ SlotSize \in Nat
        BY <1>2, <1>8, Sizes
      <4>2. Units(size) \in Nat /\ u < Units(size) /\ n = Units(size) + 2 /\ u + 2 < SlotSize
        BY <1>3, <1>28, <4>1, Sizes
      <4> HIDE DEF n
      <4>3. u + 2 \in 0 .. n - 1
        BY <4>1, <4>2
      <4> QED
        BY <4>1, <4>2, <4>3
    <3>2. d + (u + 2) \in Address /\ d + (u + 2) \notin Block
      BY <1>5, <3>1, HomeFacts
    <3>3. k.mem[d + (u + 2)] = h.mem[b + (u + 2)]
      BY <1>7, <3>1
    <3>4. g.mem[d + (u + 2)] = h.mem[b + (u + 2)]
      BY <1>15, <3>2, <3>3
    <3> QED
      BY <3>1, <3>4
  <2> QED
    BY <2>1 DEF Copied
<1>29. c # d + 1 => c \notin Users(g, B, C) /\ d + 1 \notin Users(h, B, C)
  BY <1>2, <1>24, <1>25
<1>30. Resized(h, B, C, g, B, C, c, d + 1, size)
  BY <1>23, <1>25, <1>26, <1>27, <1>28, <1>29 DEF Resized
<1> QED
  BY <1>30 DEF g, d

-----------------------------------------------------------------------------
(***************************************************************************)
(* What the walks of the module find: all of the chunks of a block, of the *)
(* block list and of the free lists.                                       *)
(***************************************************************************)
LEMMA ChunkCells ==
  ASSUME NEW g, NEW C, NEW B, NEW x, Tiled(g, C, B, x), NEW c \in C
  PROVE  c \in Nat /\ Home(c) \in Nat /\ c - Home(c) \in 1 .. BlockSize /\ SlotOf(c) \in Slot
         /\ c \in Home(c) + 1 .. Home(c) + BlockSize
<1>1. IsChunk(g, c) /\ Home(c) \in Nat /\ Home(c) < c /\ Home(c) \in Block /\ End(g, c) <= Home(c) + BlockSize
  BY ChunkFacts
<1>2. c \in Nat /\ End(g, c) \in Nat /\ c < End(g, c) /\ BlockSize \in Nat /\ SlotSize \in Nat /\ SlotSize >= BlockSize
  BY ChunkIn, Sizes
<1> DEFINE b == Home(c)
<1>3. b \in Block /\ b \in Nat /\ b < c /\ c < b + BlockSize
  BY <1>1, <1>2
<1> HIDE DEF b
<1>4. SlotOf(c) = SlotOf(b) /\ SlotOf(b) \in Slot
  <2>1. c \in b .. b + SlotSize - 1
    BY <1>2, <1>3
  <2> QED
    BY <1>3, <2>1, BlockFacts
<1>5. c - b \in 1 .. BlockSize /\ c \in b + 1 .. b + BlockSize
  BY <1>2, <1>3
<1> QED
  BY <1>1, <1>2, <1>4, <1>5 DEF b

LEMMA ChunkCount ==
  ASSUME NEW g, NEW C, NEW B, NEW x, Tiled(g, C, B, x)
  PROVE  IsFiniteSet(C) /\ Cardinality(C) \in Nat /\ Cardinality(C) <= MaxChunks /\ MaxChunks \in Nat
<1> DEFINE T == Slot \X (1 .. BlockSize)
           f == [c \in C |-> <<SlotOf(c), c - Home(c)>>]
<1>1. IsFiniteSet(Slot) /\ Cardinality(Slot) = NumSlots
  <2>1. 1 \in Int /\ NumSlots \in Int /\ ~(1 > NumSlots) /\ NumSlots - 1 + 1 = NumSlots
    BY Sizes
  <2> QED
    BY <2>1, FS_Interval DEF Slot
<1>2. IsFiniteSet(1 .. BlockSize) /\ Cardinality(1 .. BlockSize) = BlockSize
  <2>1. 1 \in Int /\ BlockSize \in Int /\ ~(1 > BlockSize) /\ BlockSize - 1 + 1 = BlockSize
    BY Sizes
  <2> QED
    BY <2>1, FS_Interval
<1>3. IsFiniteSet(T) /\ Cardinality(T) = MaxChunks
  BY <1>1, <1>2, FS_Product DEF MaxChunks
<1>4. \A c \in C : c \in Nat /\ Home(c) \in Nat /\ c - Home(c) \in 1 .. BlockSize /\ SlotOf(c) \in Slot
  BY ChunkCells
<1>5. f \in [C -> T]
  BY <1>4
<1>6. ASSUME NEW c \in C, NEW d \in C, f[c] = f[d] PROVE c = d
  <2>1. SlotOf(c) = SlotOf(d) /\ c - Home(c) = d - Home(d)
    BY <1>6
  <2>2. Home(c) = Home(d)
    BY <2>1 DEF Home
  <2> QED
    BY <1>4, <2>1, <2>2
<1> HIDE DEF T, f
<1>7. f \in Injection(C, T)
  <2>1. \A c, d \in C : f[c] = f[d] => c = d
    BY <1>6
  <2> QED
    BY <1>5, <2>1 DEF Injection, IsInjective
<1>8. IsFiniteSet(C) /\ Cardinality(C) <= Cardinality(T)
  BY <1>3, <1>7, FS_Injection
<1>9. MaxChunks \in Nat
  BY <1>3, FS_CardinalityType
<1> QED
  BY <1>3, <1>8, <1>9, FS_CardinalityType

LEMMA ChunksOfIs ==
  ASSUME NEW h, NEW C, NEW B, Tiled(h.mem, C, B, 0), NEW b \in B
  PROVE  ChunksOf(h, b) = {c \in C : Home(c) = b}
<1> DEFINE S == {c \in C : Home(c) = b}
           nx == [c \in S |-> ChunkNext(h, c)]
           W == ChunksOf(h, b)
<1>1. b \in Block /\ b + 1 \in C /\ Home(b + 1) = b /\ b \in Nat
  BY HomeFacts DEF Tiled, Inside
<1>2. b + 1 \in S /\ 0 \notin S
  BY <1>1, ChunksNonZero DEF NonZero
<1>3. IsFiniteSet(S) /\ Cardinality(S) <= BlockSize
  <2>1. S \subseteq b + 1 .. b + BlockSize
    BY ChunkCells
  <2>4. \E y \in Int, z \in Int : y = b + 1 /\ z = b + BlockSize /\ ~(y > z) /\ z - y + 1 = BlockSize
    BY <1>1, Sizes
  <2>5. PICK y \in Int, z \in Int : y = b + 1 /\ z = b + BlockSize /\ ~(y > z) /\ z - y + 1 = BlockSize
    BY <2>4
  <2>6. IsFiniteSet(y .. z) /\ Cardinality(y .. z) = BlockSize
    BY <2>5, FS_Interval
  <2>3. IsFiniteSet(b + 1 .. b + BlockSize) /\ Cardinality(b + 1 .. b + BlockSize) = BlockSize
    BY <2>5, <2>6
  <2> HIDE DEF S
  <2> QED
    BY <2>1, <2>3, FS_Subset
<1>4. ASSUME NEW c \in S
      PROVE  /\ ~h.mem[c].last => ChunkNext(h, c) = End(h.mem, c) /\ End(h.mem, c) \in S
             /\ h.mem[c].last => ChunkNext(h, c) = 0
  BY Neighbours DEF ChunkNext, End, Null
<1>5. nx \in [S -> S \cup {0}]
  BY <1>4
<1>6. \A x \in S : nx[x] = ChunkNext(h, x)
  OBVIOUS
<1>7. W = ChunkWalk(h, b + 1, BlockSize)
  BY DEF ChunksOf, ChunkWalk
<1> HIDE DEF S, nx, W
<1>8. Finished(W, S, nx, b + 1)
  BY <1>2, <1>3, <1>5, <1>6, <1>7, Sizes, ChunkWalkIs
<1>9. W \subseteq S /\ b + 1 \in W /\ \A x \in W : nx[x] \in W \cup {0}
  <2>1. b + 1 # 0
    BY <1>1
  <2> QED
    BY <1>8, <2>1 DEF Finished
<1>10. S \subseteq W
  <2>1. SUFFICES ASSUME S \ W # {} PROVE FALSE
    OBVIOUS
  <2>2. S \ W \in SUBSET Nat
    BY ChunkIn DEF S
  <2>3. PICK c \in S \ W : \A d \in S \ W : c <= d
    BY <2>1, <2>2, Least
  <2>4. c \in C /\ Home(c) = b /\ c # b + 1
    BY <1>9, <2>3 DEF S
  <2> DEFINE p == c - h.mem[c].prev
  <2>5. p \in C /\ ~h.mem[p].last /\ End(h.mem, p) = c /\ p < c /\ Home(p) = b
    BY <2>4, Neighbours
  <2> HIDE DEF p
  <2>6. p \in S /\ p \in Nat /\ c \in Nat
    BY <2>4, <2>5, ChunkIn DEF S
  <2>7. p \in W
    <3>1. ~(c <= p)
      BY <2>5, <2>6
    <3> QED
      BY <2>3, <2>6, <3>1
  <2>8. nx[p] = c
    BY <1>4, <1>6, <2>5, <2>6
  <2>9. c # 0
    BY <1>2, <2>3
  <2> QED
    BY <1>9, <2>3, <2>7, <2>8, <2>9
<1> QED
  BY <1>9, <1>10 DEF W, S

LEMMA ChunksAre ==
  ASSUME NEW h, NEW B, NEW C, World(h, B, C)
  PROVE  /\ \A b \in Blocks(h) : IsJumbo(h, b) <=> b \notin B
         /\ \A b \in B : ChunksOf(h, b) = {c \in C : Home(c) = b}
         /\ Chunks(h) = C
<1>1. Tiled(h.mem, C, B, 0) /\ B \subseteq Blocks(h) /\ BigBlocks(h, B)
  BY WorldFacts
<1>2. ASSUME NEW b \in Blocks(h) PROVE IsJumbo(h, b) <=> b \notin B
  <2>1. CASE b \in B
    <3>1. b + 1 \in C
      BY <1>1, <2>1 DEF Tiled, Inside
    <3>2. IsChunk(h.mem, b + 1)
      BY <1>1, <3>1, ChunkIn
    <3>3. ~h.mem[b + 1].jumbo
      BY <3>2 DEF IsChunk, Chunk
    <3> QED
      BY <2>1, <3>3 DEF IsJumbo
  <2>2. CASE b \notin B
    <3>1. Big(h.mem[b + 1])
      BY <1>1, <2>2 DEF BigBlocks
    <3>2. h.mem[b + 1].jumbo
      BY <3>1 DEF Big, Chunk
    <3> QED
      BY <2>2, <3>2 DEF IsJumbo
  <2> QED
    BY <2>1, <2>2
<1>3. \A b \in B : ChunksOf(h, b) = {c \in C : Home(c) = b}
  BY <1>1, ChunksOfIs
<1>4. {b \in Blocks(h) : ~IsJumbo(h, b)} = B
  BY <1>1, <1>2
<1>5. \A c \in C : Home(c) \in B
  BY <1>1, ChunkFacts
<1>6. Chunks(h) = C
  BY <1>3, <1>4, <1>5 DEF Chunks
<1> QED
  BY <1>2, <1>3, <1>6

LEMMA FinishedAll ==
  ASSUME NEW l, Distinct(l), NEW nx, \A j \in 1 .. Len(l) : j < Len(l) => nx[l[j]] = l[j + 1],
         NEW W, Finished(W, In(l), nx, At(l, 1))
  PROVE  W = In(l)
<1>1. /\ Len(l) \in Nat /\ \A j \in 1 .. Len(l) : l[j] \in Address /\ l[j] \in In(l)
      /\ \A x \in In(l) : x \in Address /\ \E j \in 1 .. Len(l) : l[j] = x
  BY Members
<1>2. W \subseteq In(l) /\ (At(l, 1) # 0 => At(l, 1) \in W) /\ \A x \in W : nx[x] \in W \cup {0}
  BY DEF Finished
<1> DEFINE N == {j \in 1 .. Len(l) : l[j] \notin W}
<1>3. N = {}
  <2>1. SUFFICES ASSUME N # {} PROVE FALSE
    OBVIOUS
  <2>2. N \in SUBSET Nat
    OBVIOUS
  <2>3. PICK k \in N : \A j \in N : k <= j
    BY <2>1, <2>2, Least
  <2>4. k \in 1 .. Len(l) /\ l[k] \notin W /\ l[k] # 0
    BY <1>1, AddressPositive
  <2>5. k # 1
    BY <1>2, <2>4 DEF At
  <2>6. k - 1 \in 1 .. Len(l) /\ k - 1 < Len(l) /\ k - 1 + 1 = k /\ ~(k <= k - 1)
    BY <1>1, <2>4, <2>5
  <2>7. l[k - 1] \in W
    BY <2>3, <2>6
  <2>8. nx[l[k - 1]] = l[k]
    BY <2>6
  <2> QED
    BY <1>2, <2>4, <2>7, <2>8
<1>4. \A j \in 1 .. Len(l) : l[j] \in W
  BY <1>3
<1> QED
  BY <1>1, <1>2, <1>4

LEMMA BlockCount ==
  ASSUME NEW h, Shaped(h)
  PROVE  IsFiniteSet(Blocks(h)) /\ Cardinality(Blocks(h)) <= NumSlots /\ 0 \notin Blocks(h)
<1> DEFINE f == [b \in Blocks(h) |-> SlotOf(b)]
<1>1. IsFiniteSet(Slot) /\ Cardinality(Slot) = NumSlots
  <2>1. 1 \in Int /\ NumSlots \in Int /\ ~(1 > NumSlots) /\ NumSlots - 1 + 1 = NumSlots
    BY Sizes
  <2> QED
    BY <2>1, FS_Interval DEF Slot
<1>2. \A b \in Blocks(h) : b \in Block /\ b \in Nat /\ b >= 1 /\ SlotOf(b) \in Slot /\ Base(SlotOf(b)) = b
  BY HomeFacts, BlockFacts
<1>3. f \in [Blocks(h) -> Slot]
  BY <1>2
<1>4. \A b, d \in Blocks(h) : f[b] = f[d] => b = d
  <2> TAKE b, d \in Blocks(h)
  <2> HAVE f[b] = f[d]
  <2>1. SlotOf(b) = SlotOf(d)
    OBVIOUS
  <2> QED
    BY <1>2, <2>1
<1> HIDE DEF f
<1>5. f \in Injection(Blocks(h), Slot)
  BY <1>3, <1>4 DEF Injection, IsInjective
<1>6. IsFiniteSet(Blocks(h)) /\ Cardinality(Blocks(h)) <= Cardinality(Slot)
  BY <1>1, <1>5, FS_Injection
<1>7. 0 \notin Blocks(h)
  BY <1>2
<1> QED
  BY <1>1, <1>6, <1>7

LEMMA BlockListIs ==
  ASSUME NEW h, NEW B, NEW C, World(h, B, C)
  PROVE  BlockList(h) = Blocks(h)
<1>1. PICK l : Listed(h, l)
  BY DEF World
<1>2. Shaped(h)
  BY WorldFacts
<1>3. Linked(h, l) /\ In(l) = Blocks(h)
  BY <1>1 DEF Listed, Linked
<1>4. /\ Distinct(l) /\ Len(l) \in Nat
      /\ \A j \in 1 .. Len(l) : /\ l[j] \in In(l) /\ l[j] \in Address /\ l[j] # 0 /\ l[j] + 0 = l[j]
                                /\ h.mem[l[j]] = Links(At(l, j - 1), At(l, j + 1))
      /\ \A x \in In(l) : x \in Address /\ \E j \in 1 .. Len(l) : l[j] = x
  BY <1>3, LinkedFacts
<1> DEFINE S == Blocks(h)
           nx == [x \in S |-> h.mem[x].next]
           W == BlockList(h)
<1>5. \A j \in 1 .. Len(l) : l[j] \in S /\ h.mem[l[j]].next = At(l, j + 1) /\ At(l, j + 1) \in S \cup {0}
  <2> TAKE j \in 1 .. Len(l)
  <2>1. h.mem[l[j]].next = At(l, j + 1)
    <3>1. h.mem[l[j]] = Links(At(l, j - 1), At(l, j + 1))
      BY <1>4
    <3>2. \A p, n : Links(p, n).next = n
      BY DEF Links
    <3> QED
      BY <3>1, <3>2
  <2>2. At(l, j + 1) \in S \cup {0} /\ l[j] \in S
    BY <1>3, <1>4 DEF At
  <2> QED
    BY <2>1, <2>2
<1>6. nx \in [S -> S \cup {0}] /\ \A x \in S : nx[x] = h.mem[x].next
  <2>1. \A x \in S : h.mem[x].next \in S \cup {0}
    BY <1>3, <1>4, <1>5
  <2> QED
    BY <2>1
<1>7. h.block_list = At(l, 1) /\ At(l, 1) \in S \cup {0}
  BY <1>3, <1>4 DEF Linked, At
<1>8. W = BlockWalk(h, At(l, 1), NumSlots)
  BY <1>7 DEF BlockList, BlockWalk
<1>9. IsFiniteSet(S) /\ Cardinality(S) <= NumSlots /\ 0 \notin S
  BY <1>2, BlockCount
<1> HIDE DEF W, nx, S
<1>10. Finished(W, S, nx, At(l, 1))
  BY <1>6, <1>7, <1>8, <1>9, Sizes, BlockWalkIs
<1>11. \A j \in 1 .. Len(l) : j < Len(l) => nx[l[j]] = l[j + 1]
  <2> TAKE j \in 1 .. Len(l)
  <2> HAVE j < Len(l)
  <2>1. nx[l[j]] = At(l, j + 1)
    BY <1>5, <1>6
  <2>2. At(l, j + 1) = l[j + 1]
    BY <1>4 DEF At
  <2> QED
    BY <2>1, <2>2
<1>12. Finished(W, In(l), nx, At(l, 1))
  BY <1>3, <1>10 DEF S
<1>13. W = In(l)
  BY <1>4, <1>11, <1>12, FinishedAll
<1> QED
  BY <1>3, <1>13 DEF W

LEMMA MasterListIs ==
  ASSUME NEW h, NEW B, NEW C, NEW m, NEW r, Good(h, B, C, m, r, 0)
  PROVE  MasterList(h) = In(m)
<1>1. Shaped(h) /\ Tiled(h.mem, C, B, 0) /\ Lists(h, m, r)
  BY DEF Good
<1>2. Distinct(m) /\ Len(m) \in Nat /\ Dll(h, m, 1) /\ h.master_head = At(m, 1)
  BY <1>1, ListsFacts
<1>3. \A y \in In(m) : y \in C /\ y # 0
  <2>1. \A y \in In(m) : y \in C
    BY FiledFacts DEF Filed
  <2> QED
    BY <1>1, <2>1, ChunksNonZero DEF NonZero
<1> DEFINE S == In(m)
           nx == [x \in S |-> GetFree(h, x).next]
           W == MasterList(h)
<1>4. \A j \in 1 .. Len(m) : /\ m[j] \in S /\ GetFree(h, m[j]).next = At(m, j + 1)
                             /\ At(m, j + 1) \in S \cup {0}
  <2> TAKE j \in 1 .. Len(m)
  <2>1. m[j] \in S /\ h.mem[m[j] + 1].next = At(m, j + 1)
    BY <1>2, DllAt
  <2>2. j + 1 \in Int /\ (At(m, j + 1) # 0 => At(m, j + 1) \in S)
    BY <1>2, DllAt
  <2> QED
    BY <2>1, <2>2 DEF GetFree
<1>5. \A x \in S : \E j \in 1 .. Len(m) : m[j] = x
  BY <1>2, Members
<1>6. nx \in [S -> S \cup {0}] /\ \A x \in S : nx[x] = GetFree(h, x).next
  <2>1. \A x \in S : GetFree(h, x).next \in S \cup {0}
    BY <1>4, <1>5
  <2> QED
    BY <2>1
<1>7. At(m, 1) \in S \cup {0}
  BY <1>2, <1>4 DEF At
<1>8. W = FreeWalk(h, At(m, 1), MaxChunks)
  BY <1>2 DEF MasterList, FreeWalk
<1>9. IsFiniteSet(C) /\ Cardinality(C) \in Nat /\ Cardinality(C) <= MaxChunks /\ MaxChunks \in Nat
  BY <1>1, ChunkCount
<1>10. IsFiniteSet(S) /\ Cardinality(S) <= MaxChunks /\ 0 \notin S
  <2>1. S \in SUBSET C
    BY <1>3
  <2>2. IsFiniteSet(S) /\ Cardinality(S) <= Cardinality(C)
    BY <1>9, <2>1, FS_Subset
  <2>3. Cardinality(S) \in Nat
    BY <2>2, FS_CardinalityType
  <2> QED
    BY <1>3, <1>9, <2>2, <2>3
<1>11. \A j \in 1 .. Len(m) : j < Len(m) => nx[m[j]] = m[j + 1]
  BY <1>2, <1>4 DEF At
<1> HIDE DEF W, nx, S
<1>12. Finished(W, S, nx, At(m, 1))
  BY <1>6, <1>7, <1>8, <1>9, <1>10, FreeWalkIs
<1>13. W = In(m)
  BY <1>2, <1>11, <1>12, FinishedAll DEF S
<1> QED
  BY <1>13 DEF W

LEMMA RecyclerIs ==
  ASSUME NEW h, NEW B, NEW C, NEW m, NEW r, Good(h, B, C, m, r, 0)
  PROVE  Recycler(h) = In(r)
<1>1. Shaped(h) /\ Tiled(h.mem, C, B, 0) /\ Lists(h, m, r)
  BY DEF Good
<1>2. Distinct(r) /\ Len(r) \in Nat /\ Ring(h, r) /\ h.recycler_head = At(r, 1)
  BY <1>1, ListsFacts
<1>3. \A y \in In(r) : y \in C /\ y # 0
  <2>1. \A y \in In(r) : y \in C
    BY FiledFacts DEF Filed
  <2> QED
    BY <1>1, <2>1, ChunksNonZero DEF NonZero
<1> DEFINE S == In(r)
           nx == [x \in S |-> GetFree(h, x).next]
           W == Recycler(h)
<1>4. \A j \in 1 .. Len(r) : /\ r[j] \in S /\ GetFree(h, r[j]).next = r[Nxt(Len(r), j)]
                             /\ r[Nxt(Len(r), j)] \in S
  BY <1>1, <1>2, RingAt
<1>5. \A x \in S : \E j \in 1 .. Len(r) : r[j] = x
  BY <1>2, Members
<1>6. nx \in [S -> S \cup {0}] /\ \A x \in S : nx[x] = GetFree(h, x).next
  <2>1. \A x \in S : GetFree(h, x).next \in S \cup {0}
    BY <1>4, <1>5
  <2> QED
    BY <2>1
<1>7. At(r, 1) \in S \cup {0}
  BY <1>2, <1>4 DEF At
<1>8. W = FreeWalk(h, At(r, 1), MaxChunks)
  BY <1>2 DEF Recycler, FreeWalk
<1>9. IsFiniteSet(C) /\ Cardinality(C) \in Nat /\ Cardinality(C) <= MaxChunks /\ MaxChunks \in Nat
  BY <1>1, ChunkCount
<1>10. IsFiniteSet(S) /\ Cardinality(S) <= MaxChunks /\ 0 \notin S
  <2>1. S \in SUBSET C
    BY <1>3
  <2>2. IsFiniteSet(S) /\ Cardinality(S) <= Cardinality(C)
    BY <1>9, <2>1, FS_Subset
  <2>3. Cardinality(S) \in Nat
    BY <2>2, FS_CardinalityType
  <2> QED
    BY <1>3, <1>9, <2>2, <2>3
<1>11. \A j \in 1 .. Len(r) : j < Len(r) => nx[r[j]] = r[j + 1]
  BY <1>2, <1>4 DEF Nxt
<1> HIDE DEF W, nx, S
<1>12. Finished(W, S, nx, At(r, 1))
  BY <1>6, <1>7, <1>8, <1>9, <1>10, FreeWalkIs
<1>13. W = In(r)
  BY <1>2, <1>11, <1>12, FinishedAll DEF S
<1> QED
  BY <1>13 DEF W

-----------------------------------------------------------------------------
(***************************************************************************)
(* What the checked properties say of a sound state.                       *)
(***************************************************************************)
LEMMA LinksFields == \A p, n : Links(p, n).prev = p /\ Links(p, n).next = n
BY DEF Links

(* The links of a list, read one way and the other.                        *)
LEMMA DllLinks ==
  ASSUME NEW h, NEW l, NEW off, Dll(h, l, off), NEW x \in In(l)
  PROVE  /\ x \in Address
         /\ h.mem[x + off].next # 0 => /\ h.mem[x + off].next \in In(l)
                                       /\ h.mem[h.mem[x + off].next + off].prev = x
         /\ At(l, 1) # 0 => At(l, 1) \in In(l) /\ h.mem[At(l, 1) + off].prev = 0
<1>1. Distinct(l) /\ Len(l) \in Nat /\ \A j \in 1 .. Len(l) : l[j] \in In(l) /\ l[j] \in Address /\ l[j] # 0
  BY Members, AddressPositive DEF Dll
<1>2. PICK j \in 1 .. Len(l) : l[j] = x
  BY <1>1, Members
<1>3. \A k \in 1 .. Len(l) : h.mem[l[k] + off].prev = At(l, k - 1) /\ h.mem[l[k] + off].next = At(l, k + 1)
  BY DllAt
<1>4. h.mem[x + off].next # 0 => /\ h.mem[x + off].next \in In(l)
                                 /\ h.mem[h.mem[x + off].next + off].prev = x
  <2> HAVE h.mem[x + off].next # 0
  <2>1. At(l, j + 1) # 0 /\ h.mem[x + off].next = At(l, j + 1)
    BY <1>2, <1>3
  <2>2. j + 1 \in 1 .. Len(l) /\ At(l, j + 1) = l[j + 1]
    BY <2>1 DEF At
  <2>3. h.mem[l[j + 1] + off].prev = At(l, j + 1 - 1) /\ j + 1 - 1 = j
    BY <1>3, <2>2
  <2>4. At(l, j + 1 - 1) = x
    BY <1>2, <2>3 DEF At
  <2> QED
    BY <1>1, <2>1, <2>2, <2>3, <2>4
<1>5. At(l, 1) # 0 => At(l, 1) \in In(l) /\ h.mem[At(l, 1) + off].prev = 0
  <2> HAVE At(l, 1) # 0
  <2>1. 1 \in 1 .. Len(l) /\ At(l, 1) = l[1]
    BY DEF At
  <2>2. h.mem[l[1] + off].prev = At(l, 1 - 1)
    BY <1>3, <2>1
  <2>3. At(l, 1 - 1) = 0
    BY DEF At
  <2> QED
    BY <1>1, <2>1, <2>2, <2>3
<1> QED
  BY <1>1, <1>2, <1>4, <1>5

LEMMA WorldBlockList ==
  ASSUME NEW B, NEW C, World(heap, B, C)
  PROVE  BlockListExact
<1>1. PICK l : Listed(heap, l)
  BY DEF World
<1>2. BlockList(heap) = Blocks(heap)
  BY BlockListIs
<1>3. Dll(heap, l, 0) /\ heap.block_list = At(l, 1) /\ In(l) = Blocks(heap)
  BY <1>1 DEF Listed
<1>4. \A x \in In(l) : x \in Address /\ x + 0 = x
  BY <1>3, DllLinks, AddressPositive
<1>5. heap.block_list # Null => heap.mem[heap.block_list].prev = Null
  <2> HAVE heap.block_list # Null
  <2>1. At(l, 1) # 0
    BY <1>3 DEF Null
  <2>2. At(l, 1) \in In(l)
    BY <2>1 DEF At, In
  <2>3. heap.mem[At(l, 1) + 0].prev = 0
    BY <1>3, <2>1, <2>2, DllLinks
  <2> QED
    BY <1>3, <1>4, <2>2, <2>3 DEF Null
<1>6. ASSUME NEW b \in Blocks(heap), heap.mem[b].next # Null
      PROVE  heap.mem[heap.mem[b].next].prev = b
  <2>1. b \in In(l) /\ b + 0 = b
    BY <1>3, <1>4
  <2>2. heap.mem[b + 0].next # 0
    BY <1>6, <2>1 DEF Null
  <2>3. heap.mem[b + 0].next \in In(l) /\ heap.mem[heap.mem[b + 0].next + 0].prev = b
    BY <1>3, <2>1, <2>2, DllLinks
  <2>4. heap.mem[b].next + 0 = heap.mem[b].next
    BY <1>4, <2>1, <2>3
  <2> QED
    BY <2>1, <2>3, <2>4
<1> QED
  BY <1>2, <1>5, <1>6 DEF BlockListExact

LEMMA WorldTiled ==
  ASSUME NEW B, NEW C, World(heap, B, C)
  PROVE  BlocksTiled
<1>1. Tiled(heap.mem, C, B, 0)
  BY WorldFacts
<1>2. /\ \A b \in Blocks(heap) : IsJumbo(heap, b) <=> b \notin B
      /\ \A b \in B : ChunksOf(heap, b) = {c \in C : Home(c) = b}
  BY ChunksAre
<1>3. ASSUME NEW b \in B PROVE heap.mem[b + 1].prev = 0
  <2>1. b \in Block /\ b + 1 \in C /\ Home(b + 1) = b /\ b \in Nat
    BY <1>1, HomeFacts DEF Tiled, Inside
  <2>2. IsChunk(heap.mem, b + 1)
    BY <1>1, <2>1, ChunkIn
  <2>3. PICK c \in C : c = b + 1
    BY <2>1
  <2> DEFINE q == heap.mem[c].prev
  <2>4. q \in Nat
    BY <2>2, <2>3 DEF IsChunk
  <2>5. q # 0 => c - q \in C /\ Home(c - q) = Home(c)
    BY <1>1, Neighbours
  <2>6. q # 0 => Home(c - q) < c - q
    BY <1>1, <2>5, ChunkFacts
  <2> HIDE DEF q
  <2>9. Home(c) = b
    BY <2>1, <2>3
  <2>7. q # 0 => b < c - q
    BY <2>5, <2>6, <2>9
  <2>8. q = 0
    BY <2>1, <2>3, <2>4, <2>7
  <2> QED
    BY <2>3, <2>8 DEF q
<1>4. ASSUME NEW b \in B, NEW c \in C, Home(c) = b
      PROVE  LET n == ChunkNext(heap, c)
             IN  /\ heap.mem[c].len >= 1 /\ ~heap.mem[c].jumbo
                 /\ IF n = Null THEN c + heap.mem[c].len = b + BlockSize
                                ELSE heap.mem[n].prev = heap.mem[c].len
  <2>1. IsChunk(heap.mem, c) /\ heap.mem[c].len >= 1 /\ End(heap.mem, c) = c + heap.mem[c].len
    BY <1>1, ChunkIn
  <2>2. ~heap.mem[c].jumbo
    BY <2>1 DEF IsChunk, Chunk
  <2>3. CASE heap.mem[c].last
    <3>1. ChunkNext(heap, c) = 0 /\ c + heap.mem[c].len = b + BlockSize
      BY <1>1, <1>4, <2>1, <2>3, Neighbours DEF ChunkNext, Null
    <3> QED
      BY <2>1, <2>2, <3>1 DEF Null
  <2>4. CASE ~heap.mem[c].last
    <3>1. ChunkNext(heap, c) = End(heap.mem, c) /\ End(heap.mem, c) # 0
      BY <1>1, <2>1, <2>4, ChunksNonZero DEF ChunkNext
    <3>2. heap.mem[End(heap.mem, c)].prev = heap.mem[c].len
      BY <1>1, <2>4, Neighbours
    <3> QED
      BY <2>1, <2>2, <3>1, <3>2 DEF Null
  <2> QED
    BY <2>3, <2>4
<1>5. \A b \in Blocks(heap) : ~IsJumbo(heap, b) => b \in B
  BY <1>2
<1>6. ASSUME NEW b \in {b \in Blocks(heap) : ~IsJumbo(heap, b)}, NEW c \in ChunksOf(heap, b)
      PROVE  b \in B /\ c \in C /\ Home(c) = b
  BY <1>2, <1>5
<1> QED
  BY <1>3, <1>4, <1>5, <1>6 DEF BlocksTiled

LEMMA WorldSpaced ==
  ASSUME NEW B, NEW C, World(heap, B, C)
  PROVE  NoConsecutiveFree
<1>1. Tiled(heap.mem, C, B, 0) /\ Spaced(heap, C, 0)
  BY WorldFacts
<1>2. Chunks(heap) = C
  BY ChunksAre
<1>3. ASSUME NEW c \in C, IsFree(heap, c), IsFree(heap, ChunkNext(heap, c)) PROVE FALSE
  <2>1. ~heap.mem[c].last /\ ChunkNext(heap, c) = End(heap.mem, c)
    BY <1>3 DEF IsFree, ChunkNext, End, Null
  <2>2. ~heap.mem[c].used /\ ~heap.mem[End(heap.mem, c)].used
    BY <1>3, <2>1 DEF IsFree
  <2>3. c # 0 /\ End(heap.mem, c) # 0
    BY <1>1, ChunksNonZero DEF NonZero
  <2> QED
    BY <1>1, <2>1, <2>2, <2>3 DEF Spaced
<1> QED
  BY <1>2, <1>3 DEF NoConsecutiveFree

LEMMA WorldFreeLists ==
  ASSUME NEW B, NEW C, World(heap, B, C)
  PROVE  FreeListsExact /\ MasterServesAny
<1>1. PICK m, r : Good(heap, B, C, m, r, 0)
  BY DEF World, Sound
<1>2. Chunks(heap) = C
  BY ChunksAre
<1>3. MasterList(heap) = In(m) /\ Recycler(heap) = In(r)
  BY <1>1, MasterListIs, RecyclerIs
<1>4. Shaped(heap) /\ Tiled(heap.mem, C, B, 0) /\ Lists(heap, m, r) /\ Filed(m, r) = FreeSet(heap, C, 0)
      /\ MasterFull(heap, m)
  BY <1>1 DEF Good
<1>5. /\ Distinct(r) /\ Len(r) \in Nat /\ Ring(heap, r) /\ Dll(heap, m, 1) /\ heap.master_head = At(m, 1)
      /\ In(m) \cap In(r) = {}
  BY <1>4, ListsFacts DEF Lists
<1>6. \A c \in C : IsFree(heap, c) /\ HasRoom(heap, c) <=> c # 0 /\ ~heap.mem[c].used /\ heap.mem[c].len >= 2
  <2> TAKE c \in C
  <2>1. heap.mem[c].len \in Nat
    BY <1>4, ChunkIn
  <2>2. HasRoom(heap, c) <=> heap.mem[c].len >= 2
    BY <2>1 DEF HasRoom
  <2> QED
    BY <2>2 DEF IsFree, Null
<1>7. In(m) \cup In(r) = {c \in C : IsFree(heap, c) /\ HasRoom(heap, c)}
  BY <1>4, <1>6 DEF Filed, FreeSet
<1>8. heap.master_head # Null => GetFree(heap, heap.master_head).prev = Null
  <2> HAVE heap.master_head # Null
  <2>1. At(m, 1) # 0 /\ At(m, 1) \in In(m)
    BY <1>5 DEF At, In, Null
  <2>2. heap.mem[At(m, 1) + 1].prev = 0
    BY <1>5, <2>1, DllLinks
  <2> QED
    BY <1>5, <2>2 DEF GetFree, Null
<1>9. ASSUME NEW c \in In(m), GetFree(heap, c).next # Null
      PROVE  GetFree(heap, GetFree(heap, c).next).prev = c
  BY <1>5, <1>9, DllLinks DEF GetFree, Null
<1>10. ASSUME NEW c \in In(r)
       PROVE  /\ GetFree(heap, GetFree(heap, c).next).prev = c
              /\ GetFree(heap, GetFree(heap, c).prev).next = c
  <2>1. PICK p \in 1 .. Len(r) : r[p] = c
    BY <1>5, Members
  <2> DEFINE a == Prv(Len(r), p)
             z == Nxt(Len(r), p)
  <2>2. a \in 1 .. Len(r) /\ z \in 1 .. Len(r) /\ Nxt(Len(r), a) = p /\ Prv(Len(r), z) = p
    BY <1>5, Indices
  <2>3. GetFree(heap, c).prev = r[a] /\ GetFree(heap, c).next = r[z]
    BY <1>4, <1>5, <2>1, RingAt
  <2> HIDE DEF a, z
  <2>4. GetFree(heap, r[a]).next = r[p]
    BY <1>4, <1>5, <2>2, RingAt
  <2>5. GetFree(heap, r[z]).prev = r[p]
    BY <1>4, <1>5, <2>2, RingAt
  <2> QED
    BY <2>1, <2>3, <2>4, <2>5
<1>11. FreeListsExact
  BY <1>2, <1>3, <1>5, <1>7, <1>8, <1>9, <1>10 DEF FreeListsExact
<1>12. ASSUME NEW c \in In(m), c # heap.master_head
       PROVE  DataLen(heap, c) >= MaxAllocSize
  <2>1. heap.mem[c].len = BlockSize - 1
    BY <1>4, <1>12 DEF MasterFull
  <2>2. DataLen(heap, c) = MaxAllocSize /\ MaxAllocSize \in Nat
    BY <2>1, WholeData
  <2> QED
    BY <2>2
<1>13. MasterServesAny
  BY <1>3, <1>12 DEF MasterServesAny
<1> QED
  BY <1>11, <1>13

-----------------------------------------------------------------------------
(***************************************************************************)
(* The users of the allocator: every allocation r of i sits in a chunk of  *)
(* its own and holds what i wrote, and every chunk in use is somebody's.   *)
(***************************************************************************)
Houses(h, B, C, r, i) ==
  /\ r \in [ptr : Nat, size : Size] /\ r.ptr - 1 \in Users(h, B, C)
  /\ Units(r.size) <= Span(h, B, r.ptr - 1)
  /\ \A a \in CellsOf(r) : h.mem[a] = Data(i)

Tenants(h, B, C, f) ==
  /\ f = [i \in DOMAIN f |-> f[i]] /\ DOMAIN f \subseteq Id
  /\ \A i \in DOMAIN f : Houses(h, B, C, f[i], i)
  /\ \A i, j \in DOMAIN f : f[i].ptr = f[j].ptr => i = j
  /\ \A c \in Users(h, B, C) : \E i \in DOMAIN f : f[i].ptr = c + 1

LEMMA HousedIn ==
  ASSUME NEW h, NEW B, NEW C, World(h, B, C), NEW r, NEW i, Houses(h, B, C, r, i)
  PROVE  /\ r.ptr \in Nat /\ r.size \in Size /\ r = [ptr |-> r.ptr, size |-> r.size]
         /\ r.ptr - 1 \in Users(h, B, C) /\ r.ptr - 1 \in Nat /\ r.ptr = r.ptr - 1 + 1
         /\ Units(r.size) \in Nat /\ Units(r.size) >= 1 /\ Units(r.size) <= Span(h, B, r.ptr - 1)
         /\ \A a \in CellsOf(r) : /\ a \in Address /\ a \in Cells(h, B, r.ptr - 1) /\ h.mem[a] = Data(i)
                                  /\ a \in r.ptr .. r.ptr + Units(r.size) - 1
         /\ r.ptr \in Address
<1> DEFINE c == r.ptr - 1
           n == Units(r.size)
<1>1. r.ptr \in Nat /\ r.size \in Size /\ r = [ptr |-> r.ptr, size |-> r.size]
  BY DEF Houses
<1>2. c \in Users(h, B, C) /\ n <= Span(h, B, c) /\ \A a \in CellsOf(r) : h.mem[a] = Data(i)
  BY DEF Houses
<1>3. c \in Nat
  BY <1>2, UserFacts
<1>4. n \in Nat /\ n >= 1
  BY <1>1, SizeFacts
<1>5. r.ptr = c + 1 /\ CellsOf(r) = r.ptr .. r.ptr + n - 1
  BY <1>1 DEF CellsOf
<1> HIDE DEF c, n
<1>6. \A a \in c + 1 .. c + n : a \in Cells(h, B, c)
  BY <1>2, <1>4, UserAddress
<1>7. \A a \in Cells(h, B, c) : a \in Address
  BY <1>2, UserFacts
<1>8. CellsOf(r) = c + 1 .. c + n
  <2>1. c + 1 + n - 1 = c + n
    BY <1>3, <1>4
  <2>2. CellsOf(r) = c + 1 .. c + 1 + n - 1
    BY <1>5
  <2> QED
    BY <2>1, <2>2
<1>9. r.ptr \in CellsOf(r)
  BY <1>1, <1>4, <1>5
<1>10. \A a \in CellsOf(r) : a \in r.ptr .. r.ptr + n - 1 /\ a \in Address /\ a \in Cells(h, B, c)
  BY <1>5, <1>6, <1>7, <1>8
<1> QED
  BY <1>1, <1>2, <1>3, <1>4, <1>5, <1>9, <1>10 DEF c, n

LEMMA HousesKept ==
  ASSUME NEW h, NEW B, NEW C, World(h, B, C), NEW r, NEW i, Houses(h, B, C, r, i),
         NEW g, NEW D, NEW E, r.ptr - 1 \in Users(g, D, E), Untouched(h, B, g, D, r.ptr - 1)
  PROVE  Houses(g, D, E, r, i)
<1>1. r \in [ptr : Nat, size : Size] /\ Units(r.size) <= Span(h, B, r.ptr - 1)
  BY DEF Houses
<1>2. \A a \in CellsOf(r) : a \in Cells(h, B, r.ptr - 1) /\ h.mem[a] = Data(i)
  BY HousedIn
<1>3. Span(g, D, r.ptr - 1) = Span(h, B, r.ptr - 1) /\ \A a \in Cells(h, B, r.ptr - 1) : g.mem[a] = h.mem[a]
  BY DEF Untouched
<1> QED
  BY <1>1, <1>2, <1>3 DEF Houses

LEMMA TenantFacts ==
  ASSUME NEW h, NEW B, NEW C, NEW f, Tenants(h, B, C, f)
  PROVE  /\ f = [i \in DOMAIN f |-> f[i]] /\ DOMAIN f \subseteq Id
         /\ \A i \in DOMAIN f : Houses(h, B, C, f[i], i)
         /\ \A i, j \in DOMAIN f : f[i].ptr = f[j].ptr => i = j
         /\ \A c \in Users(h, B, C) : \E i \in DOMAIN f : f[i].ptr = c + 1
BY DEF Tenants

(* The user writes to an allocation.                                       *)
Unwritten(k, i, r, first) ==
  \A a \in CellsOf(r) : ~(a >= r.ptr + first) => k.mem[a] = Data(i)

LEMMA WriteCells ==
  ASSUME NEW k, Shaped(k), NEW i, NEW r, NEW first
  PROVE  LET g == Write(k, i, r, first)
         IN  /\ WroteOnly(k, g, CellsOf(r))
             /\ Unwritten(k, i, r, first) => \A a \in CellsOf(r) : a \in Address => g.mem[a] = Data(i)
<1> DEFINE g == Write(k, i, r, first)
           m == [a \in Address |-> IF a \in CellsOf(r) /\ a >= r.ptr + first THEN Data(i) ELSE k.mem[a]]
<1>1. g = [k EXCEPT !.mem = m]
  BY DEF Write
<1>2. \A a \in Address : m[a] = IF a \in CellsOf(r) /\ a >= r.ptr + first THEN Data(i) ELSE k.mem[a]
  OBVIOUS
<1>3. m = [a \in Address |-> m[a]]
  OBVIOUS
<1> HIDE DEF m, g
<1>4. HeadsKept(k, g) /\ g.mem = m
  BY <1>1, <1>3 DEF HeadsKept, Shaped
<1>5. WroteOnly(k, g, CellsOf(r))
  BY <1>2, <1>4 DEF WroteOnly
<1>6. Unwritten(k, i, r, first) => \A a \in CellsOf(r) : a \in Address => g.mem[a] = Data(i)
  BY <1>2, <1>4 DEF Unwritten
<1> QED
  BY <1>5, <1>6 DEF g

(* After an operation that leaves alone every chunk outside X, i has its   *)
(* allocation in the chunk d, and writes to it.                            *)
Expected(h, B, C, f, k, D, E, i, r, X) ==
  /\ World(k, D, E) /\ Serves(h, B, C, k, D, E, X) /\ r.ptr - 1 \in X
  /\ r \in [ptr : Nat, size : Size] /\ r.ptr - 1 \in Users(k, D, E)
  /\ Units(r.size) <= Span(k, D, r.ptr - 1)
  /\ \A j \in DOMAIN f : j # i => f[j].ptr - 1 \notin X
  /\ \A j \in DOMAIN f : j = i => f[j].ptr - 1 \in X
  /\ \A c \in Users(k, D, E) : c \in X => c = r.ptr - 1

\* g is f with r for i.
Changed(f, g, i, r) ==
    /\ g = [j \in DOMAIN g |-> g[j]] /\ DOMAIN g = DOMAIN f \cup {i} /\ g[i] = r
    /\ \A j \in DOMAIN f : j # i => g[j] = f[j]

LEMMA WithIs ==
  ASSUME NEW f, NEW i, NEW r
  PROVE  Changed(f, With(f, i, r), i, r)
BY DEF With, Changed

LEMMA WriteHoused ==
  ASSUME NEW k, NEW D, NEW E, World(k, D, E), NEW r \in [ptr : Nat, size : Size],
         r.ptr - 1 \in Users(k, D, E), Units(r.size) <= Span(k, D, r.ptr - 1), NEW i, NEW first,
         Unwritten(k, i, r, first)
  PROVE  LET g == Write(k, i, r, first)
             c == r.ptr - 1
         IN  World(g, D, E) /\ Serves(k, D, E, g, D, E, {c}) /\ Houses(g, D, E, r, i)
<1> DEFINE g == Write(k, i, r, first)
           c == r.ptr - 1
           n == Units(r.size)
<1>1. Shaped(k)
  BY WorldFacts
<1>2. r.ptr \in Nat /\ r.size \in Size /\ c \in Users(k, D, E) /\ n <= Span(k, D, c)
  OBVIOUS
<1>3. c \in Nat /\ n \in Nat /\ r.ptr = c + 1
  BY <1>2, UserFacts, SizeFacts
<1>4. CellsOf(r) = c + 1 .. c + n
  <2> HIDE DEF c, n
  <2>1. c + 1 + n - 1 = c + n
    BY <1>3
  <2>2. CellsOf(r) = c + 1 .. c + 1 + n - 1
    BY <1>3 DEF CellsOf, n
  <2> QED
    BY <2>1, <2>2
<1> HIDE DEF g, c, n
<1>5. \A a \in CellsOf(r) : a \in Cells(k, D, c) /\ a \in Address
  <2>1. \A a \in c + 1 .. c + n : a \in Cells(k, D, c)
    BY <1>2, <1>3, UserAddress
  <2>2. \A a \in Cells(k, D, c) : a \in Address
    BY <1>2, UserFacts
  <2> QED
    BY <1>4, <2>1, <2>2
<1>6. WroteOnly(k, g, CellsOf(r)) /\ \A a \in CellsOf(r) : g.mem[a] = Data(i)
  BY <1>1, <1>5, WriteCells DEF g
<1>7. WroteOnly(k, g, Cells(k, D, c))
  BY <1>5, <1>6 DEF WroteOnly
<1>8. World(g, D, E) /\ Serves(k, D, E, g, D, E, {c}) /\ c \in Users(g, D, E) /\ Span(g, D, c) = Span(k, D, c)
  BY <1>2, <1>7, WriteIs
<1>9. Houses(g, D, E, r, i)
  BY <1>2, <1>6, <1>8 DEF Houses, c, n
<1> QED
  BY <1>8, <1>9 DEF g, c

LEMMA LodgeIs ==
  ASSUME NEW h, NEW B, NEW C, World(h, B, C), NEW f, Tenants(h, B, C, f), NEW i \in Id,
         NEW k, NEW D, NEW E, NEW r, NEW X, Expected(h, B, C, f, k, D, E, i, r, X),
         NEW first, Unwritten(k, i, r, first)
  PROVE  LET g == Write(k, i, r, first)
         IN  World(g, D, E) /\ Tenants(g, D, E, With(f, i, r))
<1> DEFINE g == Write(k, i, r, first)
           e == With(f, i, r)
           d == r.ptr - 1
<1>1. /\ World(k, D, E) /\ Serves(h, B, C, k, D, E, X) /\ d \in X
      /\ r \in [ptr : Nat, size : Size] /\ d \in Users(k, D, E)
      /\ Units(r.size) <= Span(k, D, d)
      /\ \A j \in DOMAIN f : j # i => f[j].ptr - 1 \notin X
      /\ \A j \in DOMAIN f : j = i => f[j].ptr - 1 \in X
      /\ \A c \in Users(k, D, E) : c \in X => c = d
  BY DEF Expected
<1>2. World(g, D, E) /\ Serves(k, D, E, g, D, E, {d}) /\ Houses(g, D, E, r, i)
  BY <1>1, WriteHoused
<1>a. Changed(f, e, i, r)
  BY WithIs
<1>3. e = [j \in DOMAIN e |-> e[j]] /\ DOMAIN e = DOMAIN f \cup {i} /\ e[i] = r
      /\ \A j \in DOMAIN f : j # i => e[j] = f[j]
  <2> HIDE DEF e
  <2> QED
    BY <1>a DEF Changed
<1>4. /\ DOMAIN f \subseteq Id
      /\ \A j \in DOMAIN f : Houses(h, B, C, f[j], j)
      /\ \A j, m \in DOMAIN f : f[j].ptr = f[m].ptr => j = m
      /\ \A c \in Users(h, B, C) : \E j \in DOMAIN f : f[j].ptr = c + 1
  BY TenantFacts
<1> HIDE DEF g, e
<1>5. Serves(h, B, C, g, D, E, X)
  <2>1. {d} \subseteq X
    BY <1>1
  <2>2. Serves(k, D, E, g, D, E, X)
    BY <1>2, <2>1, ServesMore
  <2> QED
    BY <1>1, <2>2, ServesTrans
<1>6. ASSUME NEW j \in DOMAIN f, j # i PROVE Houses(g, D, E, e[j], j) /\ e[j].ptr # r.ptr
  <2> DEFINE c == f[j].ptr - 1
  <2>1. Houses(h, B, C, f[j], j) /\ c \notin X
    BY <1>1, <1>4, <1>6
  <2>2. c \in Users(h, B, C)
    BY <2>1 DEF Houses
  <2>3. c \in Users(g, D, E) /\ Untouched(h, B, g, D, c)
    BY <1>5, <2>1, <2>2 DEF Serves
  <2> HIDE DEF c
  <2>4. Houses(g, D, E, f[j], j)
    BY <2>1, <2>3, HousesKept DEF c
  <2>5. f[j].ptr # r.ptr
    BY <1>1, <2>1 DEF c
  <2> QED
    BY <1>3, <1>6, <2>4, <2>5
<1>7. \A j \in DOMAIN e : Houses(g, D, E, e[j], j)
  BY <1>2, <1>3, <1>6
<1>8. ASSUME NEW j \in DOMAIN e, NEW m \in DOMAIN e, e[j].ptr = e[m].ptr PROVE j = m
  <2>1. CASE j = i
    BY <1>3, <1>6, <1>8, <2>1
  <2>2. CASE m = i
    BY <1>3, <1>6, <1>8, <2>2
  <2>3. CASE j # i /\ m # i
    BY <1>3, <1>4, <1>8, <2>3
  <2> QED
    BY <2>1, <2>2, <2>3
<1>9. ASSUME NEW c \in Users(g, D, E) PROVE \E j \in DOMAIN e : e[j].ptr = c + 1
  <2>1. CASE c \in X
    <3>1. c = d
      BY <1>1, <1>2, <1>9, <2>1 DEF Serves
    <3>2. d + 1 = r.ptr
      BY <1>1
    <3> QED
      BY <1>3, <3>1, <3>2
  <2>2. CASE c \notin X
    <3>1. c \in Users(h, B, C)
      BY <1>5, <2>2 DEF Serves
    <3>2. PICK j \in DOMAIN f : f[j].ptr = c + 1
      BY <1>4, <3>1
    <3>3. f[j].ptr - 1 = c
      BY <3>1, <3>2, UserFacts
    <3>4. j # i
      BY <1>1, <2>2, <3>3
    <3> QED
      BY <1>3, <3>2, <3>4
  <2> QED
    BY <2>1, <2>2
<1>10. DOMAIN e \subseteq Id
  BY <1>3, <1>4
<1>11. Tenants(g, D, E, e)
  BY <1>3, <1>7, <1>8, <1>9, <1>10 DEF Tenants
<1> QED
  BY <1>2, <1>11 DEF g, e

LEMMA WithoutIs ==
  ASSUME NEW f, NEW i
  PROVE  LET g == Without(f, {i})
         IN  g = [j \in DOMAIN g |-> g[j]] /\ DOMAIN g = DOMAIN f \ {i} /\ \A j \in DOMAIN g : g[j] = f[j]
BY DEF Without

LEMMA LeaveIs ==
  ASSUME NEW h, NEW B, NEW C, World(h, B, C), NEW f, Tenants(h, B, C, f), NEW i \in DOMAIN f,
         NEW g, NEW D, NEW E, Freed(h, B, C, g, D, E, f[i].ptr - 1)
  PROVE  Tenants(g, D, E, Without(f, {i}))
<1> DEFINE e == Without(f, {i})
           d == f[i].ptr - 1
<1>1. World(g, D, E) /\ Serves(h, B, C, g, D, E, {d}) /\ d \notin Users(g, D, E)
  BY DEF Freed
<1>2. e = [j \in DOMAIN e |-> e[j]] /\ DOMAIN e = DOMAIN f \ {i} /\ \A j \in DOMAIN e : e[j] = f[j]
  BY WithoutIs
<1>3. /\ DOMAIN f \subseteq Id
      /\ \A j \in DOMAIN f : Houses(h, B, C, f[j], j)
      /\ \A j, m \in DOMAIN f : f[j].ptr = f[m].ptr => j = m
      /\ \A c \in Users(h, B, C) : \E j \in DOMAIN f : f[j].ptr = c + 1
  BY TenantFacts
<1> HIDE DEF e
<1>4. \A j \in DOMAIN f : f[j].ptr - 1 \in Nat /\ f[j].ptr \in Nat /\ f[j].ptr - 1 + 1 = f[j].ptr
  BY <1>3, HousedIn
<1>5. ASSUME NEW j \in DOMAIN e PROVE Houses(g, D, E, e[j], j)
  <2> DEFINE c == f[j].ptr - 1
  <2>1. j \in DOMAIN f /\ j # i /\ e[j] = f[j]
    BY <1>2
  <2>2. Houses(h, B, C, f[j], j) /\ c # d
    BY <1>3, <1>4, <2>1
  <2>3. c \in Users(h, B, C)
    BY <2>2 DEF Houses
  <2>4. c \in Users(g, D, E) /\ Untouched(h, B, g, D, c)
    BY <1>1, <2>2, <2>3 DEF Serves
  <2> HIDE DEF c
  <2>5. Houses(g, D, E, f[j], j)
    BY <2>2, <2>4, HousesKept DEF c
  <2> QED
    BY <2>1, <2>5
<1>6. \A j, m \in DOMAIN e : e[j].ptr = e[m].ptr => j = m
  BY <1>2, <1>3
<1>7. ASSUME NEW c \in Users(g, D, E) PROVE \E j \in DOMAIN e : e[j].ptr = c + 1
  <2>1. c \in Users(h, B, C) /\ c # d
    BY <1>1, <1>7 DEF Serves
  <2>2. PICK j \in DOMAIN f : f[j].ptr = c + 1
    BY <1>3, <2>1
  <2>3. f[j].ptr - 1 = c
    BY <2>1, <2>2, UserFacts
  <2> QED
    BY <1>2, <2>1, <2>2, <2>3
<1> QED
  BY <1>2, <1>3, <1>5, <1>6, <1>7 DEF Tenants, e

\* The heap h, made of blocks B and chunks C, houses the allocations f.
Occupied(h, B, C, f) == World(h, B, C) /\ Tenants(h, B, C, f)

LEMMA RecordFields ==
  ASSUME NEW p \in Nat, NEW size \in Size
  PROVE  LET r == [ptr |-> p, size |-> size]
         IN  r \in [ptr : Nat, size : Size] /\ r.ptr = p /\ r.size = size
OBVIOUS

LEMMA FreshCells ==
  ASSUME NEW k, NEW i, NEW r, r.ptr \in Nat, r.size \in Size
  PROVE  Unwritten(k, i, r, 0)
<1>1. Units(r.size) \in Nat
  BY SizeFacts
<1>2. \A a \in CellsOf(r) : a \in r.ptr .. r.ptr + Units(r.size) - 1
  BY DEF CellsOf
<1>3. \A a \in CellsOf(r) : a >= r.ptr + 0
  BY <1>1, <1>2
<1> QED
  BY <1>3 DEF Unwritten

LEMMA AllocExpected ==
  ASSUME NEW h, NEW B, NEW C, NEW f, Occupied(h, B, C, f), NEW i \in Id, i \notin DOMAIN f,
         NEW k, NEW D, NEW E, NEW r, r \in [ptr : Nat, size : Size],
         Given(h, B, C, k, D, E, r.ptr - 1, r.size)
  PROVE  Expected(h, B, C, f, k, D, E, i, r, {r.ptr - 1})
<1> DEFINE d == r.ptr - 1
<1>1. /\ World(k, D, E) /\ Serves(h, B, C, k, D, E, {d})
      /\ d \in Users(k, D, E) /\ d \notin Users(h, B, C) /\ Units(r.size) <= Span(k, D, d)
  BY DEF Given
<1>2. \A j \in DOMAIN f : Houses(h, B, C, f[j], j)
  BY TenantFacts DEF Occupied
<1>3. \A j \in DOMAIN f : f[j].ptr - 1 # d
  BY <1>1, <1>2 DEF Houses
<1> HIDE DEF d
<1>4. Expected(h, B, C, f, k, D, E, i, r, {d})
  BY <1>1, <1>3 DEF Expected, d
<1> QED
  BY <1>4 DEF d

LEMMA AllocLodges ==
  ASSUME NEW h, NEW B, NEW C, NEW f, Occupied(h, B, C, f), NEW i \in Id, i \notin DOMAIN f,
         NEW size \in Size, Serviceable(h, size)
  PROVE  LET new == BlockAlloc(h, size)
             r == [ptr |-> new.ptr, size |-> size]
         IN  \E D, E : Occupied(Write(new.heap, i, r, 0), D, E, With(f, i, r))
<1> DEFINE new == BlockAlloc(h, size)
           p == new.ptr
           k == new.heap
           r == [ptr |-> p, size |-> size]
<1>1. World(h, B, C) /\ Tenants(h, B, C, f)
  BY DEF Occupied
<1>2. PICK D, E : Given(h, B, C, k, D, E, p - 1, size) /\ p \in Nat
  BY <1>1, AllocIs
<1> HIDE DEF new, p, k
<1>3. r \in [ptr : Nat, size : Size] /\ r.ptr = p /\ r.size = size
  BY <1>2
<1> HIDE DEF r
<1>4. Expected(h, B, C, f, k, D, E, i, r, {r.ptr - 1})
  BY <1>2, <1>3, AllocExpected
<1>5. Unwritten(k, i, r, 0)
  BY <1>3, FreshCells, <1>2
<1>6. World(Write(k, i, r, 0), D, E) /\ Tenants(Write(k, i, r, 0), D, E, With(f, i, r))
  BY <1>1, <1>4, <1>5, LodgeIs
<1>7. Occupied(Write(k, i, r, 0), D, E, With(f, i, r))
  BY <1>6 DEF Occupied
<1> QED
  BY <1>7 DEF new, p, k, r

LEMMA ResizedExpected ==
  ASSUME NEW h, NEW B, NEW C, NEW f, Occupied(h, B, C, f), NEW i \in DOMAIN f,
         NEW k, NEW D, NEW E, NEW r, r \in [ptr : Nat, size : Size], NEW c, c = f[i].ptr - 1,
         Resized(h, B, C, k, D, E, c, r.ptr - 1, r.size)
  PROVE  Expected(h, B, C, f, k, D, E, i, r, {c, r.ptr - 1})
<1> DEFINE d == r.ptr - 1
<1>1. /\ World(k, D, E) /\ Serves(h, B, C, k, D, E, {c, d})
      /\ d \in Users(k, D, E) /\ Units(r.size) <= Span(k, D, d)
      /\ (c # d => c \notin Users(k, D, E) /\ d \notin Users(h, B, C))
  BY DEF Resized
<1>2. \A j \in DOMAIN f : Houses(h, B, C, f[j], j)
  BY TenantFacts DEF Occupied
<1>3. \A j, m \in DOMAIN f : f[j].ptr = f[m].ptr => j = m
  BY TenantFacts DEF Occupied
<1>4. \A j \in DOMAIN f : f[j].ptr \in Nat
  BY <1>2 DEF Houses
<1>5. \A j \in DOMAIN f : j # i => f[j].ptr - 1 # c
  <2>1. \A j \in DOMAIN f : f[j].ptr - 1 = f[i].ptr - 1 => f[j].ptr = f[i].ptr
    BY <1>4
  <2> QED
    BY <1>3, <2>1
<1>6. \A j \in DOMAIN f : j # i => f[j].ptr - 1 # d
  BY <1>1, <1>2, <1>5 DEF Houses
<1> HIDE DEF d
<1>7. Expected(h, B, C, f, k, D, E, i, r, {c, d})
  BY <1>1, <1>5, <1>6 DEF Expected, d
<1> QED
  BY <1>7 DEF d

LEMMA ResizedCells ==
  ASSUME NEW h, NEW B, NEW C, NEW f, Occupied(h, B, C, f), NEW i \in DOMAIN f,
         NEW k, NEW D, NEW E, NEW r, r \in [ptr : Nat, size : Size], NEW c, c = f[i].ptr - 1,
         Resized(h, B, C, k, D, E, c, r.ptr - 1, r.size)
  PROVE  Unwritten(k, i, r, Units(f[i].size))
<1> DEFINE d == r.ptr - 1
           n == Units(r.size)
           old == Units(f[i].size)
<1>1. \A w \in Nat : w <= n /\ w <= Span(h, B, c) => Copied(h, k, c, d, w)
  BY DEF Resized
<1>2. World(h, B, C) /\ Houses(h, B, C, f[i], i)
  BY TenantFacts DEF Occupied
<1>3. /\ f[i].ptr \in Nat /\ f[i].ptr = c + 1 /\ c \in Nat /\ old \in Nat /\ old <= Span(h, B, c)
      /\ c \in Users(h, B, C) /\ \A a \in CellsOf(f[i]) : h.mem[a] = Data(i)
  BY <1>2, HousedIn
<1>4. Span(h, B, c) \in Nat
  BY <1>2, <1>3, UserFacts
<1>5. n \in Nat /\ d + 1 = r.ptr /\ d \in Int
  BY SizeFacts
<1>6. CellsOf(r) = r.ptr .. r.ptr + n - 1 /\ CellsOf(f[i]) = f[i].ptr .. f[i].ptr + old - 1
  BY DEF CellsOf
<1>7. r.ptr \in Nat
  OBVIOUS
<1> HIDE DEF d, n, old
<1>8. ASSUME NEW a \in CellsOf(r), ~(a >= r.ptr + old) PROVE k.mem[a] = Data(i)
  <2> DEFINE u == a - r.ptr
  <2>1. u \in Nat /\ u + 1 \in Nat /\ u + 1 <= n /\ u + 1 <= old /\ d + 1 + u = a
    <3>1. PICK q \in Nat : q = r.ptr
      BY <1>7
    <3>2. a \in q .. q + n - 1 /\ ~(a >= q + old) /\ u = a - q /\ d + 1 = q
      BY <1>5, <1>6, <1>8, <3>1
    <3>3. n \in Nat /\ old \in Nat /\ d \in Int
      BY <1>3, <1>5
    <3> HIDE DEF u
    <3> QED
      BY <3>2, <3>3
  <2> HIDE DEF u
  <2>2. u + 1 <= Span(h, B, c)
    BY <1>3, <1>4, <2>1
  <2>3. Copied(h, k, c, d, u + 1)
    BY <1>1, <2>1, <2>2
  <2>4. u \in 0 .. u + 1 - 1
    BY <2>1
  <2>5. k.mem[d + 1 + u] = h.mem[c + 1 + u]
    BY <2>3, <2>4 DEF Copied
  <2>6. c + 1 + u \in CellsOf(f[i])
    BY <1>3, <1>6, <2>1
  <2> QED
    BY <1>3, <2>1, <2>5, <2>6
<1> QED
  BY <1>8 DEF Unwritten, old

LEMMA ResizedLodges ==
  ASSUME NEW h, NEW B, NEW C, NEW f, Occupied(h, B, C, f), NEW i \in DOMAIN f,
         NEW k, NEW D, NEW E, NEW p \in Nat, NEW size \in Size, NEW c, c = f[i].ptr - 1,
         Resized(h, B, C, k, D, E, c, p - 1, size)
  PROVE  LET r == [ptr |-> p, size |-> size]
         IN  Occupied(Write(k, i, r, Units(f[i].size)), D, E, With(f, i, r))
<1> DEFINE r == [ptr |-> p, size |-> size]
           first == Units(f[i].size)
<1>1. World(h, B, C) /\ Tenants(h, B, C, f)
  BY DEF Occupied
<1>2. i \in Id
  BY <1>1, TenantFacts
<1>3. r \in [ptr : Nat, size : Size] /\ r.ptr = p /\ r.size = size
  OBVIOUS
<1> HIDE DEF r
<1>4. Expected(h, B, C, f, k, D, E, i, r, {c, r.ptr - 1})
  BY <1>3, ResizedExpected
<1>5. Unwritten(k, i, r, first)
  BY <1>3, ResizedCells
<1> HIDE DEF first
<1>6. World(Write(k, i, r, first), D, E) /\ Tenants(Write(k, i, r, first), D, E, With(f, i, r))
  BY <1>1, <1>2, <1>4, <1>5, LodgeIs
<1> QED
  BY <1>6 DEF Occupied, r, first

LEMMA FreeLodges ==
  ASSUME NEW h, NEW B, NEW C, NEW f, Occupied(h, B, C, f), NEW i \in DOMAIN f
  PROVE  \E E : Occupied(BlockFree(h, f[i].ptr), B, E, Without(f, {i}))
<1>1. World(h, B, C) /\ Tenants(h, B, C, f)
  BY DEF Occupied
<1>2. Houses(h, B, C, f[i], i)
  BY <1>1, TenantFacts
<1> DEFINE c == f[i].ptr - 1
<1>3. c \in Users(h, B, C) /\ f[i].ptr = c + 1
  BY <1>1, <1>2, HousedIn
<1>4. PICK E : Freed(h, B, C, BlockFree(h, c + 1), B, E, c)
  BY <1>1, <1>3, FreeIs
<1>5. Freed(h, B, C, BlockFree(h, f[i].ptr), B, E, f[i].ptr - 1)
  BY <1>3, <1>4
<1>6. Tenants(BlockFree(h, f[i].ptr), B, E, Without(f, {i})) /\ World(BlockFree(h, f[i].ptr), B, E)
  BY <1>1, <1>5, LeaveIs DEF Freed
<1> QED
  BY <1>6 DEF Occupied

LEMMA KeepIs ==
  ASSUME NEW h, Shaped(h), NEW S
  PROVE  LET g == Keep(h, S)
         IN  HeadsKept(h, g) /\ \A a \in Address : a \in S => g.mem[a] = h.mem[a]
<1> DEFINE f == [a \in Address |-> IF a \in S THEN h.mem[a] ELSE Junk]
           g == Keep(h, S)
<1>1. \A a \in Address : f[a] = IF a \in S THEN h.mem[a] ELSE Junk
  OBVIOUS
<1>2. f = [a \in Address |-> f[a]]
  OBVIOUS
<1>3. g = [h EXCEPT !.mem = f]
  BY DEF Keep
<1> HIDE DEF f, g
<1>4. g = [mem |-> f, block_list |-> h.block_list, master_head |-> h.master_head,
           recycler_head |-> h.recycler_head, os |-> h.os]
  BY <1>3 DEF Shaped
<1>5. h.os \in SUBSET Slot
  BY DEF Shaped
<1>6. HeadsKept(h, g) /\ g.mem = f
  BY <1>2, <1>4, <1>5 DEF HeadsKept, Shaped
<1> QED
  BY <1>1, <1>6 DEF g

LEMMA Means ==
  ASSUME NEW h, NEW B, NEW C, World(h, B, C), NEW f
  PROVE  /\ \A a \in Headers(h, C) : a \in Meaningful(h, f)
         /\ \A i \in DOMAIN f : \A a \in CellsOf(f[i]) : a \in Meaningful(h, f)
<1>1. Chunks(h) = C
  BY ChunksAre
<1>2. Tiled(h.mem, C, B, 0)
  BY WorldFacts
<1>3. \A c \in FreeSet(h, C, 0) : c \in C /\ IsFree(h, c) /\ HasRoom(h, c)
  <2> TAKE c \in FreeSet(h, C, 0)
  <2>1. c \in C /\ c # 0 /\ ~h.mem[c].used /\ h.mem[c].len >= 2
    BY DEF FreeSet
  <2>2. h.mem[c].len \in Nat
    BY <1>2, <2>1, ChunkIn
  <2> QED
    BY <2>1, <2>2 DEF IsFree, HasRoom, Null
<1>4. \A a \in FreeCells(h, C) : a \in {c + 1 : c \in {c \in C : IsFree(h, c) /\ HasRoom(h, c)}}
  BY <1>3 DEF FreeCells
<1>5. Meaningful(h, f) = Blocks(h) \cup {b + 1 : b \in Blocks(h)} \cup C
            \cup {c + 1 : c \in {c \in C : IsFree(h, c) /\ HasRoom(h, c)}}
            \cup UNION {CellsOf(f[i]) : i \in DOMAIN f}
  BY <1>1 DEF Meaningful
<1> QED
  BY <1>4, <1>5 DEF Headers

LEMMA ForgetIs ==
  ASSUME NEW h, NEW B, NEW C, NEW f, Occupied(h, B, C, f)
  PROVE  Occupied(Forget(h, f), B, C, f)
<1> DEFINE g == Forget(h, f)
<1>1. World(h, B, C) /\ Tenants(h, B, C, f)
  BY DEF Occupied
<1>2. Shaped(h)
  BY <1>1, WorldFacts
<1>3. HeadsKept(h, g) /\ \A a \in Address : a \in Meaningful(h, f) => g.mem[a] = h.mem[a]
  BY <1>2, KeepIs DEF Forget
<1> HIDE DEF g
<1>4. /\ \A a \in Headers(h, C) : a \in Meaningful(h, f)
      /\ \A i \in DOMAIN f : \A a \in CellsOf(f[i]) : a \in Meaningful(h, f)
  BY <1>1, Means
<1>5. KeepsAll(h, g, Headers(h, C))
  <2>1. \A a \in Headers(h, C) : a \in Address
    BY <1>1, HeadersFacts
  <2> QED
    BY <1>3, <1>4, <2>1 DEF KeepsAll
<1>6. /\ World(g, B, C) /\ Users(g, B, C) = Users(h, B, C)
      /\ \A c \in Users(h, B, C) : Span(g, B, c) = Span(h, B, c)
  BY <1>1, <1>3, <1>5, WorldSame
<1>7. ASSUME NEW i \in DOMAIN f PROVE Houses(g, B, C, f[i], i)
  <2>1. Houses(h, B, C, f[i], i)
    BY <1>1, TenantFacts
  <2>2. \A a \in CellsOf(f[i]) : a \in Address /\ h.mem[a] = Data(i)
    BY <1>1, <2>1, HousedIn
  <2> QED
    BY <1>3, <1>4, <1>6, <2>1, <2>2 DEF Houses
<1>8. Tenants(g, B, C, f)
  BY <1>1, <1>6, <1>7 DEF Tenants
<1> QED
  BY <1>6, <1>8 DEF Occupied, g

-----------------------------------------------------------------------------
(***************************************************************************)
(* The loops over the block list: there are rounds to run, and what holds  *)
(* at the start and is kept by a round holds in the end.                   *)
(***************************************************************************)
Round(gc, w) == IF gc THEN GcRound(w) ELSE FreeAllRound(w)

Freeing == FALSE
Collecting == TRUE

Rounds(gc, g, start, n) ==
  /\ g = [k \in 0 .. n |-> g[k]] /\ g[0] = start
  /\ \A k \in 1 .. n : g[k] = Round(gc, g[k - 1])

LEMMA RoundsThere ==
  ASSUME NEW gc, NEW start, NEW n \in Nat
  PROVE  \E g : Rounds(gc, g, start, n)
<1> DEFINE None == {k \in Nat : ~\E g : Rounds(gc, g, start, k)}
<1>1. 0 \notin None
  <2> DEFINE g == [j \in 0 .. 0 |-> start]
  <2>1. Rounds(gc, g, start, 0)
    BY DEF Rounds
  <2> QED
    BY <2>1
<1>2. ASSUME NEW k \in Nat, k \notin None PROVE k + 1 \notin None
  <2>1. PICK g : Rounds(gc, g, start, k)
    BY <1>2
  <2>2. /\ g[0] = start /\ 0 \in 0 .. k
        /\ \A j \in 1 .. k : g[j] = Round(gc, g[j - 1]) /\ j \in 0 .. k /\ j - 1 \in 0 .. k
    BY <1>2, <2>1 DEF Rounds
  <2> DEFINE f == [j \in 0 .. k + 1 |-> IF j = k + 1 THEN Round(gc, g[k]) ELSE g[j]]
  <2>3. f = [j \in 0 .. k + 1 |-> f[j]] /\ f[k + 1] = Round(gc, g[k])
        /\ \A j \in 0 .. k : f[j] = g[j]
    BY <1>2
  <2> HIDE DEF f
  <2>4. \A j \in 1 .. k + 1 : f[j] = Round(gc, f[j - 1])
    <3> TAKE j \in 1 .. k + 1
    <3>1. CASE j = k + 1
      <4>1. k \in 0 .. k /\ j - 1 = k
        BY <1>2, <3>1
      <4> QED
        BY <2>3, <3>1, <4>1
    <3>2. CASE j \in 1 .. k
      BY <2>2, <2>3, <3>2
    <3> QED
      BY <1>2, <3>1, <3>2
  <2>5. Rounds(gc, f, start, k + 1)
    BY <2>2, <2>3, <2>4 DEF Rounds
  <2> QED
    BY <2>5
<1>3. None = {}
  <2> SUFFICES ASSUME None # {} PROVE FALSE
    OBVIOUS
  <2>1. PICK k \in None : \A j \in None : k <= j
    <3>1. None \in SUBSET Nat
      OBVIOUS
    <3> HIDE DEF None
    <3> QED
      BY <3>1, Least
  <2>2. k \in Nat /\ k # 0
    BY <1>1, <2>1
  <2>3. k - 1 \in Nat /\ ~(k <= k - 1) /\ k - 1 + 1 = k
    BY <2>2
  <2>4. k - 1 \notin None
    BY <2>1, <2>3
  <2> HIDE DEF None
  <2> QED
    BY <1>2, <2>1, <2>3, <2>4
<1> QED
  BY <1>3

EmptyStart(h) == [heap |-> [h EXCEPT !.master_head = Null, !.recycler_head = Null], cur |-> h.block_list]
GcStart(h) == [heap |-> [h EXCEPT !.block_list = Null], cur |-> h.block_list]

LEMMA FreeAllRuns ==
  ASSUME NEW h
  PROVE  \E g, gc : gc = Freeing /\ Rounds(gc, g, EmptyStart(h), NumSlots) /\ FreeAllBlocks(h) = g[NumSlots].heap
<1> DEFINE P(g) == g = [n \in 0 .. NumSlots |-> IF n = 0 THEN EmptyStart(h) ELSE FreeAllRound(g[n - 1])]
           after == CHOOSE g : P(g)
<1>0. PICK gc \in BOOLEAN : gc = FALSE /\ gc = Freeing
  BY DEF Freeing
<1>1. NumSlots \in Nat
  BY Sizes
<1>2. \E g : P(g)
  <2>1. PICK g : Rounds(gc, g, EmptyStart(h), NumSlots)
    BY <1>1, RoundsThere
  <2>2. g = [k \in 0 .. NumSlots |-> g[k]] /\ g[0] = EmptyStart(h)
        /\ \A k \in 1 .. NumSlots : g[k] = FreeAllRound(g[k - 1])
    BY <1>0, <2>1 DEF Rounds, Round
  <2>3. \A k \in 0 .. NumSlots : k = 0 \/ k \in 1 .. NumSlots
    BY <1>1
  <2>4. P(g)
    BY <2>2, <2>3
  <2> HIDE DEF P
  <2> QED
    BY <2>4
<1>3. P(after)
  <2> HIDE DEF P
  <2> QED
    BY <1>2, Zenon
<1>4. FreeAllBlocks(h) = after[NumSlots].heap
  BY Zenon DEF FreeAllBlocks, EmptyStart
<1> HIDE DEF after
<1>5. \A k \in 0 .. NumSlots : after[k] = IF k = 0 THEN EmptyStart(h) ELSE FreeAllRound(after[k - 1])
  BY <1>3, Zenon
<1>6. 0 \in 0 .. NumSlots /\ \A k \in 1 .. NumSlots : k \in 0 .. NumSlots /\ k # 0
  BY <1>1
<1>7. after = [n \in 0 .. NumSlots |-> after[n]]
  BY <1>3
<1> HIDE DEF P
<1>8. Rounds(gc, after, EmptyStart(h), NumSlots)
  BY <1>0, <1>5, <1>6, <1>7 DEF Rounds, Round
<1> QED
  BY <1>0, <1>4, <1>8

LEMMA GcRuns ==
  ASSUME NEW h
  PROVE  \E g, gc : gc = Collecting /\ Rounds(gc, g, GcStart(h), NumSlots) /\ GcBlocks(h) = g[NumSlots].heap
<1> DEFINE P(g) == g = [n \in 0 .. NumSlots |-> IF n = 0 THEN GcStart(h) ELSE GcRound(g[n - 1])]
           after == CHOOSE g : P(g)
<1>0. PICK gc \in BOOLEAN : gc = TRUE /\ gc = Collecting
  BY DEF Collecting
<1>1. NumSlots \in Nat
  BY Sizes
<1>2. \E g : P(g)
  <2>1. PICK g : Rounds(gc, g, GcStart(h), NumSlots)
    BY <1>1, RoundsThere
  <2>2. g = [k \in 0 .. NumSlots |-> g[k]] /\ g[0] = GcStart(h)
        /\ \A k \in 1 .. NumSlots : g[k] = GcRound(g[k - 1])
    BY <1>0, <2>1 DEF Rounds, Round
  <2>3. \A k \in 0 .. NumSlots : k = 0 \/ k \in 1 .. NumSlots
    BY <1>1
  <2>4. P(g)
    BY <2>2, <2>3
  <2> HIDE DEF P
  <2> QED
    BY <2>4
<1>3. P(after)
  <2> HIDE DEF P
  <2> QED
    BY <1>2, Zenon
<1>4. GcBlocks(h) = after[NumSlots].heap
  BY Zenon DEF GcBlocks, GcStart
<1> HIDE DEF after
<1>5. \A k \in 0 .. NumSlots : after[k] = IF k = 0 THEN GcStart(h) ELSE GcRound(after[k - 1])
  BY <1>3, Zenon
<1>6. 0 \in 0 .. NumSlots /\ \A k \in 1 .. NumSlots : k \in 0 .. NumSlots /\ k # 0
  BY <1>1
<1>7. after = [n \in 0 .. NumSlots |-> after[n]]
  BY <1>3
<1> HIDE DEF P
<1>8. Rounds(gc, after, GcStart(h), NumSlots)
  BY <1>0, <1>5, <1>6, <1>7 DEF Rounds, Round
<1> QED
  BY <1>0, <1>4, <1>8

\* What the loop over the list l has yet to see after k rounds.
Rest(l, k) == {l[j] : j \in k + 1 .. Len(l)}

LEMMA RestFacts ==
  ASSUME NEW h, NEW l, Linked(h, l)
  PROVE  /\ Rest(l, 0) = In(l) /\ Rest(l, Len(l)) = {}
         /\ \A k \in 0 .. Len(l) - 1 :
              /\ k + 1 \in 1 .. Len(l) /\ l[k + 1] \in In(l) /\ l[k + 1] \notin Rest(l, k + 1)
              /\ Rest(l, k) = Rest(l, k + 1) \cup {l[k + 1]}
              /\ At(l, k + 1) = l[k + 1] /\ l[k + 1] # 0
         /\ \A k \in 0 .. Len(l) : \A y \in Rest(l, k) : y \in In(l)
         /\ At(l, Len(l) + 1) = 0 /\ Len(l) \in Nat
<1>1. /\ Len(l) \in Nat
      /\ \A j \in 1 .. Len(l) : l[j] \in In(l) /\ l[j] # 0
      /\ \A j, k \in 1 .. Len(l) : l[j] = l[k] => j = k
  <2>1. /\ Len(l) \in Nat
        /\ \A j \in 1 .. Len(l) : /\ l[j] \in In(l) /\ l[j] \in Address /\ l[j] # 0 /\ l[j] + 0 = l[j]
                                  /\ h.mem[l[j]] = Links(At(l, j - 1), At(l, j + 1))
    BY LinkedFacts
  <2>2. \A j, k \in 1 .. Len(l) : l[j] = l[k] => j = k
    BY LinkedFacts
  <2> QED
    BY <2>1, <2>2
<1>2. Rest(l, 0) = In(l)
  BY <1>1 DEF Rest, In
<1>3. Rest(l, Len(l)) = {}
  BY <1>1 DEF Rest
<1>4. ASSUME NEW k \in 0 .. Len(l) - 1
      PROVE  /\ k + 1 \in 1 .. Len(l) /\ l[k + 1] \in In(l) /\ l[k + 1] \notin Rest(l, k + 1)
             /\ Rest(l, k) = Rest(l, k + 1) \cup {l[k + 1]}
             /\ At(l, k + 1) = l[k + 1] /\ l[k + 1] # 0
  <2>1. k + 1 \in 1 .. Len(l)
    BY <1>1
  <2>2. \A j : j \in k + 1 + 1 .. Len(l) => j \in 1 .. Len(l) /\ j # k + 1 /\ j \in k + 1 .. Len(l)
    BY <1>1
  <2>3. \A j : j \in k + 1 .. Len(l) => j = k + 1 \/ j \in k + 1 + 1 .. Len(l)
    BY <1>1
  <2>4. l[k + 1] \notin Rest(l, k + 1)
    BY <1>1, <2>1, <2>2 DEF Rest
  <2>5. k + 1 \in k + 1 .. Len(l)
    BY <1>1
  <2>6. Rest(l, k) \subseteq Rest(l, k + 1) \cup {l[k + 1]}
    BY <2>3 DEF Rest
  <2>7. Rest(l, k + 1) \subseteq Rest(l, k) /\ l[k + 1] \in Rest(l, k)
    BY <2>2, <2>5 DEF Rest
  <2> QED
    BY <1>1, <2>1, <2>4, <2>6, <2>7 DEF At
<1>5. \A k \in 0 .. Len(l) : \A y \in Rest(l, k) : y \in In(l)
  BY <1>1 DEF Rest
<1>6. At(l, Len(l) + 1) = 0
  BY <1>1 DEF At
<1> QED
  BY <1>1, <1>2, <1>3, <1>4, <1>5, <1>6

\* A removal changes the next of no block but the one before it.
LEMMA DropNext ==
  ASSUME NEW h, NEW l, Linked(h, l), NEW k \in 1 .. Len(l), NEW g, Linked(g, Drop(l, k)),
         NEW x \in In(l), x # l[k], h.mem[x].next # l[k]
  PROVE  g.mem[x].next = h.mem[x].next
<1> DEFINE d == Drop(l, k)
<1>1. /\ Len(l) \in Nat
      /\ \A j \in 1 .. Len(l) : l[j] \in In(l) /\ h.mem[l[j]] = Links(At(l, j - 1), At(l, j + 1))
  BY LinkedFacts
<1>2. \A j \in 1 .. Len(d) : g.mem[d[j]] = Links(At(d, j - 1), At(d, j + 1))
  BY LinkedFacts
<1>3. Len(l) - 1 \in Nat
  BY <1>1
<1>4. Len(d) = Len(l) - 1 /\ \A j \in 1 .. Len(l) - 1 : d[j] = l[IF j < k THEN j ELSE j + 1]
  BY <1>3 DEF Drop
<1> HIDE DEF d
<1>5. PICK j \in 1 .. Len(l) : l[j] = x
  BY DEF In
<1>6. h.mem[x].next = At(l, j + 1)
  BY <1>1, <1>5, LinksFields
<1>7. j # k
  BY <1>5
<1>8. j + 1 # k
  BY <1>6 DEF At
<1>9. CASE j < k
  <2>1. j \in 1 .. Len(d) /\ j + 1 \in 1 .. Len(d) /\ j + 1 \in 1 .. Len(l) - 1
        /\ j \in 1 .. Len(l) - 1 /\ j + 1 < k /\ j + 1 \in 1 .. Len(l)
    BY <1>1, <1>4, <1>8, <1>9
  <2>2. d[j] = l[j] /\ d[j + 1] = l[j + 1]
    BY <1>4, <1>9, <2>1
  <2>3. At(d, j + 1) = At(l, j + 1)
    BY <2>1, <2>2 DEF At
  <2>4. g.mem[x].next = At(d, j + 1)
    BY <1>2, <1>5, <2>1, <2>2, LinksFields
  <2> QED
    BY <1>6, <2>3, <2>4
<1>10. CASE j > k
  <2> DEFINE i == j - 1
  <2>1. i \in 1 .. Len(l) - 1 /\ ~(i < k) /\ i + 1 = j
    BY <1>1, <1>10
  <2>2. d[i] = l[j] /\ i \in 1 .. Len(d)
    BY <1>4, <2>1
  <2>3. g.mem[x].next = At(d, i + 1)
    <3> HIDE DEF i
    <3>1. g.mem[d[i]] = Links(At(d, i - 1), At(d, i + 1)) /\ d[i] = x
      BY <1>2, <1>5, <2>2
    <3> QED
      BY <3>1, LinksFields
  <2>4. At(d, j) = At(l, j + 1)
    <3>1. CASE j = Len(l)
      BY <1>1, <1>4, <3>1 DEF At
    <3>2. CASE j < Len(l)
      <4>1. j \in 1 .. Len(l) - 1 /\ ~(j < k) /\ j + 1 \in 1 .. Len(l)
        BY <1>1, <1>10, <3>2
      <4>2. d[j] = l[j + 1] /\ j \in 1 .. Len(d)
        BY <1>4, <4>1
      <4> QED
        BY <4>1, <4>2 DEF At
    <3> QED
      BY <1>1, <3>1, <3>2
  <2> QED
    BY <1>6, <2>1, <2>3, <2>4
<1> QED
  BY <1>1, <1>7, <1>9, <1>10

\* Block b has left the list and the OS has it back.
Unlisted(h, g, b) ==
  /\ HeadsSame(h, g) /\ Blocks(g) = Blocks(h) \ {b} /\ (\E q : Listed(g, q))
  /\ \A a \in Address : a \notin Block /\ Home(a) # b => g.mem[a] = h.mem[a]
  /\ \A y \in Blocks(h) : y # b /\ h.mem[y].next # b => g.mem[y].next = h.mem[y].next

LEMMA UnlistIs ==
  ASSUME NEW h, Shaped(h), NEW l, Listed(h, l), NEW b \in Blocks(h)
  PROVE  LET k == RemoveFromBlockList(h, b)
         IN  Unlisted(h, OsFree(k, b), b) /\ k.mem[b] = h.mem[b]
<1> DEFINE k == RemoveFromBlockList(h, b)
           g == OsFree(k, b)
<1>1. Shaped(h) /\ Blocks(h) \subseteq Block
  BY HomeFacts
<1>3. Linked(h, l) /\ In(l) = Blocks(h) /\ b \in In(l)
  BY DEF Listed, Linked
<1>4. PICK j \in 1 .. Len(l) : l[j] = b
  BY <1>3, LinkedFacts
<1>5. Chained(h, k, In(l) \ {b}) /\ Linked(k, Drop(l, j)) /\ In(Drop(l, j)) = In(l) \ {b}
  BY <1>1, <1>3, <1>4, RemoveListIs
<1> HIDE DEF k
<1>6. Shaped(k) /\ b \in Block /\ HeadsSame(h, k) /\ Blocks(k) = Blocks(h)
  BY <1>1, <1>5 DEF Chained, HeadsSame, Blocks
<1>7. /\ HeadsSame(k, g) /\ g.block_list = k.block_list
      /\ Blocks(g) = Blocks(k) \ {b}
      /\ \A a \in Address : Home(a) # b => g.mem[a] = k.mem[a]
  BY <1>6, OsFreeIs
<1> HIDE DEF g
<1>8. /\ HeadsSame(h, g) /\ Blocks(g) = Blocks(h) \ {b}
      /\ \A a \in Address : a \notin Block /\ Home(a) # b => g.mem[a] = h.mem[a]
  BY <1>1, <1>3, <1>5, <1>6, <1>7 DEF HeadsSame, Chained
<1>9. \A y \in Block : y + 0 = y /\ y \in Address /\ Home(y) = y
  <2>1. \A y \in Block : y \in Nat /\ y \in Address /\ Home(y) = y
    BY HomeFacts
  <2> QED
    BY <2>1
<1>10. \A y \in Blocks(h) : y # b => g.mem[y] = k.mem[y]
  BY <1>1, <1>7, <1>9
<1>11. Listed(g, Drop(l, j))
  <2>1. \A y \in In(Drop(l, j)) : g.mem[y + 0] = k.mem[y + 0]
    BY <1>1, <1>3, <1>5, <1>9, <1>10
  <2>2. Dll(g, Drop(l, j), 0)
    BY <1>5, <2>1, DllSame DEF Linked
  <2> QED
    BY <1>3, <1>5, <1>7, <1>8, <2>2 DEF Listed, Linked
<1>12. ASSUME NEW y \in Blocks(h), y # b, h.mem[y].next # b PROVE g.mem[y].next = h.mem[y].next
  <2>1. k.mem[y].next = h.mem[y].next
    BY <1>3, <1>4, <1>5, <1>12, DropNext
  <2> QED
    BY <1>10, <1>12, <2>1
<1>13. k.mem[b] = h.mem[b]
  BY <1>5, <1>6, <1>9 DEF Chained
<1>14. Unlisted(h, g, b)
  BY <1>8, <1>11, <1>12 DEF Unlisted
<1> QED
  BY <1>13, <1>14 DEF g, k

Starts(D) == {b + 1 : b \in D}

\* What has been freed when the blocks of S are yet to be: every jumbo block,
\* and every chunk of the others but the one they are made of. h is the heap
\* before and g what has become of it.
Emptied(h, B, g, S) ==
  /\ Shaped(g) /\ (\E p : Listed(g, p))
  /\ Blocks(g) = {y \in Blocks(h) : y \in B \/ y \in S}
  /\ Sound(g, B \ S, Starts(B \ S), 0)
  /\ \A y \in B \ S : Whole(g.mem[y + 1])
  /\ g.master_head # 0 => g.mem[g.master_head].len = BlockSize - 1
  /\ \A y \in S : g.mem[y + 1].jumbo <=> y \notin B
  /\ \A y \in S : g.mem[y].next = h.mem[y].next

\* Of the blocks still to come, none but b leads to b.
LeadsTo(h, S, b) == h.mem[b].next # b /\ \A y \in S : h.mem[y].next # b

SameNext(h, k, b) == k.mem[b].next = h.mem[b].next

LEMMA MasterAmong ==
  ASSUME NEW g, NEW D, NEW C, Sound(g, D, C, 0), g.master_head # 0
  PROVE  g.master_head \in C
<1>1. PICK m, r : Good(g, D, C, m, r, 0)
  BY DEF Sound
<1> QED
  BY <1>1, HeadIs

LEMMA JumboRound ==
  ASSUME NEW h, Shaped(h), NEW B, B \subseteq Blocks(h), NEW S, S \subseteq Blocks(h), NEW b \in Blocks(h),
         b \notin S, b \notin B, LeadsTo(h, S, b), NEW g, Emptied(h, B, g, S \cup {b})
  PROVE  LET k == RemoveFromBlockList(g, b)
         IN  Emptied(h, B, OsFree(k, b), S) /\ SameNext(h, k, b)
<1> DEFINE k == RemoveFromBlockList(g, b)
           e == OsFree(k, b)
           D == B \ S
<1>1. /\ Shaped(g) /\ Blocks(g) = {y \in Blocks(h) : y \in B \/ y \in S \cup {b}}
      /\ Sound(g, D, Starts(D), 0)
      /\ \A y \in D : Whole(g.mem[y + 1])
      /\ (g.master_head # 0 => g.mem[g.master_head].len = BlockSize - 1)
      /\ \A y \in S \cup {b} : g.mem[y + 1].jumbo <=> y \notin B
      /\ \A y \in S \cup {b} : g.mem[y].next = h.mem[y].next
  <2>1. B \ (S \cup {b}) = D
    OBVIOUS
  <2> HIDE DEF D
  <2> QED
    BY <2>1 DEF Emptied
<1>2. PICK p : Listed(g, p)
  BY DEF Emptied
<1>3. b \in Blocks(g)
  BY <1>1
<1>4. Unlisted(g, e, b) /\ k.mem[b] = g.mem[b]
  BY <1>1, <1>2, <1>3, UnlistIs
<1> HIDE DEF e, k
<1>5. Blocks(h) \subseteq Block
  BY HomeFacts
<1>6. Framed(g, e, D)
  <2>1. \A a \in Address : a # Home(a) => a \notin Block
    BY HomeFacts
  <2>2. b \notin D
    OBVIOUS
  <2> HIDE DEF D
  <2> QED
    BY <1>4, <2>1, <2>2 DEF Framed, Unlisted
<1>7. Sound(e, D, Starts(D), 0) /\ KeepsAll(g, e, Starts(D))
  BY <1>1, <1>6, FramedSound
<1>8. e.master_head # 0 => e.mem[e.master_head].len = BlockSize - 1
  <2>1. e.master_head = g.master_head
    BY <1>4 DEF Unlisted, HeadsSame
  <2>2. g.master_head # 0 => g.master_head \in Starts(D)
    BY <1>1, MasterAmong
  <2> QED
    BY <1>1, <1>7, <2>1, <2>2 DEF KeepsAll
<1>9. \A y \in D : Whole(e.mem[y + 1])
  BY <1>1, <1>7 DEF KeepsAll, Starts
<1>10. \A y \in S : e.mem[y + 1].jumbo <=> y \notin B
  <2> TAKE y \in S
  <2>1. y + 1 \in Address /\ y + 1 \notin Block /\ Home(y + 1) = y /\ y # b
    BY <1>5, HomeFacts
  <2>2. e.mem[y + 1] = g.mem[y + 1]
    BY <1>4, <2>1 DEF Unlisted
  <2> QED
    BY <1>1, <2>2
<1>11. \A y \in S : e.mem[y].next = h.mem[y].next
  <2> TAKE y \in S
  <2>1. y \in Blocks(g) /\ y # b /\ g.mem[y].next # b
    BY <1>1 DEF LeadsTo
  <2>2. e.mem[y].next = g.mem[y].next
    BY <1>4, <2>1 DEF Unlisted
  <2> QED
    BY <1>1, <2>2
<1>12. Blocks(e) = {y \in Blocks(h) : y \in B \/ y \in S}
  <2>1. Blocks(e) = Blocks(g) \ {b}
    BY <1>4 DEF Unlisted
  <2> QED
    BY <1>1, <2>1
<1>13. Shaped(e) /\ \E q : Listed(e, q)
  BY <1>4 DEF Unlisted, HeadsSame
<1>14. Emptied(h, B, e, S)
  <2> HIDE DEF D
  <2>1. D = B \ S
    BY DEF D
  <2> QED
    BY <1>7, <1>8, <1>9, <1>10, <1>11, <1>12, <1>13, <2>1 DEF Emptied
<1>15. k.mem[b].next = h.mem[b].next
  BY <1>1, <1>4
<1> QED
  BY <1>14, <1>15 DEF e, k, SameNext

LEMMA SecondCell == \A b \in Block : b + 2 \in Address /\ Home(b + 2) = b /\ b + 2 \notin Block /\ b + 2 # b + 1
<1> TAKE b \in Block
<1>1. b \in Nat /\ \A a \in b + 2 .. b + 1 + (SlotSize - 2) : /\ a \in Address /\ Home(a) = b
                                                          /\ a # b + 1 /\ a \notin Block
  BY HomeFacts
<1>2. SlotSize \in Nat /\ SlotSize >= 4
  BY Sizes, BlockAssumption
<1>3. b + 2 \in b + 2 .. b + 1 + (SlotSize - 2)
  BY <1>1, <1>2
<1> QED
  BY <1>1, <1>3

LEMMA SmallRound ==
  ASSUME NEW h, Shaped(h), NEW B, B \subseteq Blocks(h), NEW S, S \subseteq Blocks(h), NEW b \in B,
         b \notin S, NEW g, Emptied(h, B, g, S \cup {b})
  PROVE  LET e == InitBlock(g, b)
         IN  Emptied(h, B, e, S) /\ SameNext(h, e, b)
<1> DEFINE e == InitBlock(g, b)
           D == B \ (S \cup {b})
           C == Starts(D)
<1>1. /\ Shaped(g) /\ Blocks(g) = {y \in Blocks(h) : y \in B \/ y \in S \cup {b}}
      /\ Sound(g, D, C, 0)
      /\ \A y \in D : Whole(g.mem[y + 1])
      /\ (g.master_head # 0 => g.mem[g.master_head].len = BlockSize - 1)
      /\ \A y \in S \cup {b} : g.mem[y + 1].jumbo <=> y \notin B
      /\ \A y \in S \cup {b} : g.mem[y].next = h.mem[y].next
  BY DEF Emptied
<1>2. PICK p : Listed(g, p)
  BY DEF Emptied
<1>3. b \in Block /\ b \notin D /\ Blocks(h) \subseteq Block /\ D \subseteq Block
  BY HomeFacts
<1>4. B \ S = D \cup {b} /\ Starts(B \ S) = C \cup {b + 1}
  BY DEF Starts
<1> HIDE DEF D, C
<1>5. Sound(e, D \cup {b}, C \cup {b + 1}, 0) /\ Begun(g, e, C, b)
  BY <1>1, <1>3, InitBlockIs
<1> HIDE DEF e
<1>6. /\ Shaped(e) /\ e.os = g.os /\ e.block_list = g.block_list
      /\ e.master_head = b + 1 /\ e.mem[b + 1].len = BlockSize - 1
      /\ Whole(e.mem[b + 1])
      /\ \A a \in Address : ~FreeCell(g.mem, C, a) /\ a # b + 1 /\ a # b + 2 => e.mem[a] = g.mem[a]
  BY <1>5 DEF Begun
<1>7. Tiled(g.mem, C, D, 0)
  BY <1>1 DEF Sound, Good
<1>8. \A a \in Block : e.mem[a] = g.mem[a]
  <2> TAKE a \in Block
  <2>1. a \in Address /\ Home(a) = a /\ a # b + 1 /\ a # b + 2
    BY <1>3, HomeFacts, SecondCell
  <2>2. ~FreeCell(g.mem, C, a)
    BY <1>7, <2>1, FreeCellFacts
  <2> QED
    BY <1>6, <2>1, <2>2
<1>9. Listed(e, p)
  <2>1. \A y \in In(p) : e.mem[y + 0] = g.mem[y + 0]
    <3>1. \A y \in Block : y \in Nat
      BY HomeFacts
    <3>2. \A y \in Block : y + 0 = y
      BY <3>1
    <3>3. In(p) \subseteq Block
      BY <1>1, <1>2, HomeFacts DEF Listed
    <3> QED
      BY <1>8, <3>2, <3>3
  <2>2. Dll(e, p, 0)
    BY <1>2, <2>1, DllSame DEF Listed
  <2> QED
    BY <1>2, <1>6, <2>2 DEF Listed, Blocks
<1>10. \A y \in Block : y # b => y + 1 \in Address /\ y + 1 # b + 1 /\ y + 1 # b + 2 /\ Home(y + 1) = y
  <2> TAKE y \in Block
  <2> HAVE y # b
  <2>1. y + 1 \in Address /\ Home(y + 1) = y /\ Home(b + 1) = b /\ Home(b + 2) = b
    BY <1>3, HomeFacts, SecondCell
  <2> QED
    BY <2>1
<1>11. \A y \in D : Whole(e.mem[y + 1])
  <2> TAKE y \in D
  <2>1. y + 1 \in C
    <3>1. C = {z + 1 : z \in D}
      BY DEF C, Starts
    <3> QED
      BY <3>1
  <2>2. ~FreeCell(g.mem, C, y + 1)
    BY <1>7, <2>1, FreeCellFacts
  <2>3. e.mem[y + 1] = g.mem[y + 1]
    BY <1>3, <1>6, <1>10, <2>2
  <2> QED
    BY <1>1, <2>3
<1>12. \A y \in S : e.mem[y + 1].jumbo <=> y \notin B
  <2> TAKE y \in S
  <2>1. y \in Block /\ y # b /\ y \notin D
    BY <1>3 DEF D
  <2>2. ~FreeCell(g.mem, C, y + 1)
    BY <1>7, <1>10, <2>1, FreeCellFacts
  <2>3. e.mem[y + 1] = g.mem[y + 1]
    BY <1>6, <1>10, <2>1, <2>2
  <2> QED
    BY <1>1, <2>3
<1>13. \A y \in S \cup {b} : e.mem[y].next = h.mem[y].next
  BY <1>1, <1>3, <1>8
<1>14. Blocks(e) = {y \in Blocks(h) : y \in B \/ y \in S}
  BY <1>1, <1>6 DEF Blocks
<1>15. e.master_head # 0 => e.mem[e.master_head].len = BlockSize - 1
  BY <1>6
<1>16. Emptied(h, B, e, S)
  <2>1. Sound(e, B \ S, Starts(B \ S), 0)
    BY <1>4, <1>5
  <2>2. \A y \in B \ S : Whole(e.mem[y + 1])
    BY <1>4, <1>6, <1>11
  <2> QED
    BY <1>6, <1>9, <1>12, <1>13, <1>14, <1>15, <2>1, <2>2 DEF Emptied
<1> QED
  BY <1>13, <1>16 DEF e, SameNext

\* Nothing is a state with no blocks in use.
LEMMA SoundNothing ==
  ASSUME NEW h, Shaped(h), h.master_head = 0, h.recycler_head = 0
  PROVE  Sound(h, {}, {}, 0)
<1> DEFINE s == << >>
<1>1. s \in Seq(Address) /\ Len(s) = 0
  OBVIOUS
<1> HIDE DEF s
<1>2. ~(1 \in 1 .. Len(s)) /\ \A j \in 1 .. Len(s) : FALSE
  BY <1>1
<1>3. Distinct(s) /\ In(s) = {} /\ At(s, 1) = 0
  BY <1>1, <1>2 DEF Distinct, In, At
<1>4. Dll(h, s, 1) /\ Ring(h, s)
  BY <1>2, <1>3 DEF Dll, Ring
<1>5. Lists(h, s, s)
  BY <1>3, <1>4 DEF Lists
<1>6. Tiled(h.mem, {}, {}, 0)
  BY DEF Tiled, Inside, Rightward, Leftward, Apart
<1>7. Filed(s, s) = FreeSet(h, {}, 0)
  BY <1>3 DEF Filed, FreeSet
<1>8. Spaced(h, {}, 0) /\ MasterFull(h, s)
  BY <1>3 DEF Spaced, MasterFull
<1> QED
  BY <1>5, <1>6, <1>7, <1>8 DEF Sound, Good

\* The block at y is wholly unused: what the collection gives back.
Idle(h, B, y) == y \in B /\ ~h.mem[y + 1].used /\ h.mem[y + 1].last
Gone(h, B, S) == {y \in Blocks(h) : y \notin S /\ Idle(h, B, y)}

\* What has been collected when the blocks of S are yet to be looked at.
Collected(h, B, C, g, S) ==
  /\ Shaped(g) /\ (\E p : Linked(g, p) /\ In(p) = Blocks(g) \ S)
  /\ Blocks(g) = Blocks(h) \ Gone(h, B, S)
  /\ Sound(g, B \ Gone(h, B, S), C \ Starts(Gone(h, B, S)), 0)
  /\ Elsewhere(h, g, C, Gone(h, B, S))
  /\ \A y \in S : g.mem[y] = h.mem[y]

Passed(gc, h, B, C, g, S) == IF gc THEN Collected(h, B, C, g, S) ELSE Emptied(h, B, g, S)

\* A round takes the next block of the list l and moves on to the one after.
Progress(gc, h, B, C, l) ==
  \A k \in 0 .. Len(l) - 1 : \A w :
    w.cur = l[k + 1] /\ Passed(gc, h, B, C, w.heap, Rest(l, k))
      => /\ Passed(gc, h, B, C, Round(gc, w).heap, Rest(l, k + 1))
         /\ Round(gc, w).cur = At(l, k + 2)

LEMMA RoundAtEnd ==
  ASSUME NEW gc \in BOOLEAN, NEW w, w.cur = 0
  PROVE  Round(gc, w) = w
BY DEF Round, FreeAllRound, GcRound, Null

LEMMA LoopIs ==
  ASSUME NEW gc \in BOOLEAN, NEW h, NEW B, NEW C, NEW l, Linked(h, l), Len(l) <= NumSlots,
         Progress(gc, h, B, C, l), NEW start, start.cur = At(l, 1),
         Passed(gc, h, B, C, start.heap, Rest(l, 0)), NEW f, Rounds(gc, f, start, NumSlots)
  PROVE  Passed(gc, h, B, C, f[NumSlots].heap, Rest(l, Len(l)))
<1> DEFINE n == Len(l)
           Right(k) == \E j \in 0 .. n : /\ j = k \/ (j = n /\ k > n)
                                         /\ Passed(gc, h, B, C, f[k].heap, Rest(l, j))
                                         /\ f[k].cur = At(l, j + 1)
           Wrong == {k \in 0 .. NumSlots : ~Right(k)}
<1>1. n \in Nat /\ NumSlots \in Nat /\ n <= NumSlots /\ At(l, n + 1) = 0
  BY Sizes, RestFacts
<1>2. f[0] = start /\ \A k \in 1 .. NumSlots : f[k] = Round(gc, f[k - 1])
  BY DEF Rounds
<1>3. Right(0)
  <2>1. 0 \in 0 .. n /\ 0 + 1 = 1
    BY <1>1
  <2> QED
    BY <1>2, <2>1
<1> HIDE DEF n
<1>4. ASSUME NEW k \in 1 .. NumSlots, Right(k - 1) PROVE Right(k)
  <2>1. PICK j \in 0 .. n : /\ j = k - 1 \/ (j = n /\ k - 1 > n)
                            /\ Passed(gc, h, B, C, f[k - 1].heap, Rest(l, j))
                            /\ f[k - 1].cur = At(l, j + 1)
    BY <1>4
  <2>2. f[k] = Round(gc, f[k - 1])
    BY <1>2
  <2>3. CASE j = n
    <3>1. f[k] = f[k - 1]
      BY <1>1, <2>1, <2>2, <2>3, RoundAtEnd
    <3>2. k > n
      BY <1>1, <2>1, <2>3
    <3> QED
      BY <2>1, <2>3, <3>1, <3>2
  <2>4. CASE j # n
    <3>1. j = k - 1 /\ j \in 0 .. Len(l) - 1 /\ j + 1 = k /\ j + 2 = k + 1 /\ k \in 0 .. n
      BY <1>1, <2>1, <2>4 DEF n
    <3>2. At(l, j + 1) = l[j + 1]
      BY <3>1, RestFacts
    <3> DEFINE w == f[k - 1]
    <3>3. w.cur = l[j + 1] /\ Passed(gc, h, B, C, w.heap, Rest(l, j))
      BY <2>1, <3>2
    <3> HIDE DEF w
    <3>4. /\ Passed(gc, h, B, C, Round(gc, w).heap, Rest(l, j + 1))
          /\ Round(gc, w).cur = At(l, j + 2)
      BY <3>1, <3>3 DEF Progress
    <3>5. Passed(gc, h, B, C, f[k].heap, Rest(l, k)) /\ f[k].cur = At(l, k + 1)
      BY <2>2, <3>1, <3>4 DEF w
    <3> QED
      BY <3>1, <3>5
  <2> QED
    BY <2>3, <2>4
<1> HIDE DEF Right
<1>5. Wrong = {}
  <2> SUFFICES ASSUME Wrong # {} PROVE FALSE
    OBVIOUS
  <2>1. PICK k \in Wrong : \A j \in Wrong : k <= j
    <3>1. Wrong \in SUBSET Nat
      OBVIOUS
    <3> HIDE DEF Wrong
    <3> QED
      BY <3>1, Least
  <2>2. k \in 1 .. NumSlots /\ k - 1 \in 0 .. NumSlots /\ ~(k <= k - 1)
    BY <1>1, <1>3, <2>1
  <2>3. Right(k - 1)
    BY <2>1, <2>2
  <2> QED
    BY <1>4, <2>1, <2>2, <2>3
<1>6. Right(NumSlots)
  BY <1>1, <1>5
<1>7. PICK j \in 0 .. n : /\ j = NumSlots \/ (j = n /\ NumSlots > n)
                          /\ Passed(gc, h, B, C, f[NumSlots].heap, Rest(l, j))
  BY <1>6 DEF Right
<1>8. j = n
  BY <1>1, <1>7
<1> QED
  BY <1>7, <1>8 DEF n

LEMMA ListFits ==
  ASSUME NEW h, Shaped(h), NEW l, Linked(h, l), In(l) \subseteq Blocks(h)
  PROVE  Len(l) <= NumSlots
<1> DEFINE n == Len(l)
           T == Blocks(h)
           f == [j \in 1 .. n |-> l[j]]
<1>1. n \in Nat /\ \A j \in 1 .. n : l[j] \in In(l)
  BY LinkedFacts
<1>2. \A j, k \in 1 .. n : l[j] = l[k] => j = k
  BY LinkedFacts
<1>3. IsFiniteSet(T) /\ Cardinality(T) <= NumSlots
  BY BlockCount
<1> HIDE DEF T
<1>4. f \in [1 .. n -> T]
  BY <1>1 DEF T
<1>5. \A j, k \in 1 .. n : f[j] = f[k] => j = k
  BY <1>2
<1> HIDE DEF n, f
<1>6. f \in Injection(1 .. n, T)
  BY <1>4, <1>5 DEF Injection, IsInjective
<1>7. Cardinality(1 .. n) <= Cardinality(T)
  BY <1>3, <1>6, FS_Injection
<1>8. Cardinality(1 .. n) = n
  <2>1. CASE n = 0
    <3>1. 1 .. n = {}
      BY <2>1
    <3> QED
      BY <2>1, <3>1, FS_EmptySet
  <2>2. CASE n # 0
    <3>1. 1 \in Int /\ n \in Int /\ ~(1 > n) /\ n - 1 + 1 = n
      BY <1>1, <2>2
    <3> QED
      BY <3>1, FS_Interval
  <2> QED
    BY <2>1, <2>2
<1>9. Cardinality(T) \in Nat /\ NumSlots \in Nat
  BY <1>3, FS_CardinalityType, Sizes
<1> QED
  BY <1>1, <1>3, <1>7, <1>8, <1>9 DEF n

LEMMA FreeingPassed ==
  ASSUME NEW gc, gc = Freeing, NEW h, NEW B, NEW C, NEW g, NEW S
  PROVE  Passed(gc, h, B, C, g, S) <=> Emptied(h, B, g, S)
BY DEF Passed, Freeing

LEMMA FreeingRound ==
  ASSUME NEW gc, gc = Freeing, NEW w, w.cur # 0
  PROVE  LET b == w.cur
             h1 == RemoveFromBlockList(w.heap, b)
             h2 == InitBlock(w.heap, b)
         IN  /\ w.heap.mem[b + 1].jumbo => /\ Round(gc, w).heap = OsFree(h1, b)
                                           /\ Round(gc, w).cur = h1.mem[b].next
             /\ ~w.heap.mem[b + 1].jumbo => /\ Round(gc, w).heap = h2
                                            /\ Round(gc, w).cur = h2.mem[b].next
<1>1. Round(gc, w) = FreeAllRound(w)
  BY DEF Round, Freeing
<1> DEFINE b == w.cur
           h1 == RemoveFromBlockList(w.heap, b)
           h2 == InitBlock(w.heap, b)
<1>2. FreeAllRound(w) = IF w.heap.mem[b + 1].jumbo
                        THEN [heap |-> OsFree(h1, b), cur |-> h1.mem[b].next]
                        ELSE [heap |-> h2, cur |-> h2.mem[b].next]
  BY DEF FreeAllRound, Null
<1> HIDE DEF h1, h2
<1>3. /\ w.heap.mem[b + 1].jumbo => /\ Round(gc, w).heap = OsFree(h1, b)
                                    /\ Round(gc, w).cur = h1.mem[b].next
      /\ ~w.heap.mem[b + 1].jumbo => /\ Round(gc, w).heap = h2
                                     /\ Round(gc, w).cur = h2.mem[b].next
  BY <1>1, <1>2
<1> QED
  BY <1>3 DEF h1, h2

LEMMA NextsOf ==
  ASSUME NEW h, NEW l, Linked(h, l), NEW k \in 0 .. Len(l) - 1
  PROVE  /\ h.mem[l[k + 1]].next = At(l, k + 2)
         /\ LeadsTo(h, Rest(l, k + 1), l[k + 1])
<1>1. /\ Len(l) \in Nat
      /\ \A j \in 1 .. Len(l) : /\ l[j] # 0 /\ h.mem[l[j]] = Links(At(l, j - 1), At(l, j + 1))
      /\ \A j, i \in 1 .. Len(l) : l[j] = l[i] => j = i
  BY LinkedFacts
<1>2. \A j \in 1 .. Len(l) : h.mem[l[j]].next = At(l, j + 1)
  BY <1>1, LinksFields
<1>3. \A j \in 1 .. Len(l) : j >= k + 1 => At(l, j + 1) # l[k + 1]
  <2> TAKE j \in 1 .. Len(l)
  <2> HAVE j >= k + 1
  <2>1. k + 1 \in 1 .. Len(l)
    BY <1>1
  <2>2. j + 1 \in 1 .. Len(l) => l[j + 1] # l[k + 1]
    BY <1>1, <2>1
  <2> QED
    BY <1>1, <2>1, <2>2 DEF At
<1>4. k + 1 \in 1 .. Len(l) /\ k + 1 >= k + 1 /\ k + 1 + 1 = k + 2
  BY <1>1
<1>5. \A j \in k + 1 + 1 .. Len(l) : j \in 1 .. Len(l) /\ j >= k + 1
  BY <1>1
<1>6. \A y \in Rest(l, k + 1) : h.mem[y].next # l[k + 1]
  BY <1>2, <1>3, <1>5 DEF Rest
<1>7. h.mem[l[k + 1]].next = At(l, k + 2)
  BY <1>2, <1>4
<1>8. h.mem[l[k + 1]].next # l[k + 1]
  BY <1>2, <1>3, <1>4
<1> QED
  BY <1>6, <1>7, <1>8 DEF LeadsTo

LEMMA FreeingProgress ==
  ASSUME NEW gc, gc = Freeing, NEW h, NEW B, NEW C, World(h, B, C), NEW l, Listed(h, l)
  PROVE  Progress(gc, h, B, C, l)
<1> SUFFICES ASSUME NEW k \in 0 .. Len(l) - 1, NEW w, w.cur = l[k + 1],
                    Passed(gc, h, B, C, w.heap, Rest(l, k))
             PROVE  /\ Passed(gc, h, B, C, Round(gc, w).heap, Rest(l, k + 1))
                    /\ Round(gc, w).cur = At(l, k + 2)
  BY DEF Progress
<1> DEFINE b == l[k + 1]
           S == Rest(l, k + 1)
           g == w.heap
           h1 == RemoveFromBlockList(g, b)
           h2 == InitBlock(g, b)
<1>1. Shaped(h) /\ B \subseteq Blocks(h)
  BY WorldFacts
<1>2. Linked(h, l) /\ In(l) = Blocks(h)
  BY DEF Listed, Linked
<1>3. b \in Blocks(h) /\ b # 0 /\ b \notin S /\ Rest(l, k) = S \cup {b}
  BY <1>2, RestFacts
<1>4. S \subseteq Blocks(h)
  <2>1. k + 1 \in 0 .. Len(l)
    BY <1>2, RestFacts
  <2> QED
    BY <1>2, <2>1, RestFacts
<1>5. h.mem[b].next = At(l, k + 2) /\ LeadsTo(h, S, b)
  BY <1>2, NextsOf
<1> HIDE DEF S, b
<1>6. Emptied(h, B, g, S \cup {b})
  BY <1>3, FreeingPassed
<1>7. g.mem[b + 1].jumbo <=> b \notin B
  BY <1>6 DEF Emptied
<1>8. w.cur = b
  BY DEF b
<1>9. /\ g.mem[b + 1].jumbo => /\ Round(gc, w).heap = OsFree(h1, b)
                               /\ Round(gc, w).cur = h1.mem[b].next
      /\ ~g.mem[b + 1].jumbo => /\ Round(gc, w).heap = h2
                                /\ Round(gc, w).cur = h2.mem[b].next
  BY <1>3, <1>8, FreeingRound
<1>10. Emptied(h, B, Round(gc, w).heap, S) /\ Round(gc, w).cur = h.mem[b].next
  <2> HIDE DEF g
  <2>1. CASE b \notin B
    <3>1. Emptied(h, B, OsFree(h1, b), S) /\ SameNext(h, h1, b)
      BY <1>1, <1>3, <1>4, <1>5, <1>6, <2>1, JumboRound
    <3> HIDE DEF h1
    <3> QED
      BY <1>7, <1>9, <2>1, <3>1 DEF SameNext
  <2>2. CASE b \in B
    <3>1. Emptied(h, B, h2, S) /\ SameNext(h, h2, b)
      BY <1>1, <1>3, <1>4, <1>6, <2>2, SmallRound
    <3> HIDE DEF h2
    <3> QED
      BY <1>7, <1>9, <2>2, <3>1 DEF SameNext
  <2> QED
    BY <2>1, <2>2
<1> HIDE DEF h1, h2, g
<1>11. Passed(gc, h, B, C, Round(gc, w).heap, S)
  BY <1>10, FreeingPassed
<1> QED
  BY <1>5, <1>10, <1>11 DEF S

\* Nothing is left but blocks that are one free chunk.
Cleared(g, B) ==
  World(g, B, Starts(B)) /\ Blocks(g) = B /\ \A b \in B : Whole(g.mem[b + 1])

LEMMA EmptyStartIs ==
  ASSUME NEW h, NEW B, NEW C, World(h, B, C), NEW l, Listed(h, l)
  PROVE  Emptied(h, B, EmptyStart(h).heap, In(l)) /\ EmptyStart(h).cur = At(l, 1)
<1> DEFINE g == [h EXCEPT !.master_head = Null, !.recycler_head = Null]
<1>1. Shaped(h) /\ B \subseteq Blocks(h) /\ In(l) = Blocks(h) /\ h.block_list = At(l, 1)
  BY WorldFacts DEF Listed
<1>2. /\ g = [mem |-> h.mem, block_list |-> h.block_list, master_head |-> 0,
              recycler_head |-> 0, os |-> h.os]
  <2> DEFINE k == [h EXCEPT !.master_head = 0]
  <2>1. k = [mem |-> h.mem, block_list |-> h.block_list, master_head |-> 0,
             recycler_head |-> h.recycler_head, os |-> h.os]
    BY <1>1 DEF Shaped
  <2>2. g = [k EXCEPT !.recycler_head = 0]
    BY DEF Null
  <2> HIDE DEF k, g
  <2> QED
    BY <2>1, <2>2
<1> HIDE DEF g
<1>3. Shaped(g) /\ g.mem = h.mem /\ g.block_list = h.block_list /\ g.master_head = 0 /\ g.recycler_head = 0
      /\ g.os = h.os
  BY <1>1, <1>2 DEF Shaped
<1>4. Blocks(g) = Blocks(h)
  BY <1>3 DEF Blocks
<1>5. Listed(g, l)
  BY <1>3, <1>4 DEF Listed, Dll
<1>6. B \ In(l) = {} /\ Starts({}) = {}
  BY <1>1 DEF Starts
<1>7. Sound(g, {}, {}, 0)
  BY <1>3, SoundNothing
<1>8. \A y \in Blocks(h) : g.mem[y + 1].jumbo <=> y \notin B
  BY <1>3, ChunksAre DEF IsJumbo
<1>9. Emptied(h, B, g, In(l))
  <2>1. Blocks(g) = {y \in Blocks(h) : y \in B \/ y \in In(l)}
    BY <1>1, <1>4
  <2>2. Sound(g, B \ In(l), Starts(B \ In(l)), 0)
    BY <1>6, <1>7
  <2>3. \A y \in B \ In(l) : Whole(g.mem[y + 1])
    BY <1>6
  <2>4. \A y \in In(l) : g.mem[y].next = h.mem[y].next
    BY <1>3
  <2> QED
    BY <1>1, <1>3, <1>5, <1>8, <2>1, <2>2, <2>3, <2>4 DEF Emptied
<1>10. EmptyStart(h).heap = g /\ EmptyStart(h).cur = h.block_list
  BY DEF EmptyStart, g
<1> QED
  BY <1>1, <1>9, <1>10

LEMMA FreeAllIs ==
  ASSUME NEW h, NEW B, NEW C, World(h, B, C)
  PROVE  Cleared(FreeAllBlocks(h), B)
<1>1. PICK f, gc : gc = Freeing /\ Rounds(gc, f, EmptyStart(h), NumSlots) /\ FreeAllBlocks(h) = f[NumSlots].heap
  BY FreeAllRuns
<1>2. PICK l : Listed(h, l)
  BY DEF World
<1>3. Shaped(h) /\ B \subseteq Blocks(h) /\ Linked(h, l) /\ In(l) = Blocks(h)
  BY <1>2, WorldFacts DEF Listed, Linked
<1>4. gc \in BOOLEAN
  BY <1>1 DEF Freeing
<1>5. Progress(gc, h, B, C, l)
  BY <1>1, <1>2, FreeingProgress
<1>6. Emptied(h, B, EmptyStart(h).heap, In(l)) /\ EmptyStart(h).cur = At(l, 1)
  BY <1>2, EmptyStartIs
<1>7. Len(l) <= NumSlots
  BY <1>3, ListFits
<1>8. Rest(l, 0) = In(l) /\ Rest(l, Len(l)) = {}
  BY <1>3, RestFacts
<1> DEFINE s == EmptyStart(h)
           g == FreeAllBlocks(h)
<1> HIDE DEF s
<1>9. Passed(gc, h, B, C, s.heap, Rest(l, 0)) /\ s.cur = At(l, 1)
  BY <1>1, <1>6, <1>8, FreeingPassed DEF s
<1>10. Rounds(gc, f, s, NumSlots)
  BY <1>1 DEF s
<1>11. Passed(gc, h, B, C, f[NumSlots].heap, Rest(l, Len(l)))
  BY <1>3, <1>4, <1>5, <1>7, <1>9, <1>10, LoopIs
<1> HIDE DEF g
<1>12. Emptied(h, B, g, {})
  BY <1>1, <1>8, <1>11, FreeingPassed DEF g
<1>13. B \ {} = B
  OBVIOUS
<1>14. /\ Shaped(g) /\ (\E p : Listed(g, p)) /\ Blocks(g) = B
       /\ Sound(g, B, Starts(B), 0) /\ \A y \in B : Whole(g.mem[y + 1])
  BY <1>3, <1>12, <1>13 DEF Emptied
<1>15. World(g, B, Starts(B))
  BY <1>14 DEF World, BigBlocks
<1> QED
  BY <1>14, <1>15 DEF Cleared, g

\* The fields of a heap but its memory.
SameHeads(h, g) ==
  /\ g = [mem |-> g.mem, block_list |-> h.block_list, master_head |-> h.master_head,
          recycler_head |-> h.recycler_head, os |-> h.os]

LEMMA MemHeads ==
  ASSUME NEW h, SameHeads(h, h), NEW a
  PROVE  /\ \A v : SameHeads(h, [h EXCEPT !.mem[a].prev = v])
         /\ \A v : SameHeads(h, [h EXCEPT !.mem[a].next = v])
BY DEF SameHeads

LEMMA UnlinkHead ==
  ASSUME NEW h, Shaped(h), NEW c, h.master_head # c
  PROVE  Unlink(h, c).master_head = h.master_head
<1> DEFINE h1 == SetPrevOf(h, GetFree(h, c).next, GetFree(h, c).prev)
           p == GetFree(h1, c).prev
           h2 == IF p = Null THEN h1 ELSE [h1 EXCEPT !.mem[p + 1].next = GetFree(h1, c).next]
           next == GetFree(h2, c).next
<1>1. SameHeads(h, h)
  BY DEF Shaped, SameHeads
<1>2. SameHeads(h, h1)
  <2> DEFINE q == GetFree(h, c).next
             v == GetFree(h, c).prev
  <2> HIDE DEF q, v
  <2>1. h1 = IF q = Null THEN h ELSE [h EXCEPT !.mem[q + 1].prev = v]
    BY DEF SetPrevOf, q, v
  <2>2. SameHeads(h, [h EXCEPT !.mem[q + 1].prev = v])
    BY <1>1, MemHeads
  <2> HIDE DEF h1
  <2> QED
    BY <1>1, <2>1, <2>2
<1> HIDE DEF h1, p
<1>3. SameHeads(h, h2)
  <2> DEFINE v == GetFree(h1, c).next
  <2> HIDE DEF v
  <2>1. h2 = IF p = Null THEN h1 ELSE [h1 EXCEPT !.mem[p + 1].next = v]
    BY DEF v
  <2>2. SameHeads(h1, h1)
    BY <1>2 DEF SameHeads
  <2>3. SameHeads(h1, [h1 EXCEPT !.mem[p + 1].next = v])
    BY <2>2, MemHeads
  <2> HIDE DEF h2
  <2> QED
    BY <1>2, <2>1, <2>3 DEF SameHeads
<1> HIDE DEF h2
<1>4. h2.master_head = h.master_head
  BY <1>3 DEF SameHeads
<1>5. Unlink(h, c) = IF h2.recycler_head = c
                     THEN [h2 EXCEPT !.recycler_head = IF next = c THEN Null ELSE next]
                     ELSE IF h2.master_head = c THEN [h2 EXCEPT !.master_head = next]
                     ELSE h2
  BY DEF Unlink, h2, p, h1
<1> HIDE DEF next
<1>6. h2 = [mem |-> h2.mem, block_list |-> h.block_list, master_head |-> h.master_head,
            recycler_head |-> h.recycler_head, os |-> h.os]
  BY <1>3 DEF SameHeads
<1> QED
  BY <1>4, <1>5, <1>6

LEMMA UnlinkLists ==
  ASSUME NEW h, NEW B, NEW C, NEW m, NEW r, Good(h, B, C, m, r, 0), NEW c \in Filed(m, r)
  PROVE  \E m2, r2 : Good(Unlink(h, c), B, C, m2, r2, c) /\ Touches(h, Unlink(h, c), Filed(m, r))
<1> DEFINE u == Unlink(h, c)
           F == Filed(m, r)
<1>1. /\ Shaped(h) /\ Tiled(h.mem, C, B, 0) /\ Lists(h, m, r)
      /\ F = FreeSet(h, C, 0) /\ Spaced(h, C, 0) /\ MasterFull(h, m)
  BY DEF Good
<1>2. In(m) \cap In(r) = {}
  BY <1>1 DEF Lists
<1>3. /\ Touches(h, u, F)
      /\ \E m2, r2 : Lists(u, m2, r2) /\ In(m2) = In(m) \ {c} /\ In(r2) = In(r) \ {c}
  <2>1. CASE c \in In(m)
    <3>1. Touches(h, u, F) /\ \E m2 : Lists(u, m2, r) /\ In(m2) = In(m) \ {c}
      BY <1>1, <2>1, UnlinkMaster
    <3>2. In(r) = In(r) \ {c}
      BY <1>2, <2>1
    <3> QED
      BY <3>1, <3>2
  <2>2. CASE c \in In(r)
    <3>1. Touches(h, u, F) /\ \E r2 : Lists(u, m, r2) /\ In(r2) = In(r) \ {c}
      BY <1>1, <2>2, UnlinkRecycler
    <3>2. In(m) = In(m) \ {c}
      BY <1>2, <2>2
    <3> QED
      BY <3>1, <3>2
  <2> QED
    BY <2>1, <2>2 DEF Filed
<1>4. PICK m2, r2 : Lists(u, m2, r2) /\ In(m2) = In(m) \ {c} /\ In(r2) = In(r) \ {c}
  BY <1>3
<1> HIDE DEF u
<1>5. AllFree(h, C, F)
  BY FiledFacts DEF AllFree
<1>6. Filed(m2, r2) = FreeSet(h, C, c)
  <2>1. Filed(m2, r2) = F \ {c}
    BY <1>4 DEF Filed
  <2>2. c \in F /\ \A y \in C : y # 0
    BY <1>1, ChunksNonZero DEF NonZero
  <2> QED
    BY <1>1, <2>1, <2>2 DEF FreeSet
<1>7. WholeBut(h, m2, u.master_head)
  <2>1. h.master_head # c => u.master_head = h.master_head
    BY <1>1, UnlinkHead DEF u
  <2>2. \A y \in In(m2) : y \in In(m) /\ y # c
    BY <1>4
  <2>3. \A y \in In(m) : y # h.master_head => h.mem[y].len = BlockSize - 1
    BY <1>1 DEF MasterFull
  <2> QED
    BY <2>1, <2>2, <2>3 DEF WholeBut
<1>8. Spaced(h, C, c)
  BY <1>1, ChunksNonZero DEF Spaced, NonZero
<1>9. Good(u, B, C, m2, r2, c)
  <2> HIDE DEF F
  <2> QED
    BY <1>1, <1>3, <1>4, <1>5, <1>6, <1>7, <1>8, Refile DEF F
<1> QED
  BY <1>3, <1>9 DEF u

\* Block b, one free chunk, has left the lists and the OS has it back.
Released(h, B, C, g, b) ==
  /\ Shaped(g) /\ g.block_list = h.block_list /\ Blocks(g) = Blocks(h) \ {b}
  /\ Sound(g, B \ {b}, C \ {b + 1}, 0)
  /\ \A a \in Address : ~FreeCell(h.mem, C, a) /\ Home(a) # b => g.mem[a] = h.mem[a]

LEMMA GoodGoes ==
  ASSUME NEW u, NEW B, NEW C, NEW m, NEW r, NEW b \in Block, NEW e, Good(u, B, C, m, r, e),
         NEW D, D = C \ {e}, D = {c \in C : Home(c) # b}, NEW g, HeadsSame(u, g),
         \A a \in Address : Home(a) # b => g.mem[a] = u.mem[a]
  PROVE  Sound(g, B \ {b}, D, 0)
<1>1. /\ Shaped(u) /\ Tiled(u.mem, C, B, 0) /\ Lists(u, m, r)
      /\ Filed(m, r) = FreeSet(u, C, e) /\ Spaced(u, C, e) /\ MasterFull(u, m)
  BY DEF Good
<1>2. C \subseteq Address /\ NonZero(C)
  BY <1>1, ChunksNonZero DEF Tiled, Inside
<1>3. \A c \in D : g.mem[c] = u.mem[c] /\ c \in C /\ c # e /\ Home(c) # b
  BY <1>2
<1>4. Tiled(g.mem, D, B \ {b}, 0)
  <2>1. Tiled(u.mem, D, B \ {b}, 0)
    BY <1>1, BlockGoes
  <2> QED
    BY <1>3, <2>1, TiledSame
<1>5. \A x \in Filed(m, r) : x \in D /\ x + 1 \in Address /\ Home(x + 1) # b
  <2> TAKE x \in Filed(m, r)
  <2>1. x \in C /\ x # e /\ u.mem[x].len >= 2 /\ x + 1 \in Address
    BY FiledFacts
  <2>2. x \in Nat /\ u.mem[x].len \in Nat /\ \A a \in x .. End(u.mem, x) - 1 : Home(a) = Home(x)
    BY <1>1, <2>1, ChunkFacts, ChunkIn
  <2>3. x + 1 \in x .. End(u.mem, x) - 1
    BY <2>1, <2>2 DEF End
  <2>4. Home(x) # b
    BY <1>3, <2>1
  <2> QED
    BY <2>1, <2>2, <2>3, <2>4
<1>6. \A x \in Filed(m, r) : g.mem[x + 1] = u.mem[x + 1]
  BY <1>5
<1>7. Lists(g, m, r)
  <2>1. Dll(g, m, 1)
    <3>1. \A x \in In(m) : g.mem[x + 1] = u.mem[x + 1]
      BY <1>6 DEF Filed
    <3> QED
      BY <1>1, <3>1, DllSame DEF Lists
  <2>2. Ring(g, r)
    <3>1. \A x \in In(r) : g.mem[x + 1] = u.mem[x + 1]
      BY <1>6 DEF Filed
    <3> QED
      BY <1>1, <3>1, RingSame DEF Lists
  <2> QED
    BY <1>1, <2>1, <2>2 DEF Lists, HeadsSame
<1>8. Filed(m, r) = FreeSet(g, D, 0)
  BY <1>1, <1>2, <1>3 DEF FreeSet, NonZero
<1>9. Spaced(g, D, 0)
  <2> SUFFICES ASSUME NEW c \in D, ~g.mem[c].last, ~g.mem[c].used
               PROVE  g.mem[End(g.mem, c)].used
    BY DEF Spaced
  <2>1. c \in C /\ c # e /\ Home(c) # b /\ g.mem[c] = u.mem[c]
    BY <1>3
  <2>2. End(u.mem, c) \in C /\ Home(End(u.mem, c)) = Home(c)
    BY <1>1, <2>1, Neighbours
  <2>3. End(u.mem, c) \in D
    BY <2>1, <2>2
  <2>4. End(u.mem, c) # e /\ g.mem[End(u.mem, c)] = u.mem[End(u.mem, c)]
    BY <1>3, <2>3
  <2>5. End(g.mem, c) = End(u.mem, c)
    BY <2>1 DEF End
  <2>6. u.mem[End(u.mem, c)].used
    BY <1>1, <2>1, <2>4 DEF Spaced
  <2> QED
    BY <2>4, <2>5, <2>6
<1>10. MasterFull(g, m)
  BY <1>1, <1>3, <1>5 DEF MasterFull, Filed, HeadsSame
<1>11. Good(g, B \ {b}, D, m, r, 0)
  BY <1>4, <1>7, <1>8, <1>9, <1>10 DEF Good, HeadsSame
<1> QED
  BY <1>11 DEF Sound

LEMMA ReleaseIs ==
  ASSUME NEW h, NEW B, NEW C, Sound(h, B, C, 0), NEW b \in B, ~h.mem[b + 1].used, h.mem[b + 1].last
  PROVE  Released(h, B, C, ReleaseBlock(h, b), b)
<1> DEFINE e == b + 1
           u == Unlink(h, e)
           g == ReleaseBlock(h, b)
           D == {c \in C : Home(c) # b}
<1>1. PICK m, r : Good(h, B, C, m, r, 0)
  BY DEF Sound
<1>2. /\ Shaped(h) /\ Tiled(h.mem, C, B, 0) /\ Lists(h, m, r)
      /\ Filed(m, r) = FreeSet(h, C, 0)
  BY <1>1 DEF Good
<1>3. b \in Block /\ e \in C
  BY <1>2 DEF Tiled, Inside
<1>4. D = C \ {e} /\ h.mem[e].len = BlockSize - 1
  BY <1>2, OnlyChunk
<1>5. e \in Filed(m, r)
  <2>1. BlockSize - 1 >= 2 /\ e # 0
    <3>1. BlockSize \in Nat /\ BlockSize >= 4 /\ b \in Nat
      BY <1>3, BlockAssumption, HomeFacts
    <3> QED
      BY <3>1
  <2> QED
    BY <1>2, <1>3, <1>4, <2>1 DEF FreeSet
<1>6. g = OsFree(u, b)
  BY ReleaseIsUnlink
<1>7. PICK m2, r2 : Good(u, B, C, m2, r2, e) /\ Touches(h, u, Filed(m, r))
  BY <1>1, <1>5, UnlinkLists
<1> HIDE DEF u, D
<1>8. Shaped(u) /\ u.os = h.os /\ u.block_list = h.block_list /\ Blocks(u) = Blocks(h)
  BY <1>7 DEF Touches, Blocks
<1>9. /\ HeadsSame(u, g) /\ g.block_list = u.block_list
      /\ Blocks(g) = Blocks(u) \ {b}
      /\ \A a \in Address : Home(a) # b => g.mem[a] = u.mem[a]
  BY <1>3, <1>6, <1>8, OsFreeIs
<1> HIDE DEF g, e
<1>10. Sound(g, B \ {b}, D, 0)
  <2>1. D = {c \in C : Home(c) # b}
    BY DEF D
  <2> QED
    BY <1>3, <1>4, <1>7, <1>9, <2>1, GoodGoes
<1>11. \A a \in Address : ~FreeCell(h.mem, C, a) => u.mem[a] = h.mem[a]
  <2> TAKE a \in Address
  <2> HAVE ~FreeCell(h.mem, C, a)
  <2>1. a - 1 \notin Filed(m, r)
    <3>1. \A y \in Filed(m, r) : FreeCell(h.mem, C, y + 1) /\ y \in Address
      BY <1>1, FiledFacts
    <3>2. \A y \in Address : a - 1 = y => a = y + 1
      BY AddressPositive
    <3> QED
      BY <3>1, <3>2
  <2> QED
    BY <1>7, <2>1 DEF Touches
<1>12. Released(h, B, C, g, b)
  BY <1>4, <1>8, <1>9, <1>10, <1>11 DEF Released, e, HeadsSame
<1> QED
  BY <1>12 DEF g

LEMMA OnlyStart ==
  ASSUME NEW h, NEW B, NEW C, World(h, B, C), NEW S, NEW c \in C, c \notin Starts(Gone(h, B, S))
  PROVE  Home(c) \notin Gone(h, B, S)
<1> SUFFICES ASSUME Home(c) \in Gone(h, B, S) PROVE FALSE
  OBVIOUS
<1> DEFINE y == Home(c)
<1>1. y \in B /\ h.mem[y + 1].last
  BY DEF Gone, Idle
<1>2. Tiled(h.mem, C, B, 0)
  BY WorldFacts
<1> HIDE DEF y
<1>3. {d \in C : Home(d) # y} = C \ {y + 1}
  BY <1>1, <1>2, OnlyChunk
<1>4. c = y + 1
  BY <1>3 DEF y
<1> QED
  BY <1>4 DEF Starts, y

StartsKept(h, B, g, S) == \A b \in Blocks(h) : b \notin Gone(h, B, S) => g.mem[b + 1] = h.mem[b + 1]

LEMMA CollectedKeeps ==
  ASSUME NEW h, NEW B, NEW C, World(h, B, C), NEW g, NEW S, Collected(h, B, C, g, S)
  PROVE  /\ KeepsAll(h, g, C \ Starts(Gone(h, B, S)))
         /\ StartsKept(h, B, g, S)
         /\ \A a : FreeCell(g.mem, C \ Starts(Gone(h, B, S)), a) => FreeCell(h.mem, C, a)
<1> DEFINE G == Gone(h, B, S)
           E == C \ Starts(G)
<1>1. Tiled(h.mem, C, B, 0) /\ B \subseteq Blocks(h) /\ Blocks(h) \subseteq Block
  BY WorldFacts
<1>2. Elsewhere(h, g, C, G)
  BY DEF Collected
<1>3. \A c \in E : c \in C /\ Home(c) \notin G
  BY OnlyStart
<1> HIDE DEF G, E
<1>4. ASSUME NEW c \in C, Home(c) \notin G PROVE g.mem[c] = h.mem[c]
  <2>1. c \in Address /\ Home(c) \in B /\ Home(c) < c /\ Home(c) \in Nat /\ c \in Nat
    BY <1>1, ChunkFacts
  <2>2. c \notin Block
    <3>1. \A b \in Block : Home(b) = b
      BY HomeFacts
    <3> QED
      BY <2>1, <3>1
  <2>3. ~FreeCell(h.mem, C, c)
    BY <1>1, FreeCellFacts
  <2> QED
    BY <1>1, <1>2, <1>4, <2>1, <2>2, <2>3 DEF Elsewhere
<1>5. ASSUME NEW b \in Blocks(h), b \notin G PROVE g.mem[b + 1] = h.mem[b + 1]
  <2>1. b + 1 \in Address /\ b + 1 \notin Block /\ Home(b + 1) = b
    BY <1>1, HomeFacts
  <2>2. ~FreeCell(h.mem, C, b + 1)
    <3>1. b \in B => b + 1 \in C
      BY <1>1 DEF Tiled, Inside
    <3> QED
      BY <1>1, <2>1, <3>1, FreeCellFacts
  <2> QED
    BY <1>2, <1>5, <2>1, <2>2 DEF Elsewhere
<1>6. ASSUME NEW a, FreeCell(g.mem, E, a) PROVE FreeCell(h.mem, C, a)
  <2>1. PICK c \in E : ~g.mem[c].used /\ a \in c + 1 .. End(g.mem, c) - 1
    BY <1>6 DEF FreeCell
  <2>2. c \in C /\ g.mem[c] = h.mem[c]
    BY <1>3, <1>4
  <2> QED
    BY <2>1, <2>2 DEF FreeCell, End
<1>7. \A c \in E : g.mem[c] = h.mem[c]
  BY <1>3, <1>4
<1> QED
  BY <1>5, <1>6, <1>7 DEF E, G, StartsKept, KeepsAll

GoneToo(h, B, S, b) == Gone(h, B, S) = Gone(h, B, S \cup {b}) \cup {b}

LEMMA GoneNext ==
  ASSUME NEW h, NEW B, NEW S, NEW b \in Blocks(h), b \notin S
  PROVE  /\ b \notin Gone(h, B, S \cup {b})
         /\ Idle(h, B, b) => GoneToo(h, B, S, b)
         /\ ~Idle(h, B, b) => Gone(h, B, S) = Gone(h, B, S \cup {b})
<1>1. b \notin Gone(h, B, S \cup {b})
  BY DEF Gone
<1>2. \A y : y \in Gone(h, B, S \cup {b}) <=> y \in Blocks(h) /\ y \notin S /\ y # b /\ Idle(h, B, y)
  BY DEF Gone
<1>3. \A y : y \in Gone(h, B, S) <=> y \in Blocks(h) /\ y \notin S /\ Idle(h, B, y)
  BY DEF Gone
<1>4. Idle(h, B, b) => Gone(h, B, S) = Gone(h, B, S \cup {b}) \cup {b}
  <2> HAVE Idle(h, B, b)
  <2>1. \A y : y \in Gone(h, B, S) <=> y \in Gone(h, B, S \cup {b}) \cup {b}
    BY <1>2, <1>3
  <2> QED
    BY <2>1
<1>5. ~Idle(h, B, b) => Gone(h, B, S) = Gone(h, B, S \cup {b})
  <2> HAVE ~Idle(h, B, b)
  <2>1. \A y : y \in Gone(h, B, S) <=> y \in Gone(h, B, S \cup {b})
    BY <1>2, <1>3
  <2> QED
    BY <2>1
<1> QED
  BY <1>1, <1>4, <1>5 DEF GoneToo

LEMMA KeepRound ==
  ASSUME NEW h, NEW B, NEW C, World(h, B, C), NEW S, S \subseteq Blocks(h), NEW b \in Blocks(h), b \notin S,
         ~Idle(h, B, b), NEW g, Collected(h, B, C, g, S \cup {b})
  PROVE  Collected(h, B, C, AddToBlockList(g, b), S)
<1> DEFINE k == AddToBlockList(g, b)
           G == Gone(h, B, S)
           D == B \ G
           E == C \ Starts(G)
<1>1. b \notin G /\ Gone(h, B, S \cup {b}) = G
  BY GoneNext
<1> HIDE DEF G
<1>2. /\ Shaped(g) /\ (\E p : Linked(g, p) /\ In(p) = Blocks(g) \ (S \cup {b}))
      /\ Blocks(g) = Blocks(h) \ G
      /\ Sound(g, D, E, 0)
      /\ Elsewhere(h, g, C, G)
      /\ \A y \in S \cup {b} : g.mem[y] = h.mem[y]
  BY <1>1 DEF Collected
<1>3. PICK p : Linked(g, p) /\ In(p) = Blocks(g) \ (S \cup {b})
  BY <1>2
<1>4. Blocks(h) \subseteq Block /\ b \in Address
  BY WorldFacts, HomeFacts
<1>5. b \notin In(p)
  BY <1>3
<1>6. Chained(g, k, In(p) \cup {b}) /\ Linked(k, Lead(p, b)) /\ In(Lead(p, b)) = In(p) \cup {b}
  BY <1>2, <1>3, <1>4, <1>5, AddListIs
<1> HIDE DEF k, D, E
<1>7. HeadsSame(g, k) /\ k.os = g.os /\ \A a \in Address : a \notin In(p) \cup {b} => k.mem[a] = g.mem[a]
  BY <1>6 DEF Chained
<1>8. Blocks(k) = Blocks(g) /\ Shaped(k)
  BY <1>7 DEF Blocks, HeadsSame
<1>9. In(p) \cup {b} \subseteq Block
  BY <1>2, <1>3, <1>4
<1>10. \A a \in Address : a \notin Block => k.mem[a] = g.mem[a]
  BY <1>7, <1>9
<1>11. Sound(k, D, E, 0)
  <2>1. \A a \in Address : a # Home(a) => a \notin Block
    BY HomeFacts
  <2>2. Framed(g, k, D)
    BY <1>7, <1>10, <2>1 DEF Framed
  <2> QED
    BY <1>2, <2>2, FramedSound
<1>12. Elsewhere(h, k, C, G)
  BY <1>2, <1>10 DEF Elsewhere
<1>13. \A y \in S : k.mem[y] = h.mem[y]
  <2> TAKE y \in S
  <2>1. y \in Address /\ y \notin In(p) \cup {b}
    BY <1>3, <1>4, HomeFacts
  <2> QED
    BY <1>2, <1>7, <2>1
<1>14. In(Lead(p, b)) = Blocks(k) \ S
  BY <1>1, <1>2, <1>3, <1>6, <1>8
<1>15. Collected(h, B, C, k, S)
  BY <1>2, <1>6, <1>8, <1>11, <1>12, <1>13, <1>14 DEF Collected, D, E, G
<1> QED
  BY <1>15 DEF k

LEMMA ReleaseRound ==
  ASSUME NEW h, NEW B, NEW C, World(h, B, C), NEW S, S \subseteq Blocks(h), NEW b \in Blocks(h), b \notin S,
         Idle(h, B, b), NEW g, Collected(h, B, C, g, S \cup {b})
  PROVE  Collected(h, B, C, ReleaseBlock(g, b), S)
<1> DEFINE k == ReleaseBlock(g, b)
           G == Gone(h, B, S \cup {b})
           D == B \ G
           E == C \ Starts(G)
<1>1. b \notin G /\ Gone(h, B, S) = G \cup {b}
  <2>1. b \notin Gone(h, B, S \cup {b})
    BY GoneNext
  <2>2. GoneToo(h, B, S, b)
    BY GoneNext
  <2> QED
    BY <2>1, <2>2 DEF GoneToo
<1> HIDE DEF G
<1>2. /\ Shaped(g) /\ (\E p : Linked(g, p) /\ In(p) = Blocks(g) \ (S \cup {b}))
      /\ Blocks(g) = Blocks(h) \ G
      /\ Sound(g, D, E, 0)
      /\ Elsewhere(h, g, C, G)
      /\ \A y \in S \cup {b} : g.mem[y] = h.mem[y]
  BY DEF Collected, G
<1>3. PICK p : Linked(g, p) /\ In(p) = Blocks(g) \ (S \cup {b})
  BY <1>2
<1>4. Blocks(h) \subseteq Block /\ \A y \in Block : y \in Address /\ Home(y) = y /\ y \in Nat
  BY WorldFacts, HomeFacts
<1>5. \A a : FreeCell(g.mem, E, a) => FreeCell(h.mem, C, a)
  BY CollectedKeeps DEF G
<1>6. g.mem[b + 1] = h.mem[b + 1]
  <2>1. StartsKept(h, B, g, S \cup {b})
    BY CollectedKeeps
  <2> QED
    BY <1>1, <2>1 DEF G, StartsKept
<1>7. b \in B /\ ~h.mem[b + 1].used /\ h.mem[b + 1].last
  BY DEF Idle
<1>8. b \in D
  BY <1>1, <1>7
<1> HIDE DEF D, E, k
<1>9. Released(g, D, E, k, b)
  BY <1>2, <1>6, <1>7, <1>8, ReleaseIs DEF k
<1>10. /\ Shaped(k) /\ k.block_list = g.block_list /\ Blocks(k) = Blocks(g) \ {b}
       /\ Sound(k, D \ {b}, E \ {b + 1}, 0)
       /\ \A a \in Address : ~FreeCell(g.mem, E, a) /\ Home(a) # b => k.mem[a] = g.mem[a]
  BY <1>9 DEF Released
<1>11. D \ {b} = B \ Gone(h, B, S) /\ E \ {b + 1} = C \ Starts(Gone(h, B, S))
  BY <1>1 DEF D, E, Starts
<1>12. ASSUME NEW y \in Block, y # b PROVE k.mem[y] = g.mem[y]
  <2>1. Tiled(h.mem, C, B, 0)
    BY WorldFacts
  <2>2. ~FreeCell(g.mem, E, y)
    BY <1>4, <1>5, <2>1, FreeCellFacts
  <2> QED
    BY <1>4, <1>10, <1>12, <2>2
<1>13. Linked(k, p)
  <2>1. \A y \in In(p) : k.mem[y + 0] = g.mem[y + 0]
    <3>1. \A y \in Block : y + 0 = y
      BY <1>4
    <3>2. \A y \in In(p) : y \in Block /\ y # b
      BY <1>2, <1>3, <1>4
    <3> QED
      BY <1>12, <3>1, <3>2
  <2>2. Dll(k, p, 0)
    BY <1>3, <2>1, DllSame DEF Linked
  <2> QED
    BY <1>3, <1>10, <2>2 DEF Linked
<1>14. In(p) = Blocks(k) \ S
  BY <1>3, <1>10
<1>15. Elsewhere(h, k, C, Gone(h, B, S))
  <2> SUFFICES ASSUME NEW a \in Address, ~FreeCell(h.mem, C, a), a \notin Block, Home(a) \in Blocks(h),
                      Home(a) \notin Gone(h, B, S)
               PROVE  k.mem[a] = h.mem[a]
    BY DEF Elsewhere
  <2>1. Home(a) \notin G /\ Home(a) # b
    BY <1>1
  <2>2. g.mem[a] = h.mem[a]
    BY <1>2, <2>1 DEF Elsewhere
  <2>3. k.mem[a] = g.mem[a]
    BY <1>5, <1>10, <2>1
  <2> QED
    BY <2>2, <2>3
<1>16. \A y \in S : k.mem[y] = h.mem[y]
  <2>1. \A y \in S : y \in Block /\ y # b
    BY <1>4
  <2> QED
    BY <1>2, <1>12, <2>1
<1>17. Blocks(k) = Blocks(h) \ Gone(h, B, S)
  BY <1>1, <1>2, <1>10
<1>18. Collected(h, B, C, k, S)
  BY <1>10, <1>11, <1>13, <1>14, <1>15, <1>16, <1>17 DEF Collected
<1> QED
  BY <1>18 DEF k

LEMMA CollectingPassed ==
  ASSUME NEW gc, gc = Collecting, NEW h, NEW B, NEW C, NEW g, NEW S
  PROVE  Passed(gc, h, B, C, g, S) <=> Collected(h, B, C, g, S)
BY DEF Passed, Collecting

LEMMA CollectingRound ==
  ASSUME NEW gc, gc = Collecting, NEW w, w.cur # 0
  PROVE  LET b == w.cur
             c == w.heap.mem[b + 1]
         IN  /\ Round(gc, w).heap = IF ~c.jumbo /\ ~c.used /\ c.last
                                    THEN ReleaseBlock(w.heap, b) ELSE AddToBlockList(w.heap, b)
             /\ Round(gc, w).cur = w.heap.mem[b].next
<1>1. Round(gc, w) = GcRound(w)
  BY DEF Round, Collecting
<1> DEFINE b == w.cur
           c == w.heap.mem[b + 1]
           k == IF ~c.jumbo /\ ~c.used /\ c.last
                THEN ReleaseBlock(w.heap, b) ELSE AddToBlockList(w.heap, b)
<1>2. GcRound(w) = [heap |-> k, cur |-> w.heap.mem[b].next]
  BY DEF GcRound, Null
<1> HIDE DEF k
<1>3. Round(gc, w).heap = k /\ Round(gc, w).cur = w.heap.mem[b].next
  BY <1>1, <1>2
<1> QED
  BY <1>3 DEF k

LEMMA CollectingProgress ==
  ASSUME NEW gc, gc = Collecting, NEW h, NEW B, NEW C, World(h, B, C), NEW l, Listed(h, l)
  PROVE  Progress(gc, h, B, C, l)
<1> SUFFICES ASSUME NEW k \in 0 .. Len(l) - 1, NEW w, w.cur = l[k + 1],
                    Passed(gc, h, B, C, w.heap, Rest(l, k))
             PROVE  /\ Passed(gc, h, B, C, Round(gc, w).heap, Rest(l, k + 1))
                    /\ Round(gc, w).cur = At(l, k + 2)
  BY DEF Progress
<1> DEFINE b == l[k + 1]
           S == Rest(l, k + 1)
           g == w.heap
<1>2. Linked(h, l) /\ In(l) = Blocks(h)
  BY DEF Listed, Linked
<1>3. b \in Blocks(h) /\ b # 0 /\ b \notin S /\ Rest(l, k) = S \cup {b}
  BY <1>2, RestFacts
<1>4. S \subseteq Blocks(h)
  <2>1. k + 1 \in 0 .. Len(l)
    BY <1>2, RestFacts
  <2> QED
    BY <1>2, <2>1, RestFacts
<1>5. h.mem[b].next = At(l, k + 2)
  BY <1>2, NextsOf
<1>8. w.cur = b
  OBVIOUS
<1> HIDE DEF S, b
<1>6. Collected(h, B, C, g, S \cup {b})
  BY <1>3, CollectingPassed
<1>7. g.mem[b] = h.mem[b] /\ g.mem[b + 1] = h.mem[b + 1]
  <2>1. StartsKept(h, B, g, S \cup {b})
    BY <1>6, CollectedKeeps
  <2>2. b \notin Gone(h, B, S \cup {b})
    BY DEF Gone
  <2> QED
    BY <1>3, <1>6, <2>1, <2>2 DEF StartsKept, Collected
<1> DEFINE c == g.mem[b + 1]
<1>9. ~c.jumbo /\ ~c.used /\ c.last <=> Idle(h, B, b)
  <2>1. h.mem[b + 1].jumbo <=> b \notin B
    BY <1>3, ChunksAre DEF IsJumbo
  <2> HIDE DEF g
  <2> QED
    BY <1>7, <2>1 DEF Idle
<1>10. /\ Round(gc, w).heap = IF ~c.jumbo /\ ~c.used /\ c.last
                              THEN ReleaseBlock(g, b) ELSE AddToBlockList(g, b)
       /\ Round(gc, w).cur = g.mem[b].next
  BY <1>3, <1>8, CollectingRound
<1> HIDE DEF c
<1>11. Round(gc, w).heap = IF Idle(h, B, b) THEN ReleaseBlock(g, b) ELSE AddToBlockList(g, b)
  <2> HIDE DEF g
  <2> QED
    BY <1>9, <1>10
<1>12. Collected(h, B, C, Round(gc, w).heap, S)
  <2> HIDE DEF g
  <2>1. CASE Idle(h, B, b)
    <3>1. Collected(h, B, C, ReleaseBlock(g, b), S)
      BY <1>3, <1>4, <1>6, <2>1, ReleaseRound
    <3> QED
      BY <1>11, <2>1, <3>1
  <2>2. CASE ~Idle(h, B, b)
    <3>1. Collected(h, B, C, AddToBlockList(g, b), S)
      BY <1>3, <1>4, <1>6, <2>2, KeepRound
    <3> QED
      BY <1>11, <2>2, <3>1
  <2> QED
    BY <2>1, <2>2
<1>13. Passed(gc, h, B, C, Round(gc, w).heap, S)
  <2> HIDE DEF g
  <2> QED
    BY <1>12, CollectingPassed
<1>14. Round(gc, w).cur = At(l, k + 2)
  <2> HIDE DEF g
  <2> QED
    BY <1>5, <1>7, <1>10
<1> QED
  BY <1>13, <1>14 DEF S

LEMMA GcStartIs ==
  ASSUME NEW h, NEW B, NEW C, World(h, B, C), NEW l, Listed(h, l)
  PROVE  Collected(h, B, C, GcStart(h).heap, In(l)) /\ GcStart(h).cur = At(l, 1)
<1> DEFINE g == [h EXCEPT !.block_list = Null]
           s == << >>
<1>1. Shaped(h) /\ In(l) = Blocks(h) /\ h.block_list = At(l, 1) /\ Sound(h, B, C, 0)
  BY WorldFacts DEF Listed, World
<1>2. g = [mem |-> h.mem, block_list |-> 0, master_head |-> h.master_head,
           recycler_head |-> h.recycler_head, os |-> h.os]
  BY <1>1 DEF Shaped, Null
<1> HIDE DEF g
<1>3. HeadsSame(h, g) /\ g.mem = h.mem /\ g.block_list = 0 /\ g.os = h.os /\ Shaped(g)
  BY <1>1, <1>2 DEF Shaped, HeadsSame
<1>4. s \in Seq(Address) /\ Len(s) = 0
  OBVIOUS
<1> HIDE DEF s
<1>5. Linked(g, s) /\ In(s) = {}
  <2>1. ~(1 \in 1 .. Len(s)) /\ \A j \in 1 .. Len(s) : FALSE
    BY <1>4
  <2>2. Distinct(s) /\ In(s) = {} /\ At(s, 1) = 0
    BY <1>4, <2>1 DEF Distinct, In, At
  <2> QED
    BY <1>3, <2>1, <2>2 DEF Linked, Dll
<1>6. Blocks(g) = Blocks(h)
  BY <1>3 DEF Blocks
<1>7. Gone(h, B, In(l)) = {} /\ Starts({}) = {} /\ B \ {} = B /\ C \ {} = C
  BY <1>1 DEF Gone, Starts
<1>8. Sound(g, B, C, 0)
  <2>1. Framed(h, g, B)
    BY <1>3 DEF Framed
  <2> QED
    BY <1>1, <2>1, FramedSound
<1>9. Sound(g, B \ Gone(h, B, In(l)), C \ Starts(Gone(h, B, In(l))), 0)
  BY <1>7, <1>8
<1>10. Elsewhere(h, g, C, Gone(h, B, In(l)))
  BY <1>3 DEF Elsewhere
<1>11. \E p : Linked(g, p) /\ In(p) = Blocks(g) \ In(l)
  BY <1>1, <1>5, <1>6
<1>12. Blocks(g) = Blocks(h) \ Gone(h, B, In(l)) /\ \A y \in In(l) : g.mem[y] = h.mem[y]
  BY <1>3, <1>6, <1>7
<1>13. Collected(h, B, C, g, In(l))
  BY <1>3, <1>9, <1>10, <1>11, <1>12 DEF Collected
<1>14. GcStart(h).heap = g /\ GcStart(h).cur = h.block_list
  BY DEF GcStart, g
<1> QED
  BY <1>1, <1>13, <1>14

LEMMA GcCollects ==
  ASSUME NEW h, NEW B, NEW C, World(h, B, C)
  PROVE  Collected(h, B, C, GcBlocks(h), {})
<1>1. PICK f, gc : gc = Collecting /\ Rounds(gc, f, GcStart(h), NumSlots) /\ GcBlocks(h) = f[NumSlots].heap
  BY GcRuns
<1>2. PICK l : Listed(h, l)
  BY DEF World
<1>3. Shaped(h) /\ Linked(h, l) /\ In(l) = Blocks(h)
  BY <1>2, WorldFacts DEF Listed, Linked
<1>4. gc \in BOOLEAN
  BY <1>1 DEF Collecting
<1>5. Progress(gc, h, B, C, l)
  BY <1>1, <1>2, CollectingProgress
<1>6. Collected(h, B, C, GcStart(h).heap, In(l)) /\ GcStart(h).cur = At(l, 1)
  BY <1>2, GcStartIs
<1>7. Len(l) <= NumSlots
  BY <1>3, ListFits
<1>8. Rest(l, 0) = In(l) /\ Rest(l, Len(l)) = {}
  BY <1>3, RestFacts
<1> DEFINE s == GcStart(h)
           g == GcBlocks(h)
<1> HIDE DEF s
<1>9. Passed(gc, h, B, C, s.heap, Rest(l, 0)) /\ s.cur = At(l, 1)
  BY <1>1, <1>6, <1>8, CollectingPassed DEF s
<1>10. Rounds(gc, f, s, NumSlots)
  BY <1>1 DEF s
<1>11. Passed(gc, h, B, C, f[NumSlots].heap, Rest(l, Len(l)))
  BY <1>3, <1>4, <1>5, <1>7, <1>9, <1>10, LoopIs
<1> HIDE DEF g
<1> QED
  BY <1>1, <1>8, <1>11, CollectingPassed DEF g

LEMMA GcIs ==
  ASSUME NEW h, NEW B, NEW C, World(h, B, C)
  PROVE  LET g == GcBlocks(h)
             G == Gone(h, B, {})
         IN  /\ World(g, B \ G, C \ Starts(G)) /\ Serves(h, B, C, g, B \ G, C \ Starts(G), {})
             /\ Blocks(g) = Blocks(h) \ G
<1> DEFINE g == GcBlocks(h)
           G == Gone(h, B, {})
           D == B \ G
           E == C \ Starts(G)
<1>1. Collected(h, B, C, g, {})
  BY GcCollects
<1> HIDE DEF g, G
<1>2. /\ Shaped(g) /\ (\E p : Linked(g, p) /\ In(p) = Blocks(g) \ {})
      /\ Blocks(g) = Blocks(h) \ G
      /\ Sound(g, D, E, 0)
      /\ Elsewhere(h, g, C, G)
  BY <1>1 DEF Collected, G
<1>3. \A c \in E : g.mem[c] = h.mem[c]
  <2>1. KeepsAll(h, g, C \ Starts(Gone(h, B, {})))
    BY <1>1, CollectedKeeps
  <2> QED
    BY <2>1 DEF KeepsAll, G
<1>4. StartsKept(h, B, g, {})
  BY <1>1, CollectedKeeps
<1>5. \A b \in Blocks(h) : b \notin G => g.mem[b + 1] = h.mem[b + 1]
  BY <1>4 DEF StartsKept, G
<1>6. B \subseteq Blocks(h) /\ BigBlocks(h, B)
  BY WorldFacts
<1>7. \A y \in G : y \in B /\ ~h.mem[y + 1].used
  BY DEF G, Gone, Idle
<1>8. \E p : Listed(g, p)
  <2>1. PICK p : Linked(g, p) /\ In(p) = Blocks(g) \ {}
    BY <1>2
  <2>2. In(p) = Blocks(g)
    BY <2>1
  <2> QED
    BY <2>1, <2>2 DEF Listed, Linked
<1>9. BigBlocks(g, D)
  BY <1>2, <1>5, <1>6, <1>7 DEF BigBlocks
<1>10. World(g, D, E)
  <2>1. D \subseteq Blocks(g)
    BY <1>2, <1>6
  <2> QED
    BY <1>2, <1>8, <1>9, <2>1 DEF World
<1>11. \A c \in C : c \notin Starts(G) => Home(c) \notin G
  BY OnlyStart DEF G
<1> HIDE DEF D, E
<1>12. ASSUME NEW c \in Users(h, B, C)
       PROVE  c \in Users(g, D, E) /\ Untouched(h, B, g, D, c)
  <2>1. /\ Home(c) \in Blocks(h)
        /\ Home(c) \in B => c \in C /\ h.mem[c].used
        /\ Home(c) \notin B => c = Home(c) + 1
    BY UserFacts
  <2>2. h.mem[c].used => c \notin Starts(G)
    BY <1>7 DEF Starts
  <2>3. Home(c) \notin G
    BY <1>7, <1>11, <2>1, <2>2
  <2>4. \A b \in Blocks(h) : b \in B <=> b \in B
    OBVIOUS
  <2>5. g.mem[c] = h.mem[c] /\ Untouched(h, B, g, B, c)
    BY <1>2, <2>3, <2>4, ElsewhereKeeps
  <2>6. Home(c) \in D <=> Home(c) \in B
    BY <2>3 DEF D
  <2>7. Untouched(h, B, g, D, c)
    BY <2>5, <2>6 DEF Untouched, Span
  <2>8. c \in Users(g, D, E)
    <3>1. CASE Home(c) \in B
      <4>1. c \in E /\ g.mem[c].used
        BY <2>1, <2>2, <2>5, <3>1 DEF E
      <4> QED
        BY <4>1 DEF Users
    <3>2. CASE Home(c) \notin B
      <4>1. Home(c) \in Blocks(g) \ D
        BY <1>2, <2>1, <2>3, <2>6, <3>2
      <4> QED
        BY <2>1, <3>2, <4>1 DEF Users
    <3> QED
      BY <3>1, <3>2
  <2> QED
    BY <2>7, <2>8
<1>13. ASSUME NEW c \in Users(g, D, E) PROVE c \in Users(h, B, C)
  <2>1. CASE c \in E /\ g.mem[c].used
    <3>1. c \in C /\ h.mem[c].used
      BY <1>3, <2>1 DEF E
    <3> QED
      BY <3>1 DEF Users
  <2>2. CASE c \in {b + 1 : b \in Blocks(g) \ D}
    <3>1. Blocks(g) \ D \subseteq Blocks(h) \ B
      BY <1>2, <1>7 DEF D
    <3> QED
      BY <2>2, <3>1 DEF Users
  <2> QED
    BY <2>1, <2>2 DEF Users
<1>14. Serves(h, B, C, g, D, E, {})
  BY <1>12, <1>13 DEF Serves
<1> QED
  BY <1>2, <1>10, <1>14 DEF g, G, D, E

LEMMA NobodyHome ==
  ASSUME NEW h, NEW B, NEW C, World(h, B, C), Users(h, B, C) = {}
  PROVE  Occupied(h, B, C, << >>)
<1> DEFINE f == << >>
<1>1. DOMAIN f = {} /\ f = [i \in DOMAIN f |-> f[i]]
  OBVIOUS
<1> HIDE DEF f
<1>2. Tenants(h, B, C, f)
  BY <1>1 DEF Tenants
<1> QED
  BY <1>2 DEF Occupied, f

LEMMA EmptyWorld ==
  ASSUME NEW h, Shaped(h), h.os = {}, h.block_list = 0, h.master_head = 0, h.recycler_head = 0
  PROVE  Occupied(h, {}, {}, << >>)
<1> DEFINE s == << >>
<1>1. Blocks(h) = {}
  BY DEF Blocks
<1>2. s \in Seq(Address) /\ Len(s) = 0
  OBVIOUS
<1> HIDE DEF s
<1>3. Listed(h, s)
  <2>1. ~(1 \in 1 .. Len(s)) /\ \A j \in 1 .. Len(s) : FALSE
    BY <1>2
  <2>2. Distinct(s) /\ In(s) = {} /\ At(s, 1) = 0
    BY <1>2, <2>1 DEF Distinct, In, At
  <2> QED
    BY <1>1, <2>1, <2>2 DEF Listed, Dll
<1>4. World(h, {}, {})
  BY <1>1, <1>3, SoundNothing DEF World, BigBlocks
<1>5. Users(h, {}, {}) = {}
  BY <1>1 DEF Users
<1> QED
  BY <1>4, <1>5, NobodyHome

LEMMA ClearedEmpty ==
  ASSUME NEW h, NEW B, Cleared(h, B)
  PROVE  Occupied(h, B, Starts(B), << >>)
<1>1. World(h, B, Starts(B)) /\ Blocks(h) = B /\ \A b \in B : Whole(h.mem[b + 1])
  BY DEF Cleared
<1>2. \A b \in B : ~h.mem[b + 1].used
  BY <1>1 DEF Whole, Chunk
<1>3. Users(h, B, Starts(B)) = {}
  BY <1>1, <1>2 DEF Users, Starts
<1> QED
  BY <1>1, <1>3, NobodyHome

LEMMA ClearedKept ==
  ASSUME NEW h, NEW B, Cleared(h, B)
  PROVE  Cleared(Forget(h, << >>), B)
<1> DEFINE f == << >>
           g == Forget(h, f)
<1>1. World(h, B, Starts(B)) /\ Blocks(h) = B /\ \A b \in B : Whole(h.mem[b + 1])
  BY DEF Cleared
<1>2. Occupied(h, B, Starts(B), f)
  BY ClearedEmpty
<1> HIDE DEF f
<1>3. World(g, B, Starts(B))
  BY <1>2, ForgetIs DEF Occupied
<1>4. Shaped(h)
  BY <1>1, WorldFacts
<1>5. HeadsKept(h, g) /\ \A a \in Address : a \in Meaningful(h, f) => g.mem[a] = h.mem[a]
  BY <1>4, KeepIs DEF Forget
<1> HIDE DEF g
<1>6. \A b \in B : b + 1 \in Address /\ b + 1 \in Meaningful(h, f)
  <2>1. \A b \in B : b + 1 \in Headers(h, Starts(B))
    BY <1>1 DEF Headers
  <2>2. \A a \in Headers(h, Starts(B)) : a \in Meaningful(h, f)
    BY <1>1, Means
  <2>3. \A a \in Headers(h, Starts(B)) : a \in Address
    BY <1>1, HeadersFacts
  <2> QED
    BY <2>1, <2>2, <2>3
<1>7. \A b \in B : Whole(g.mem[b + 1])
  BY <1>1, <1>5, <1>6
<1>8. Blocks(g) = B
  BY <1>1, <1>5 DEF HeadsKept, Blocks
<1> QED
  BY <1>3, <1>7, <1>8 DEF Cleared, g, f

LEMMA FreeAllLodges ==
  ASSUME NEW h, NEW B, NEW C, World(h, B, C)
  PROVE  LET g == Forget(FreeAllBlocks(h), << >>)
         IN  Occupied(g, B, Starts(B), << >>) /\ Cleared(g, B)
BY FreeAllIs, ClearedKept, ClearedEmpty

LEMMA StillHoused ==
  ASSUME NEW h, NEW B, NEW C, NEW f, Occupied(h, B, C, f), NEW g, NEW D, NEW E, World(g, D, E),
         Serves(h, B, C, g, D, E, {})
  PROVE  Occupied(g, D, E, f)
<1>1. World(h, B, C) /\ Tenants(h, B, C, f)
  BY DEF Occupied
<1>2. ASSUME NEW i \in DOMAIN f PROVE Houses(g, D, E, f[i], i)
  <2> DEFINE c == f[i].ptr - 1
  <2>1. Houses(h, B, C, f[i], i)
    BY <1>1, TenantFacts
  <2>2. c \in Users(h, B, C)
    BY <2>1 DEF Houses
  <2>3. c \in Users(g, D, E) /\ Untouched(h, B, g, D, c)
    BY <2>2 DEF Serves
  <2> HIDE DEF c
  <2> QED
    BY <1>1, <2>1, <2>3, HousesKept DEF c
<1>3. \A c \in Users(g, D, E) : c \in Users(h, B, C)
  BY DEF Serves
<1>4. Tenants(g, D, E, f)
  BY <1>1, <1>2, <1>3 DEF Tenants
<1> QED
  BY <1>4 DEF Occupied

LEMMA GcLodges ==
  ASSUME NEW h, NEW B, NEW C, NEW f, Occupied(h, B, C, f)
  PROVE  \E D, E : Occupied(GcBlocks(h), D, E, f)
<1>1. World(h, B, C)
  BY DEF Occupied
<1>2. PICK D, E : World(GcBlocks(h), D, E) /\ Serves(h, B, C, GcBlocks(h), D, E, {})
  BY <1>1, GcIs
<1> QED
  BY <1>2, StillHoused

\* A collection right after everything was freed gives every block back.
LEMMA GcOfCleared ==
  ASSUME NEW h, NEW B, Cleared(h, B)
  PROVE  GcBlocks(h).os = {}
<1>1. World(h, B, Starts(B)) /\ Blocks(h) = B /\ \A b \in B : Whole(h.mem[b + 1])
  BY DEF Cleared
<1>2. \A b \in B : ~h.mem[b + 1].used /\ h.mem[b + 1].last
  BY <1>1 DEF Whole, Chunk
<1>3. Gone(h, B, {}) = B
  BY <1>1, <1>2 DEF Gone, Idle
<1>4. Blocks(GcBlocks(h)) = Blocks(h) \ Gone(h, B, {})
  BY <1>1, GcIs
<1>5. Blocks(GcBlocks(h)) = {}
  BY <1>1, <1>3, <1>4
<1> QED
  BY <1>5 DEF Blocks

(* The inductive invariant.                                                *)
Inhabited(h, f) == \E B, C : Occupied(h, B, C, f)

IInv ==
  /\ Inhabited(heap, live)
  /\ created \in BOOLEAN
  /\ ~created => heap.os = {} /\ live = << >>

LEMMA OccupiedShaped ==
  ASSUME NEW h, NEW f, Inhabited(h, f)
  PROVE  Shaped(h)
BY WorldFacts DEF Inhabited, Occupied

LEMMA ForgetInhabited ==
  ASSUME NEW h, NEW B, NEW C, NEW f, Occupied(h, B, C, f)
  PROVE  Inhabited(Forget(h, f), f)
BY ForgetIs DEF Inhabited

LEMMA InitIInv == Init => IInv
<1> SUFFICES ASSUME Init PROVE IInv
  OBVIOUS
<1>1. heap = [mem |-> [a \in Address |-> Junk], block_list |-> 0,
              master_head |-> 0, recycler_head |-> 0, os |-> {}]
      /\ live = << >> /\ created = TRUE
  BY DEF Init, Null
<1>2. heap.mem = [a \in Address |-> Junk] /\ heap.os = {} /\ heap.block_list = 0
      /\ heap.master_head = 0 /\ heap.recycler_head = 0
  BY <1>1
<1>3. heap = [mem |-> heap.mem, block_list |-> heap.block_list,
              master_head |-> heap.master_head, recycler_head |-> heap.recycler_head,
              os |-> heap.os]
  BY <1>1, <1>2
<1>4. heap.mem = [a \in Address |-> heap.mem[a]]
  BY <1>2
<1>5. Shaped(heap)
  BY <1>2, <1>3, <1>4 DEF Shaped
<1>6. Occupied(heap, {}, {}, << >>)
  BY <1>2, <1>5, EmptyWorld
<1>7. Inhabited(heap, live)
  BY <1>1, <1>6 DEF Inhabited
<1> QED
  BY <1>1, <1>7 DEF IInv

LEMMA AllocStep ==
  ASSUME IInv, NEW i \in Id, NEW size \in Size, Alloc(i, size)
  PROVE  IInv'
<1> DEFINE new == BlockAlloc(heap, size)
           r == [ptr |-> new.ptr, size |-> size]
           k == Write(new.heap, i, r, 0)
           f == With(live, i, r)
<1>1. PICK B, C : Occupied(heap, B, C, live)
  BY DEF IInv, Inhabited
<1>2. created /\ i \notin DOMAIN live /\ Serviceable(heap, size)
  BY DEF Alloc
<1>3. live' = f /\ heap' = Forget(k, live') /\ created' = created
  BY DEF Alloc
<1>4. \E D, E : Occupied(k, D, E, f)
  BY <1>1, <1>2, AllocLodges
<1> HIDE DEF k, f
<1>5. Inhabited(Forget(k, f), f)
  BY <1>4, ForgetInhabited
<1>6. Inhabited(heap', live')
  BY <1>3, <1>5
<1> QED
  BY <1>2, <1>3, <1>6 DEF IInv, Inhabited

LEMMA FreedStep ==
  ASSUME IInv, NEW i \in Id, Free(i)
  PROVE  IInv'
<1> DEFINE k == BlockFree(heap, live[i].ptr)
           f == Without(live, {i})
<1>1. PICK B, C : Occupied(heap, B, C, live)
  BY DEF IInv, Inhabited
<1>2. created /\ i \in DOMAIN live /\ live' = f /\ heap' = Forget(k, live') /\ created' = created
  BY DEF Free
<1>3. \E E : Occupied(k, B, E, f)
  BY <1>1, <1>2, FreeLodges
<1> HIDE DEF k, f
<1>4. Inhabited(Forget(k, f), f)
  BY <1>3, ForgetInhabited
<1>5. Inhabited(heap', live')
  BY <1>2, <1>4
<1> QED
  BY <1>2, <1>5 DEF IInv, Inhabited

(* A realloc, where the allocator has done its part.                       *)
LEMMA ReallocatedStep ==
  ASSUME IInv, created, NEW i \in DOMAIN live, NEW size \in Size, NEW new, Reallocated(i, size, new),
         NEW B, NEW C, Occupied(heap, B, C, live), NEW D, NEW E, NEW c, c = live[i].ptr - 1,
         new.ptr \in Nat, Resized(heap, B, C, new.heap, D, E, c, new.ptr - 1, size)
  PROVE  IInv'
<1> DEFINE r == [ptr |-> new.ptr, size |-> size]
           k == Write(new.heap, i, r, Units(live[i].size))
           f == With(live, i, r)
<1>1. live' = f /\ heap' = Forget(k, live') /\ created' = created
  BY DEF Reallocated
<1>2. Occupied(k, D, E, f)
  BY ResizedLodges
<1> HIDE DEF k, f
<1>3. Inhabited(Forget(k, f), f)
  BY <1>2, ForgetInhabited
<1>4. Inhabited(heap', live')
  BY <1>1, <1>3
<1> QED
  BY <1>1, <1>4 DEF IInv, Inhabited

(* The chunk of an allocation.                                             *)
LEMMA TenantAt ==
  ASSUME NEW h, NEW B, NEW C, NEW f, Occupied(h, B, C, f), NEW i \in DOMAIN f
  PROVE  LET c == f[i].ptr - 1
         IN  /\ World(h, B, C) /\ c \in Users(h, B, C) /\ c + 1 = f[i].ptr /\ f[i].ptr \in Nat
             /\ h.mem[c].jumbo <=> Home(c) \notin B
<1>1. World(h, B, C) /\ Houses(h, B, C, f[i], i)
  BY TenantFacts DEF Occupied
<1>2. f[i].ptr \in Nat /\ f[i].ptr - 1 \in Users(h, B, C) /\ f[i].ptr = f[i].ptr - 1 + 1
  BY <1>1, HousedIn
<1> QED
  BY <1>1, <1>2, UserJumbo

LEMMA ReallocStep ==
  ASSUME IInv, NEW i \in Id, NEW size \in Size, Realloc(i, size)
  PROVE  IInv'
<1> DEFINE new == BlockRealloc(heap, live[i].ptr, size)
<1>1. PICK B, C : Occupied(heap, B, C, live)
  BY DEF IInv, Inhabited
<1>2. created /\ i \in DOMAIN live /\ ~heap.mem[live[i].ptr - 1].jumbo
      /\ ReallocServiceable(heap, live[i].ptr, size) /\ Reallocated(i, size, new)
  BY DEF Realloc
<1>3. PICK p, c : p = live[i].ptr /\ c = p - 1
  OBVIOUS
<1>4. World(heap, B, C) /\ c \in Users(heap, B, C) /\ p \in Nat /\ Home(c) \in B
  BY <1>1, <1>2, <1>3, TenantAt
<1>5. ReallocServiceable(heap, p, size) /\ p - 1 = c
  BY <1>2, <1>3
<1>6. PICK D, E : /\ Resized(heap, B, C, BlockRealloc(heap, p, size).heap, D, E, c, BlockRealloc(heap, p, size).ptr - 1, size)
                  /\ BlockRealloc(heap, p, size).ptr \in Nat
  BY <1>4, <1>5, ReallocIs
<1>7. Resized(heap, B, C, new.heap, D, E, c, new.ptr - 1, size) /\ new.ptr \in Nat
  BY <1>3, <1>6
<1> HIDE DEF new
<1> QED
  BY <1>1, <1>2, <1>3, <1>7, ReallocatedStep

LEMMA ReallocOfJumboStep ==
  ASSUME IInv, NEW i \in Id, NEW size \in Size, ReallocOfJumbo(i, size)
  PROVE  IInv'
<1>1. PICK B, C : Occupied(heap, B, C, live)
  BY DEF IInv, Inhabited
<1>2. created /\ i \in DOMAIN live /\ heap.mem[live[i].ptr - 1].jumbo
  BY DEF ReallocOfJumbo
<1>3. PICK t \in FreeSlots(heap) \cup {SlotOf(live[i].ptr)} :
          Reallocated(i, size,
              [heap |-> ReallocJumbo(heap, live[i].ptr - 1, size, t), ptr |-> Base(t) + 2])
  BY DEF ReallocOfJumbo
<1>4. PICK c : c = live[i].ptr - 1
  OBVIOUS
<1>5. World(heap, B, C) /\ c \in Users(heap, B, C) /\ c + 1 = live[i].ptr /\ Home(c) \notin B
  BY <1>1, <1>2, <1>4, TenantAt
<1>6. t \in FreeSlots(heap) \cup {SlotOf(c + 1)}
  BY <1>3, <1>5
<1>7. Resized(heap, B, C, ReallocJumbo(heap, c, size, t), B, C, c, Base(t) + 1, size)
  BY <1>5, <1>6, ReallocJumboIs
<1>8. Base(t) \in Nat
  <2>1. heap.os \in SUBSET Slot
    BY <1>5, WorldFacts DEF Shaped
  <2>2. c \in Nat /\ Home(c) \in Blocks(heap) /\ c = Home(c) + 1 /\ Home(c) \in Block
    BY <1>5, UserFacts, WorldFacts
  <2>3. Home(Home(c) + 1) = Home(c) /\ Home(c) + 1 + 1 \in Home(c) .. Home(c) + SlotSize - 1
    BY <2>2, Sizes, HomeFacts
  <2>4. SlotOf(Home(c) + 1 + 1) = SlotOf(Home(c)) /\ SlotOf(Home(c)) \in Slot
    BY <2>2, <2>3, BlockFacts
  <2>5. SlotOf(c + 1) \in Slot
    BY <2>2, <2>4
  <2>6. t \in Slot
    BY <1>6, <2>5 DEF FreeSlots
  <2> QED
    BY <2>6, SlotFacts
<1> DEFINE new == [heap |-> ReallocJumbo(heap, c, size, t), ptr |-> Base(t) + 2]
<1>9. Reallocated(i, size, new) /\ new.ptr \in Nat /\ new.ptr - 1 = Base(t) + 1
      /\ new.heap = ReallocJumbo(heap, c, size, t)
  BY <1>3, <1>4, <1>8
<1> HIDE DEF new
<1>10. Resized(heap, B, C, new.heap, B, C, c, new.ptr - 1, size)
  BY <1>7, <1>9
<1> QED
  BY <1>1, <1>2, <1>4, <1>9, <1>10, ReallocatedStep

LEMMA FreeAllStep ==
  ASSUME IInv, FreeAll
  PROVE  IInv'
<1>1. PICK B, C : Occupied(heap, B, C, live)
  BY DEF IInv, Inhabited
<1>2. live' = << >> /\ heap' = Forget(FreeAllBlocks(heap), live') /\ created' = created /\ created
  BY DEF FreeAll
<1>3. World(heap, B, C)
  BY <1>1 DEF Occupied
<1>4. Occupied(Forget(FreeAllBlocks(heap), << >>), B, Starts(B), << >>)
  BY <1>3, FreeAllLodges
<1>5. Inhabited(heap', live')
  BY <1>2, <1>4 DEF Inhabited
<1> QED
  BY <1>2, <1>5 DEF IInv, Inhabited

LEMMA GcStep ==
  ASSUME IInv, Gc
  PROVE  IInv'
<1>1. PICK B, C : Occupied(heap, B, C, live)
  BY DEF IInv, Inhabited
<1>2. heap' = GcBlocks(heap) /\ live' = live /\ created' = created /\ created
  BY DEF Gc
<1>3. Inhabited(heap', live')
  BY <1>1, <1>2, GcLodges DEF Inhabited
<1> QED
  BY <1>2, <1>3 DEF IInv, Inhabited

LEMMA DestroyStep ==
  ASSUME IInv, Destroy
  PROVE  IInv'
<1> DEFINE g == Forget(FreeAllBlocks(heap), << >>)
<1>1. PICK B, C : Occupied(heap, B, C, live)
  BY DEF IInv, Inhabited
<1>2. live' = << >> /\ heap' = GcBlocks(Forget(FreeAllBlocks(heap), live')) /\ created' = FALSE
  BY DEF Destroy
<1>3. World(heap, B, C)
  BY <1>1 DEF Occupied
<1>4. Occupied(g, B, Starts(B), << >>) /\ Cleared(g, B)
  BY <1>3, FreeAllLodges
<1>5. heap' = GcBlocks(g)
  BY <1>2
<1> HIDE DEF g
<1>6. heap'.os = {}
  BY <1>4, <1>5, GcOfCleared
<1>7. Inhabited(heap', live')
  BY <1>2, <1>4, <1>5, GcLodges DEF Inhabited
<1> QED
  BY <1>2, <1>6, <1>7 DEF IInv, Inhabited

LEMMA CreateStep ==
  ASSUME IInv, Create
  PROVE  IInv'
<1> DEFINE g == [heap EXCEPT !.block_list = Null, !.master_head = Null, !.recycler_head = Null]
<1>1. ~created /\ heap.os = {} /\ live = << >> /\ Inhabited(heap, live)
  BY DEF IInv, Create
<1>2. heap' = g /\ created' = TRUE /\ live' = live
  BY DEF Create
<1>3. Shaped(heap)
  BY <1>1, OccupiedShaped
<1>4. g = [mem |-> heap.mem, block_list |-> 0, master_head |-> 0,
           recycler_head |-> 0, os |-> heap.os]
  <2> DEFINE k == [heap EXCEPT !.block_list = 0]
             k2 == [k EXCEPT !.master_head = 0]
  <2>1. k = [mem |-> heap.mem, block_list |-> 0, master_head |-> heap.master_head,
             recycler_head |-> heap.recycler_head, os |-> heap.os]
    BY <1>3 DEF Shaped
  <2>2. g = [k2 EXCEPT !.recycler_head = 0]
    BY DEF Null
  <2> HIDE DEF k
  <2>3. k2 = [mem |-> heap.mem, block_list |-> 0, master_head |-> 0,
              recycler_head |-> heap.recycler_head, os |-> heap.os]
    BY <2>1
  <2> HIDE DEF k2
  <2> QED
    BY <2>2, <2>3
<1> HIDE DEF g
<1>5. g.mem = heap.mem /\ g.os = {} /\ g.block_list = 0 /\ g.master_head = 0 /\ g.recycler_head = 0
  BY <1>1, <1>4
<1>6. Shaped(g)
  <2>1. heap.mem = [a \in Address |-> heap.mem[a]]
    BY <1>3 DEF Shaped
  <2>2. g.mem = [a \in Address |-> g.mem[a]]
    BY <1>5, <2>1
  <2>3. g = [mem |-> g.mem, block_list |-> g.block_list, master_head |-> g.master_head,
             recycler_head |-> g.recycler_head, os |-> g.os]
    BY <1>1, <1>4, <1>5
  <2> QED
    BY <1>5, <2>2, <2>3 DEF Shaped
<1>7. Occupied(g, {}, {}, << >>)
  BY <1>5, <1>6, EmptyWorld
<1>8. Inhabited(heap', live')
  BY <1>1, <1>2, <1>7 DEF Inhabited
<1> QED
  BY <1>2, <1>8 DEF IInv, Inhabited

LEMMA NextIInv ==
  ASSUME IInv, [Next]_vars
  PROVE  IInv'
<1>1. ASSUME NEW i \in Id, NEW size \in Size, Alloc(i, size) PROVE IInv'
  BY <1>1, AllocStep
<1>2. ASSUME NEW i \in Id, NEW size \in Size, Realloc(i, size) PROVE IInv'
  BY <1>2, ReallocStep
<1>3. ASSUME NEW i \in Id, NEW size \in Size, ReallocOfJumbo(i, size) PROVE IInv'
  BY <1>3, ReallocOfJumboStep
<1>4. ASSUME NEW i \in Id, Free(i) PROVE IInv'
  BY <1>4, FreedStep
<1>5. CASE FreeAll
  BY <1>5, FreeAllStep
<1>6. CASE Gc
  BY <1>6, GcStep
<1>7. CASE Destroy
  BY <1>7, DestroyStep
<1>8. CASE Create
  BY <1>8, CreateStep
<1>9. CASE UNCHANGED vars
  BY <1>9 DEF IInv, Inhabited, vars
<1> QED
  BY <1>1, <1>2, <1>3, <1>4, <1>5, <1>6, <1>7, <1>8, <1>9 DEF Next

(* wmem_block_alloc, _free, _realloc, _free_all, _gc and what the users of *)
(* the allocator write: the heap stays a world and the allocations its     *)
(* tenants.                                                                *)
THEOREM Invariance == Spec => []IInv
<1>1. Init => IInv
  BY InitIInv
<1>2. IInv /\ [Next]_vars => IInv'
  BY NextIInv
<1> QED
  BY <1>1, <1>2, PTL DEF Spec

-----------------------------------------------------------------------------
LEMMA HeadsTyped ==
  ASSUME NEW h, NEW B, NEW C, World(h, B, C)
  PROVE  /\ h.block_list \in Address \cup {Null}
         /\ h.master_head \in Address \cup {Null}
         /\ h.recycler_head \in Address \cup {Null}
<1>1. C \subseteq Address /\ Shaped(h)
  BY WorldFacts
<1>2. PICK m, r : Good(h, B, C, m, r, 0)
  BY DEF World, Sound
<1>3. h.master_head \in Address \cup {0} /\ h.recycler_head \in Address \cup {0}
  BY <1>1, <1>2, HeadIs
<1>4. PICK l : Listed(h, l)
  BY DEF World
<1>5. In(l) = Blocks(h) /\ h.block_list = At(l, 1) /\ Dll(h, l, 0)
  BY <1>4 DEF Listed
<1>6. At(l, 1) # 0 => At(l, 1) \in In(l)
  BY <1>5, FirstIs DEF Dll
<1>7. Blocks(h) \subseteq Address
  BY <1>1, WorldFacts, HomeFacts
<1> QED
  BY <1>3, <1>5, <1>6, <1>7 DEF Null

LEMMA TypeFollows == IInv => TypeOK
<1> SUFFICES ASSUME IInv PROVE TypeOK
  OBVIOUS
<1>1. PICK B, C : Occupied(heap, B, C, live)
  BY DEF IInv, Inhabited
<1>2. World(heap, B, C) /\ Tenants(heap, B, C, live)
  BY <1>1 DEF Occupied
<1>3. Shaped(heap)
  BY <1>2, WorldFacts
<1>4. heap.os \subseteq Slot /\ DOMAIN heap.mem = Address
  BY <1>3 DEF Shaped
<1>5. DOMAIN live \subseteq Id
  BY <1>2, TenantFacts
<1>6. ASSUME NEW i \in DOMAIN live PROVE live[i] \in [ptr : Address, size : Size]
  <2>1. Houses(heap, B, C, live[i], i)
    BY <1>2, TenantFacts
  <2>2. live[i].ptr \in Address /\ live[i].size \in Size
        /\ live[i] = [ptr |-> live[i].ptr, size |-> live[i].size]
    BY <1>2, <2>1, HousedIn
  <2> QED
    BY <2>2
<1>7. created \in BOOLEAN
  BY DEF IInv
<1> QED
  BY <1>2, <1>4, <1>5, <1>6, <1>7, HeadsTyped DEF TypeOK

LEMMA UserHome ==
  ASSUME NEW B, NEW C, World(heap, B, C), NEW c \in Users(heap, B, C), NEW size \in Size,
         Units(size) <= Span(heap, B, c)
  PROVE  heap.mem[c].used /\ (heap.mem[c].jumbo \/ DataLen(heap, c) >= size)
<1>1. heap.mem[c].used /\ (heap.mem[c].jumbo <=> Home(c) \notin B)
  BY UserJumbo
<1>2. CASE Home(c) \in B
  <2>1. PICK n : n = heap.mem[c].len - 1
    OBVIOUS
  <2>2. n = Span(heap, B, c) /\ n \in Nat
    BY <1>2, <2>1, UserFacts
  <2>3. Units(size) <= n /\ size \in Nat
    BY <2>2, SizeFacts
  <2>4. size <= n * AlignAmount
    BY <2>2, <2>3, UnitsFacts
  <2>5. DataLen(heap, c) = n * AlignAmount
    BY <2>1 DEF DataLen
  <2>6. n * AlignAmount \in Nat
    BY <2>2, Sizes
  <2> QED
    BY <1>1, <2>3, <2>4, <2>5, <2>6
<1> QED
  BY <1>1, <1>2

LEMMA IntactFollows == IInv => LiveIntact
<1> SUFFICES ASSUME IInv PROVE LiveIntact
  OBVIOUS
<1>1. PICK B, C : Occupied(heap, B, C, live)
  BY DEF IInv, Inhabited
<1>2. World(heap, B, C) /\ Tenants(heap, B, C, live)
  BY <1>1 DEF Occupied
<1>3. ASSUME NEW i \in DOMAIN live
      PROVE  LET c == live[i].ptr - 1
             IN  /\ heap.mem[c].used
                 /\ heap.mem[c].jumbo \/ DataLen(heap, c) >= live[i].size
                 /\ \A a \in CellsOf(live[i]) : heap.mem[a] = Data(i)
  <2>1. Houses(heap, B, C, live[i], i)
    BY <1>2, TenantFacts
  <2>2. PICK c : c = live[i].ptr - 1
    OBVIOUS
  <2>3. /\ live[i].size \in Size /\ c \in Users(heap, B, C) /\ Units(live[i].size) <= Span(heap, B, c)
        /\ \A a \in CellsOf(live[i]) : heap.mem[a] = Data(i)
    BY <1>2, <2>1, <2>2, HousedIn
  <2>4. heap.mem[c].used /\ (heap.mem[c].jumbo \/ DataLen(heap, c) >= live[i].size)
    BY <1>2, <2>3, UserHome
  <2> QED
    BY <2>2, <2>3, <2>4
<1> QED
  BY <1>3 DEF LiveIntact

LEMMA NoLeakFollows == IInv => NothingLeaks
<1> SUFFICES ASSUME IInv PROVE NothingLeaks
  OBVIOUS
<1>1. PICK B, C : Occupied(heap, B, C, live)
  BY DEF IInv, Inhabited
<1>2. World(heap, B, C) /\ Tenants(heap, B, C, live)
  BY <1>1 DEF Occupied
<1>3. Chunks(heap) = C /\ \A b \in Blocks(heap) : IsJumbo(heap, b) <=> b \notin B
  BY <1>2, ChunksAre
<1>4. {c \in Chunks(heap) : heap.mem[c].used} \cup {b + 1 : b \in {b \in Blocks(heap) : IsJumbo(heap, b)}}
      = Users(heap, B, C)
  BY <1>3 DEF Users
<1>5. ASSUME NEW c \in Users(heap, B, C) PROVE c \in {live[i].ptr - 1 : i \in DOMAIN live}
  <2>1. PICK i \in DOMAIN live : live[i].ptr = c + 1
    BY <1>2, TenantFacts
  <2>2. PICK p : p = live[i].ptr
    OBVIOUS
  <2>3. c \in Nat
    BY <1>2, UserFacts
  <2>4. p - 1 = c
    BY <2>1, <2>2, <2>3
  <2> QED
    BY <2>2, <2>4
<1>6. ASSUME NEW i \in DOMAIN live PROVE live[i].ptr - 1 \in Users(heap, B, C)
  <2>1. Houses(heap, B, C, live[i], i)
    BY <1>2, TenantFacts
  <2> QED
    BY <1>2, <2>1, HousedIn
<1>7. Users(heap, B, C) = {live[i].ptr - 1 : i \in DOMAIN live}
  BY <1>5, <1>6
<1> QED
  BY <1>4, <1>7 DEF NothingLeaks

LEMMA WorldFollows == IInv => \E B, C : World(heap, B, C)
BY DEF IInv, Inhabited, Occupied

(* A gc returns the blocks that have one chunk, not in use, and no other.  *)
LEMMA GcKeepsUsed ==
  ASSUME IInv
  PROVE  Blocks(GcBlocks(heap)) = {b \in Blocks(heap) :
             \/ IsJumbo(heap, b)
             \/ \E c \in ChunksOf(heap, b) : heap.mem[c].used}
<1>1. PICK B, C : World(heap, B, C)
  BY WorldFollows
<1>2. Blocks(GcBlocks(heap)) = Blocks(heap) \ Gone(heap, B, {})
  BY <1>1, GcIs
<1>3. /\ Tiled(heap.mem, C, B, 0) /\ Spaced(heap, C, 0)
      /\ \A b \in Blocks(heap) : IsJumbo(heap, b) <=> b \notin B
      /\ \A b \in B : ChunksOf(heap, b) = {c \in C : Home(c) = b}
  BY <1>1, WorldFacts, ChunksAre
<1>4. ASSUME NEW b \in B, heap.mem[b + 1].used
      PROVE  \E c \in ChunksOf(heap, b) : heap.mem[c].used
  <2>1. b + 1 \in C /\ Home(b + 1) = b
    BY <1>3, HomeFacts DEF Tiled, Inside
  <2> QED
    BY <1>3, <1>4, <2>1
<1>5. ASSUME NEW b \in B, ~heap.mem[b + 1].used, ~heap.mem[b + 1].last
      PROVE  \E c \in ChunksOf(heap, b) : heap.mem[c].used
  <2> DEFINE d == b + 1
             e == End(heap.mem, d)
  <2>1. d \in C /\ Home(d) = b
    BY <1>3, HomeFacts DEF Tiled, Inside
  <2> HIDE DEF d
  <2>2. e \in C /\ Home(e) = b
    BY <1>3, <1>5, <2>1 DEF Tiled, Rightward, d
  <2>3. d # 0 /\ e # 0
    BY <1>3, <2>1, <2>2, ChunksNonZero DEF NonZero
  <2>4. heap.mem[e].used
    BY <1>3, <1>5, <2>1, <2>3 DEF Spaced, d
  <2> QED
    BY <1>3, <2>2, <2>4
<1>6. ASSUME NEW b \in B, ~heap.mem[b + 1].used, heap.mem[b + 1].last
      PROVE  \A c \in ChunksOf(heap, b) : ~heap.mem[c].used
  <2>1. {c \in C : Home(c) # b} = C \ {b + 1}
    BY <1>3, <1>6, OnlyChunk
  <2>2. \A c \in ChunksOf(heap, b) : c = b + 1
    BY <1>3, <2>1
  <2> QED
    BY <1>6, <2>2
<1>7. B \subseteq Blocks(heap)
  BY <1>1 DEF World
<1> QED
  BY <1>2, <1>3, <1>4, <1>5, <1>6, <1>7 DEF Gone, Idle

(* The types of the allocator's state: the blocks are slots of the OS, the *)
(* three list heads point into the memory or are null, and every           *)
(* allocation handed out points into the memory.                           *)
THEOREM TypeCorrect == Spec => []TypeOK
<1>1. IInv => TypeOK
  BY TypeFollows
<1> QED
  BY <1>1, Invariance, PTL

(* wmem_block_add_to_block_list, wmem_block_remove_from_block_list and the *)
(* jumbo functions: the block list holds exactly the blocks the OS gave    *)
(* out and is linked both ways (wmem_block_verify).                        *)
THEOREM BlockListStaysExact == Spec => []BlockListExact
<1>1. IInv => BlockListExact
  BY WorldFollows, WorldBlockList
<1> QED
  BY <1>1, Invariance, PTL

(* The splits, the merge on free, the realloc in place, free_all and gc:   *)
(* after any of them the chunks of a block tile it from its first cell to  *)
(* its last, each knows the length of the one before, and no free chunk    *)
(* follows another: the induction the comment in the code appeals to.      *)
THEOREM ChunksStayExact == Spec => []ChunksExact
<1>1. IInv => ChunksExact
  BY WorldFollows, WorldTiled, WorldSpaced DEF ChunksExact
<1> QED
  BY <1>1, Invariance, PTL

(* wmem_block_push_master, _pop_master, _add_to_recycler,                  *)
(* _remove_from_recycler and _cycle_recycler, as the other operations use  *)
(* them: every free chunk with room for a free header is on one of the two *)
(* lists, once, nothing else is, and both are linked both ways.            *)
THEOREM FreeListsStayExact == Spec => []FreeListsExact
<1>1. IInv => FreeListsExact
  BY WorldFollows, WorldFreeLists
<1> QED
  BY <1>1, Invariance, PTL

(* wmem_block_alloc pops the head of the master list when it is too small  *)
(* and takes the next chunk unseen: every chunk there but the head serves  *)
(* any request that is not jumbo.                                          *)
THEOREM MasterAlwaysServes == Spec => []MasterServesAny
<1>1. IInv => MasterServesAny
  BY WorldFollows, WorldFreeLists
<1> QED
  BY <1>1, Invariance, PTL

(* wmem_block_alloc, _free, _realloc, _free_all and _gc, and the jumbo     *)
(* chunks: no operation writes a header, a free link or a copy over what   *)
(* the user of a live allocation wrote, each sits in a chunk in use that   *)
(* has room for it, and no chunk is in use for nobody.                     *)
THEOREM AllocationsStayExact == Spec => []AllocationsExact
<1>1. IInv => AllocationsExact
  BY IntactFollows, NoLeakFollows DEF AllocationsExact
<1> QED
  BY <1>1, Invariance, PTL

-----------------------------------------------------------------------------
(***************************************************************************)
(* The recycler settles. L[x] is the length of the chunk x, r the recycler *)
(* before the first round, and q after k of them: the head is no shorter   *)
(* than the first k + 1 chunks of r, and the rest of r waits in its order. *)
(***************************************************************************)
Settled(L, n, r, q, k) ==
  /\ \A j \in 1 .. n : j <= k + 1 => L[r[j]] <= L[q[1]]
  /\ \A j \in 2 .. n : j + k <= n => q[j] = r[j + k]

Turned(L, n, q, p) ==
  /\ p[1] = IF L[q[Nxt(n, 1)]] < L[q[1]] THEN q[1] ELSE q[Nxt(n, 1)]
  /\ \A j \in 2 .. n - 1 : p[j] = q[j + 1]

LEMMA SettledFirst ==
  ASSUME NEW L, NEW n \in Nat, NEW r, \A j \in 1 .. n : L[r[j]] \in Nat
  PROVE  Settled(L, n, r, r, 0)
<1>1. \A j \in 1 .. n : j <= 0 + 1 => L[r[j]] <= L[r[1]]
  <2> TAKE j \in 1 .. n
  <2> HAVE j <= 0 + 1
  <2>1. j = 1 /\ L[r[j]] \in Nat
    OBVIOUS
  <2> QED
    BY <2>1
<1>2. \A j \in 2 .. n : j + 0 <= n => r[j] = r[j + 0]
  <2> TAKE j \in 2 .. n
  <2>1. j + 0 = j
    OBVIOUS
  <2> QED
    BY <2>1
<1> QED
  BY <1>1, <1>2 DEF Settled

LEMMA SettledOn ==
  ASSUME NEW L, NEW n \in Nat, n >= 1, NEW r, NEW q, NEW p, NEW k \in Nat,
         \A j \in 1 .. n : L[r[j]] \in Nat, \A j \in 1 .. n : L[q[j]] \in Nat,
         Settled(L, n, r, q, k), Turned(L, n, q, p)
  PROVE  Settled(L, n, r, p, k + 1)
<1>1. /\ 1 \in 1 .. n /\ Nxt(n, 1) \in 1 .. n /\ (n >= 2 => Nxt(n, 1) = 2 /\ 2 \in 2 .. n)
  BY DEF Nxt
<1>2. L[q[1]] \in Nat /\ L[q[Nxt(n, 1)]] \in Nat
  BY <1>1
<1>3. p[1] \in {q[1], q[Nxt(n, 1)]} /\ L[p[1]] >= L[q[1]] /\ L[p[1]] >= L[q[Nxt(n, 1)]] /\ L[p[1]] \in Nat
  <2>1. CASE L[q[Nxt(n, 1)]] < L[q[1]]
    <3>1. p[1] = q[1]
      BY <2>1 DEF Turned
    <3> QED
      BY <1>2, <2>1, <3>1
  <2>2. CASE ~(L[q[Nxt(n, 1)]] < L[q[1]])
    <3>1. p[1] = q[Nxt(n, 1)]
      BY <2>2 DEF Turned
    <3> QED
      BY <1>2, <2>2, <3>1
  <2> QED
    BY <2>1, <2>2
<1>4. ASSUME NEW j \in 1 .. n, j <= k + 1 + 1 PROVE L[r[j]] <= L[p[1]]
  <2>1. CASE j <= k + 1
    <3>1. L[r[j]] <= L[q[1]] /\ L[r[j]] \in Nat
      BY <2>1 DEF Settled
    <3> QED
      BY <1>2, <1>3, <3>1
  <2>2. CASE j = 2 + k
    <3>1. 2 \in 2 .. n /\ 2 + k <= n /\ n >= 2
      BY <2>2
    <3>2. q[2] = r[j] /\ Nxt(n, 1) = 2
      BY <1>1, <2>2, <3>1 DEF Settled
    <3> QED
      BY <1>3, <3>2
  <2>3. j <= k + 1 \/ j = 2 + k
    BY <1>4
  <2> QED
    BY <2>1, <2>2, <2>3
<1>5. ASSUME NEW j \in 2 .. n, j + (k + 1) <= n PROVE p[j] = r[j + (k + 1)]
  <2>1. j \in 2 .. n - 1 /\ j + 1 \in 2 .. n /\ j + 1 + k <= n /\ j + (k + 1) = j + 1 + k
    BY <1>5
  <2>2. p[j] = q[j + 1]
    BY <2>1 DEF Turned
  <2>3. q[j + 1] = r[j + 1 + k]
    BY <2>1 DEF Settled
  <2> QED
    BY <2>1, <2>2, <2>3
<1> QED
  BY <1>4, <1>5 DEF Settled

(* The largest chunk comes to the head, or is there.                       *)
Largest(L, n, q) == \A j \in 1 .. n : L[q[j]] <= L[q[1]]

LEMMA LargestStays ==
  ASSUME NEW L, NEW n \in Nat, n >= 1, NEW q, NEW p,
         \A j \in 1 .. n : L[q[j]] \in Nat,
         \A j \in 1 .. n : \E i \in 1 .. n : p[j] = q[i],
         Largest(L, n, q), Turned(L, n, q, p)
  PROVE  Largest(L, n, p)
<1>1. 1 \in 1 .. n /\ Nxt(n, 1) \in 1 .. n
  BY DEF Nxt
<1>2. L[q[1]] \in Nat /\ L[q[Nxt(n, 1)]] \in Nat /\ L[q[Nxt(n, 1)]] <= L[q[1]]
  BY <1>1 DEF Largest
<1>3. L[p[1]] = L[q[1]]
  <2>1. CASE L[q[Nxt(n, 1)]] < L[q[1]]
    BY <2>1 DEF Turned
  <2>2. CASE ~(L[q[Nxt(n, 1)]] < L[q[1]])
    <3>1. p[1] = q[Nxt(n, 1)]
      BY <2>2 DEF Turned
    <3>2. L[q[Nxt(n, 1)]] = L[q[1]]
      BY <1>2, <2>2
    <3> QED
      BY <3>1, <3>2
  <2> QED
    BY <2>1, <2>2
<1> SUFFICES ASSUME NEW j \in 1 .. n PROVE L[p[j]] <= L[p[1]]
  BY DEF Largest
<1>4. PICK i \in 1 .. n : p[j] = q[i]
  OBVIOUS
<1> QED
  BY <1>3, <1>4 DEF Largest

(* The rounds.                                                             *)
Cycling(g, h, n) ==
  /\ g = [k \in 0 .. n |-> g[k]] /\ g[0] = h
  /\ \A k \in 1 .. n : g[k] = CycleRecycler(g[k - 1])

LEMMA CyclingThere ==
  ASSUME NEW h, NEW n \in Nat
  PROVE  \E g : Cycling(g, h, n)
<1> DEFINE None == {k \in Nat : ~\E g : Cycling(g, h, k)}
<1>1. 0 \notin None
  <2> DEFINE g == [j \in 0 .. 0 |-> h]
  <2>1. Cycling(g, h, 0)
    BY DEF Cycling
  <2> QED
    BY <2>1
<1>2. ASSUME NEW k \in Nat, k \notin None PROVE k + 1 \notin None
  <2>1. PICK g : Cycling(g, h, k)
    BY <1>2
  <2>6. g[0] = h /\ \A j \in 1 .. k : g[j] = CycleRecycler(g[j - 1])
    BY <2>1 DEF Cycling
  <2>7. 0 \in 0 .. k /\ \A j \in 1 .. k : j \in 0 .. k /\ j - 1 \in 0 .. k
    BY <1>2
  <2>2. /\ g[0] = h /\ 0 \in 0 .. k
        /\ \A j \in 1 .. k : g[j] = CycleRecycler(g[j - 1]) /\ j \in 0 .. k /\ j - 1 \in 0 .. k
    BY <2>6, <2>7
  <2> DEFINE f == [j \in 0 .. k + 1 |-> IF j = k + 1 THEN CycleRecycler(g[k]) ELSE g[j]]
  <2>3. f = [j \in 0 .. k + 1 |-> f[j]] /\ f[k + 1] = CycleRecycler(g[k])
        /\ \A j \in 0 .. k : f[j] = g[j]
    BY <1>2
  <2> HIDE DEF f
  <2>4. \A j \in 1 .. k + 1 : f[j] = CycleRecycler(f[j - 1])
    <3> TAKE j \in 1 .. k + 1
    <3>1. CASE j = k + 1
      <4>1. k \in 0 .. k /\ j - 1 = k
        BY <1>2, <3>1
      <4> QED
        BY <2>3, <3>1, <4>1
    <3>2. CASE j \in 1 .. k
      BY <2>2, <2>3, <3>2
    <3> QED
      BY <1>2, <3>1, <3>2
  <2>5. Cycling(f, h, k + 1)
    BY <2>2, <2>3, <2>4 DEF Cycling
  <2> QED
    BY <2>5
<1>3. None = {}
  <2> SUFFICES ASSUME None # {} PROVE FALSE
    OBVIOUS
  <2>1. PICK k \in None : \A j \in None : k <= j
    <3>1. None \in SUBSET Nat
      OBVIOUS
    <3> HIDE DEF None
    <3> QED
      BY <3>1, Least
  <2>2. k \in Nat /\ k # 0
    BY <1>1, <2>1
  <2>3. k - 1 \in Nat /\ ~(k <= k - 1) /\ k - 1 + 1 = k
    BY <2>2
  <2>4. k - 1 \notin None
    BY <2>1, <2>3
  <2> HIDE DEF None
  <2> QED
    BY <1>2, <2>1, <2>3, <2>4
<1> QED
  BY <1>3

(* After each round: the lists are as good as before it, the recycler     *)
(* holds the same chunks, none of which changed its length.                *)
Cycles(h, B, C, m, r, g, q) ==
  /\ Good(g, B, C, m, q, 0) /\ In(q) = In(r) /\ Len(q) = Len(r)
  /\ KeepsAll(h, g, C)

LEMMA RecyclerLengths ==
  ASSUME NEW h, NEW B, NEW C, NEW m, NEW r, Good(h, B, C, m, r, 0), NEW L, L = [x \in In(r) |-> h.mem[x].len],
         NEW g, NEW q, Cycles(h, B, C, m, r, g, q)
  PROVE  /\ \A j \in 1 .. Len(r) : L[r[j]] \in Nat /\ L[q[j]] \in Nat /\ q[j] \in In(r) /\ r[j] \in In(r)
         /\ \A x \in In(r) : g.mem[x].len = L[x]
         /\ Distinct(r) /\ Distinct(q) /\ Recycler(g) = In(r) /\ g.recycler_head = At(q, 1)
<1>1. Distinct(r) /\ Distinct(q) /\ Recycler(g) = In(r) /\ g.recycler_head = At(q, 1) /\ In(q) = In(r)
      /\ Len(q) = Len(r)
  BY RecyclerIs, ListsFacts DEF Cycles, Good
<1>2. \A y \in In(r) : y \in C /\ h.mem[y].len \in Nat
  BY FiledFacts DEF Filed
<1>3. \A x \in In(r) : L[x] = h.mem[x].len
  OBVIOUS
<1>4. \A x \in In(r) : g.mem[x].len = L[x]
  BY <1>2, <1>3 DEF Cycles, KeepsAll
<1>5. \A j \in 1 .. Len(r) : q[j] \in In(r) /\ r[j] \in In(r)
  BY <1>1 DEF In
<1> QED
  BY <1>1, <1>2, <1>3, <1>4, <1>5

LEMMA CyclesOn ==
  ASSUME NEW h, NEW B, NEW C, NEW m, NEW r, Good(h, B, C, m, r, 0), NEW L, L = [x \in In(r) |-> h.mem[x].len],
         NEW g, NEW q, Cycles(h, B, C, m, r, g, q), Len(r) >= 1
  PROVE  \E p : Cycles(h, B, C, m, r, CycleRecycler(g), p) /\ Turned(L, Len(r), q, p)
<1> DEFINE k == CycleRecycler(g)
<1>1. Good(g, B, C, m, q, 0) /\ In(q) = In(r) /\ Len(q) = Len(r) /\ KeepsAll(h, g, C)
  BY DEF Cycles
<1>2. CycledTo(g, k, B, C, m, q, 0) /\ KeepsAll(g, k, C)
  BY <1>1, CycleGood
<1> HIDE DEF k
<1>3. PICK p : Good(k, B, C, m, p, 0) /\ In(p) = In(q) /\ Cycled(g, q, p)
  BY <1>2 DEF CycledTo
<1>4. KeepsAll(h, k, C)
  BY <1>1, <1>2 DEF KeepsAll
<1>5. Len(p) = Len(q)
  BY <1>3 DEF Cycled
<1>6. Cycles(h, B, C, m, r, k, p)
  BY <1>1, <1>3, <1>4, <1>5 DEF Cycles
<1>7. Turned(L, Len(r), q, p)
  <2>1. \A x \in In(r) : g.mem[x].len = L[x]
    BY RecyclerLengths
  <2>2. Distinct(r) /\ \A j \in 1 .. Len(r) : q[j] \in In(r)
    BY RecyclerLengths
  <2>3. Len(r) \in Nat
    BY <2>2, Members
  <2>4. 1 \in 1 .. Len(r) /\ Nxt(Len(r), 1) \in 1 .. Len(r)
    <3>1. PICK n \in Nat : n = Len(r) /\ n >= 1
      BY <2>3
    <3>2. 1 \in 1 .. n /\ Nxt(n, 1) \in 1 .. n
      BY <3>1 DEF Nxt
    <3> QED
      BY <3>1, <3>2
  <2>5. p[1] = IF g.mem[q[Nxt(Len(r), 1)]].len < g.mem[q[1]].len THEN q[1] ELSE q[Nxt(Len(r), 1)]
    BY <1>1, <1>3 DEF Cycled
  <2>6. \A j \in 2 .. Len(r) - 1 : p[j] = q[j + 1]
    BY <1>1, <1>3 DEF Cycled
  <2>7. g.mem[q[1]].len = L[q[1]] /\ g.mem[q[Nxt(Len(r), 1)]].len = L[q[Nxt(Len(r), 1)]]
    BY <2>1, <2>2, <2>4
  <2> QED
    BY <2>5, <2>6, <2>7 DEF Turned
<1> QED
  BY <1>6, <1>7 DEF k

(* What largest says of a state, in terms of its recycler.                 *)
Settles(g) == \A c \in Recycler(g) : g.mem[c].len <= g.mem[g.recycler_head].len

LEMMA SettlesIs ==
  ASSUME NEW h, NEW B, NEW C, NEW m, NEW r, Good(h, B, C, m, r, 0), NEW L, L = [x \in In(r) |-> h.mem[x].len],
         NEW g, NEW q, Cycles(h, B, C, m, r, g, q), Len(r) >= 1
  PROVE  Settles(g) <=> Largest(L, Len(r), q)
<1>1. /\ \A x \in In(r) : g.mem[x].len = L[x]
      /\ Recycler(g) = In(r) /\ g.recycler_head = At(q, 1) /\ Distinct(q)
      /\ \A j \in 1 .. Len(r) : q[j] \in In(r)
  BY RecyclerLengths
<1>2. In(q) = In(r) /\ Len(q) = Len(r)
  BY DEF Cycles
<1>3. g.recycler_head = q[1] /\ q[1] \in In(r)
  BY <1>1, <1>2, FirstIs
<1>4. \A x \in In(r) : \E j \in 1 .. Len(r) : q[j] = x
  BY <1>1, <1>2, Members
<1>5. ASSUME Settles(g), NEW j \in 1 .. Len(r) PROVE L[q[j]] <= L[q[1]]
  <2>1. q[j] \in In(r) /\ g.mem[q[j]].len <= g.mem[q[1]].len
    BY <1>1, <1>3, <1>5 DEF Settles
  <2> QED
    BY <1>1, <1>3, <2>1
<1>6. ASSUME Largest(L, Len(r), q), NEW c \in In(r) PROVE g.mem[c].len <= g.mem[q[1]].len
  <2>1. PICK j \in 1 .. Len(r) : q[j] = c
    BY <1>4
  <2>2. L[q[j]] <= L[q[1]]
    BY <1>6 DEF Largest
  <2> QED
    BY <1>1, <1>3, <2>1, <2>2
<1> QED
  BY <1>1, <1>3, <1>5, <1>6 DEF Settles, Largest

LEMMA RecyclerCount ==
  ASSUME NEW r, Distinct(r)
  PROVE  Cardinality(In(r)) = Len(r) /\ Len(r) \in Nat
<1> DEFINE n == Len(r)
           f == [j \in 1 .. n |-> r[j]]
<1>1. n \in Nat /\ \A j \in 1 .. n : r[j] \in In(r)
  BY Members
<1>2. \A j, k \in 1 .. n : r[j] = r[k] => j = k
  BY Members
<1>3. \A x \in In(r) : \E j \in 1 .. n : r[j] = x
  BY Members
<1>4. IsFiniteSet(1 .. n) /\ Cardinality(1 .. n) = n
  <2> HIDE DEF n
  <2>1. 1 \in Int /\ n \in Int /\ (IF 1 > n THEN 0 ELSE n - 1 + 1) = n
    BY <1>1
  <2> QED
    BY <2>1, FS_Interval
<1>5. f \in [1 .. n -> In(r)] /\ (\A j, k \in 1 .. n : f[j] = f[k] => j = k)
      /\ \A x \in In(r) : \E j \in 1 .. n : f[j] = x
  BY <1>1, <1>2, <1>3
<1> HIDE DEF f, n
<1>6. f \in Surjection(1 .. n, In(r)) /\ f \in Injection(1 .. n, In(r))
  BY <1>5 DEF Surjection, Injection, IsInjective
<1>7. Cardinality(In(r)) = Cardinality(1 .. n)
  BY <1>4, <1>6, FS_Surjection
<1> QED
  BY <1>1, <1>4, <1>7 DEF n

SettlesWithin(h, n) ==
  LET after[k \in 0 .. n + 1] == IF k = 0 THEN h ELSE CycleRecycler(after[k - 1])
  IN  n > 0 => /\ Settles(after[n])
               /\ \A k \in 0 .. n : Settles(after[k]) => Settles(after[k + 1])

LEMMA SettlingIs == SettlesWithin(heap, Cardinality(Recycler(heap))) => RecyclerSettles
BY Zenon DEF SettlesWithin, RecyclerSettles, Settles

LEMMA CyclingRuns ==
  ASSUME NEW h, NEW n \in Nat
  PROVE  \E g : Cycling(g, h, n + 1) /\ SettlesWithin(h, n) =
                  (n > 0 => /\ Settles(g[n])
                            /\ \A k \in 0 .. n : Settles(g[k]) => Settles(g[k + 1]))
<1> DEFINE P(g) == g = [k \in 0 .. n + 1 |-> IF k = 0 THEN h ELSE CycleRecycler(g[k - 1])]
           after == CHOOSE g : P(g)
<1>1. n + 1 \in Nat
  OBVIOUS
<1>2. \E g : P(g)
  <2>1. PICK g : Cycling(g, h, n + 1)
    BY <1>1, CyclingThere
  <2>2. g = [k \in 0 .. n + 1 |-> g[k]] /\ g[0] = h
        /\ \A k \in 1 .. n + 1 : g[k] = CycleRecycler(g[k - 1])
    BY <2>1 DEF Cycling
  <2>3. \A k \in 0 .. n + 1 : k = 0 \/ k \in 1 .. n + 1
    BY <1>1
  <2>4. P(g)
    BY <2>2, <2>3
  <2> HIDE DEF P
  <2> QED
    BY <2>4
<1>3. P(after)
  <2> HIDE DEF P
  <2> QED
    BY <1>2, Zenon
<1>4. SettlesWithin(h, n) = (n > 0 => /\ Settles(after[n])
                                      /\ \A k \in 0 .. n : Settles(after[k]) => Settles(after[k + 1]))
  BY Zenon DEF SettlesWithin
<1> HIDE DEF after
<1>5. \A k \in 0 .. n + 1 : after[k] = IF k = 0 THEN h ELSE CycleRecycler(after[k - 1])
  BY <1>3, Zenon
<1>6. 0 \in 0 .. n + 1 /\ \A k \in 1 .. n + 1 : k \in 0 .. n + 1 /\ k # 0
  BY <1>1
<1>7. after = [k \in 0 .. n + 1 |-> after[k]]
  BY <1>3
<1> HIDE DEF P
<1>8. Cycling(after, h, n + 1)
  BY <1>5, <1>6, <1>7 DEF Cycling
<1> QED
  BY <1>4, <1>8

(* What holds after k rounds.                                              *)
After(h, B, C, m, r, L, g, k) ==
  \E q : Cycles(h, B, C, m, r, g, q) /\ Settled(L, Len(r), r, q, k)

LEMMA AllAfter ==
  ASSUME NEW h, NEW B, NEW C, NEW m, NEW r, Good(h, B, C, m, r, 0), NEW L, L = [x \in In(r) |-> h.mem[x].len],
         Len(r) >= 1, NEW n \in Nat, NEW g, Cycling(g, h, n)
  PROVE  \A k \in 0 .. n : After(h, B, C, m, r, L, g[k], k)
<1> DEFINE None == {k \in 0 .. n : ~After(h, B, C, m, r, L, g[k], k)}
<1>1. g[0] = h /\ \A k \in 1 .. n : g[k] = CycleRecycler(g[k - 1])
  BY DEF Cycling
<1>2. Cycles(h, B, C, m, r, h, r)
  BY DEF Cycles, KeepsAll
<1>3. Len(r) \in Nat /\ \A j \in 1 .. Len(r) : L[r[j]] \in Nat
  <2>1. Distinct(r) /\ \A j \in 1 .. Len(r) : L[r[j]] \in Nat
    BY <1>2, RecyclerLengths
  <2> QED
    BY <2>1, Members
<1>4. 0 \notin None
  <2>1. Settled(L, Len(r), r, r, 0)
    BY <1>3, SettledFirst
  <2>2. After(h, B, C, m, r, L, h, 0)
    BY <1>2, <2>1 DEF After
  <2> QED
    BY <1>1, <2>2
<1>5. ASSUME NEW k \in 1 .. n, k - 1 \notin None PROVE k \notin None
  <2>1. PICK i \in 0 .. n : i = k - 1 /\ i + 1 = k /\ i \in Nat
    OBVIOUS
  <2>2. After(h, B, C, m, r, L, g[i], i)
    BY <1>5, <2>1
  <2>3. PICK q : Cycles(h, B, C, m, r, g[i], q) /\ Settled(L, Len(r), r, q, i)
    BY <2>2 DEF After
  <2>4. PICK p : Cycles(h, B, C, m, r, CycleRecycler(g[i]), p) /\ Turned(L, Len(r), q, p)
    BY <2>3, CyclesOn
  <2>5. \A j \in 1 .. Len(r) : L[q[j]] \in Nat
    BY <2>3, RecyclerLengths
  <2>6. Settled(L, Len(r), r, p, i + 1)
    BY <1>3, <2>1, <2>3, <2>4, <2>5, SettledOn
  <2>7. g[k] = CycleRecycler(g[i])
    BY <1>1, <2>1
  <2>8. After(h, B, C, m, r, L, g[k], k)
    BY <2>1, <2>4, <2>6, <2>7 DEF After
  <2> QED
    BY <2>8
<1>6. None = {}
  <2> SUFFICES ASSUME None # {} PROVE FALSE
    OBVIOUS
  <2>1. PICK k \in None : \A j \in None : k <= j
    <3>1. None \in SUBSET Nat
      OBVIOUS
    <3> HIDE DEF None
    <3> QED
      BY <3>1, Least
  <2>2. k \in 0 .. n /\ k # 0
    BY <1>4, <2>1
  <2>3. k \in 1 .. n /\ ~(k <= k - 1)
    BY <2>2
  <2>4. k - 1 \notin None
    BY <2>1, <2>3
  <2> HIDE DEF None
  <2> QED
    BY <1>5, <2>1, <2>3, <2>4
<1> QED
  BY <1>6

(* The two claims of the comment, of an arbitrary round.                   *)
LEMMA HeadStays ==
  ASSUME NEW h, NEW B, NEW C, NEW m, NEW r, Good(h, B, C, m, r, 0), NEW L, L = [x \in In(r) |-> h.mem[x].len],
         Len(r) >= 1, NEW g, NEW k, After(h, B, C, m, r, L, g, k), Settles(g)
  PROVE  Settles(CycleRecycler(g))
<1>1. PICK q : Cycles(h, B, C, m, r, g, q)
  BY DEF After
<1>2. Largest(L, Len(r), q)
  BY <1>1, SettlesIs
<1>3. PICK p : Cycles(h, B, C, m, r, CycleRecycler(g), p) /\ Turned(L, Len(r), q, p)
  BY <1>1, CyclesOn
<1>4. Distinct(q) /\ Distinct(r) /\ (\A j \in 1 .. Len(r) : L[q[j]] \in Nat)
      /\ \A j \in 1 .. Len(r) : p[j] \in In(r)
  BY <1>1, <1>3, RecyclerLengths
<1>5. In(q) = In(r) /\ Len(q) = Len(r)
  BY <1>1 DEF Cycles
<1>6. \A j \in 1 .. Len(r) : \E i \in 1 .. Len(r) : p[j] = q[i]
  BY <1>4, <1>5, Members
<1>7. Len(r) \in Nat
  BY <1>4, Members
<1>8. Largest(L, Len(r), p)
  BY <1>2, <1>3, <1>4, <1>6, <1>7, LargestStays
<1> QED
  BY <1>3, <1>8, SettlesIs

LEMMA HeadComes ==
  ASSUME NEW h, NEW B, NEW C, NEW m, NEW r, Good(h, B, C, m, r, 0), NEW L, L = [x \in In(r) |-> h.mem[x].len],
         Len(r) >= 1, NEW g, After(h, B, C, m, r, L, g, Len(r))
  PROVE  Settles(g)
<1>1. PICK q : Cycles(h, B, C, m, r, g, q) /\ Settled(L, Len(r), r, q, Len(r))
  BY DEF After
<1>2. Distinct(q) /\ Distinct(r) /\ \A j \in 1 .. Len(r) : q[j] \in In(r)
  BY <1>1, RecyclerLengths
<1>3. Len(r) \in Nat
  BY <1>2, Members
<1>4. ASSUME NEW j \in 1 .. Len(r) PROVE L[q[j]] <= L[q[1]]
  <2>1. PICK i \in 1 .. Len(r) : r[i] = q[j]
    BY <1>2, Members
  <2>2. i <= Len(r) + 1
    BY <1>3
  <2> QED
    BY <1>1, <2>1, <2>2 DEF Settled
<1>5. Largest(L, Len(r), q)
  BY <1>4 DEF Largest
<1> QED
  BY <1>1, <1>5, SettlesIs

LEMMA WorldSettles ==
  ASSUME NEW B, NEW C, World(heap, B, C)
  PROVE  RecyclerSettles
<1>1. PICK m, r : Good(heap, B, C, m, r, 0)
  BY DEF World, Sound
<1>2. PICK n : n = Len(r)
  OBVIOUS
<1>3. Recycler(heap) = In(r) /\ Distinct(r)
  BY <1>1, RecyclerIs, ListsFacts DEF Good
<1>4. Cardinality(Recycler(heap)) = n /\ n \in Nat
  BY <1>2, <1>3, RecyclerCount
<1>5. PICK g : Cycling(g, heap, n + 1) /\ SettlesWithin(heap, n) =
                  (n > 0 => /\ Settles(g[n])
                            /\ \A k \in 0 .. n : Settles(g[k]) => Settles(g[k + 1]))
  BY <1>4, CyclingRuns
<1>6. ASSUME n > 0
      PROVE  Settles(g[n]) /\ \A k \in 0 .. n : Settles(g[k]) => Settles(g[k + 1])
  <2>1. PICK L : L = [x \in In(r) |-> heap.mem[x].len]
    OBVIOUS
  <2>2. n + 1 \in Nat /\ Len(r) >= 1 /\ n \in 0 .. n + 1
    BY <1>2, <1>4, <1>6
  <2>3. \A k \in 0 .. n + 1 : After(heap, B, C, m, r, L, g[k], k)
    BY <1>1, <1>5, <2>1, <2>2, AllAfter
  <2>4. Settles(g[n])
    BY <1>1, <1>2, <2>1, <2>2, <2>3, HeadComes
  <2>5. ASSUME NEW k \in 0 .. n, Settles(g[k]) PROVE Settles(g[k + 1])
    <3>1. k \in 0 .. n + 1 /\ k + 1 \in 1 .. n + 1 /\ k + 1 - 1 = k
      BY <1>4
    <3>2. g[k + 1] = CycleRecycler(g[k])
      <4>1. \A j \in 1 .. n + 1 : g[j] = CycleRecycler(g[j - 1])
        BY <1>5 DEF Cycling
      <4>2. g[k + 1] = CycleRecycler(g[k + 1 - 1])
        BY <3>1, <4>1
      <4> QED
        BY <3>1, <4>2
    <3>3. Settles(CycleRecycler(g[k]))
      BY <1>1, <2>1, <2>2, <2>3, <2>5, <3>1, HeadStays
    <3> QED
      BY <3>2, <3>3
  <2> QED
    BY <2>4, <2>5
<1>7. SettlesWithin(heap, n)
  BY <1>5, <1>6
<1> QED
  BY <1>4, <1>7, SettlingIs

(* wmem_block_cycle_recycler: the claims of its comment, that n rounds     *)
(* over n chunks bring the largest one to the head of the recycler and     *)
(* that it stays there, hold of every recycler the allocator can have.     *)
THEOREM RecyclerAlwaysSettles == Spec => []RecyclerSettles
<1>1. IInv => RecyclerSettles
  BY WorldFollows, WorldSettles
<1> QED
  BY <1>1, Invariance, PTL

=============================================================================
