------------------------- MODULE WmemPromiseProofs --------------------------
(***************************************************************************)
(* Proofs about WmemCore, whichever of the four allocators serves: each    *)
(* keeps the promise of WmemAlloc, the books are exact, a gc returns the   *)
(* unused blocks and a destroyed allocator has returned everything. What   *)
(* is needed of the block allocator comes from WmemBlockProofs, of the     *)
(* other three from WmemCoreProofs.                                        *)
(***************************************************************************)
EXTENDS WmemCoreProofs

-----------------------------------------------------------------------------
(***************************************************************************)
(* WmemCore and WmemBlockProofs each have WmemBlock with the same          *)
(* constants and the same variables: operator for operator it is the same. *)
(***************************************************************************)
BP == INSTANCE WmemBlockProofs

LEMMA AlikeSlot == Block!Slot = BP!Slot
BY DEF Block!Slot, BP!Slot

LEMMA AlikeBase == \A s : Block!Base(s) = BP!Base(s)
BY DEF Block!Base, BP!Base

LEMMA AlikeSlotOf == \A b : Block!SlotOf(b) = BP!SlotOf(b)
BY DEF Block!SlotOf, BP!SlotOf

LEMMA AlikeAddress == Block!Address = BP!Address
BY DEF Block!Address, BP!Address

LEMMA AlikeData == \A i : Block!Data(i) = BP!Data(i)
BY DEF Block!Data, BP!Data

LEMMA AlikeJunk == Block!Junk = BP!Junk
BY DEF Block!Junk, BP!Junk

LEMMA AlikeUnits == \A size : Block!Units(size) = BP!Units(size)
BY DEF Block!Units, BP!Units

LEMMA AlikeFreeSlots == \A h : Block!FreeSlots(h) = BP!FreeSlots(h)
BY AlikeSlot DEF Block!FreeSlots, BP!FreeSlots

LEMMA AlikeNewSlot == \A h : Block!NewSlot(h) = BP!NewSlot(h)
BY AlikeFreeSlots DEF Block!NewSlot, BP!NewSlot

LEMMA AlikeOsTake == \A h, s : Block!OsTake(h, s) = BP!OsTake(h, s)
BY DEF Block!OsTake, BP!OsTake

LEMMA AlikeOsFree == \A h, b : Block!OsFree(h, b) = BP!OsFree(h, b)
BY DEF Block!OsFree, BP!OsFree, Block!SlotOf, BP!SlotOf, Block!SlotCells,
  BP!SlotCells, Block!Address, BP!Address, Block!Junk, BP!Junk, Block!Base,
  BP!Base

LEMMA AlikeCopyUnits ==
  \A h, to, from, n : Block!CopyUnits(h, to, from, n) = BP!CopyUnits(h, to, from, n)
BY AlikeAddress DEF Block!CopyUnits, BP!CopyUnits

LEMMA AlikeCellsOf == \A r : Block!CellsOf(r) = BP!CellsOf(r)
BY AlikeUnits DEF Block!CellsOf, BP!CellsOf

LEMMA AlikeWrite ==
  \A h, i, r, first : Block!Write(h, i, r, first) = BP!Write(h, i, r, first)
BY AlikeAddress, AlikeData, AlikeCellsOf DEF Block!Write, BP!Write

LEMMA AlikeKeep == \A h, kept : Block!Keep(h, kept) = BP!Keep(h, kept)
BY AlikeAddress, AlikeJunk DEF Block!Keep, BP!Keep

LEMMA AlikeWith == \A f, i, r : Block!With(f, i, r) = BP!With(f, i, r)
BY DEF Block!With, BP!With

LEMMA AlikeWithout == \A f, S : Block!Without(f, S) = BP!Without(f, S)
BY DEF Block!Without, BP!Without

LEMMA AlikeNull == Block!Null = BP!Null
BY DEF Block!Null, BP!Null

LEMMA AlikeLinks == \A p, n : Block!Links(p, n) = BP!Links(p, n)
BY DEF Block!Links, BP!Links

LEMMA AlikeChunk ==
  \A prev, last, used, jumbo, len : Block!Chunk(prev, last, used, jumbo, len) = BP!Chunk(prev, last, used, jumbo, len)
BY DEF Block!Chunk, BP!Chunk

LEMMA AlikeChunkNext == \A h, c : Block!ChunkNext(h, c) = BP!ChunkNext(h, c)
BY AlikeNull DEF Block!ChunkNext, BP!ChunkNext

LEMMA AlikeChunkPrev == \A h, c : Block!ChunkPrev(h, c) = BP!ChunkPrev(h, c)
BY AlikeNull DEF Block!ChunkPrev, BP!ChunkPrev

LEMMA AlikeGetFree == \A h, c : Block!GetFree(h, c) = BP!GetFree(h, c)
BY DEF Block!GetFree, BP!GetFree

LEMMA AlikeHasRoom == \A h, c : Block!HasRoom(h, c) = BP!HasRoom(h, c)
BY DEF Block!HasRoom, BP!HasRoom

LEMMA AlikeSetPrevOf ==
  \A h, p, c : Block!SetPrevOf(h, p, c) = BP!SetPrevOf(h, p, c)
BY AlikeNull DEF Block!SetPrevOf, BP!SetPrevOf

LEMMA AlikeCycleRecycler == \A h : Block!CycleRecycler(h) = BP!CycleRecycler(h)
BY DEF Block!CycleRecycler, BP!CycleRecycler, Block!Null, BP!Null,
  Block!Links, BP!Links, Block!GetFree, BP!GetFree

LEMMA AlikeAddToRecycler ==
  \A h, c : Block!AddToRecycler(h, c) = BP!AddToRecycler(h, c)
BY DEF Block!AddToRecycler, BP!AddToRecycler, Block!Null, BP!Null,
  Block!Links, BP!Links, Block!GetFree, BP!GetFree, Block!HasRoom, BP!HasRoom

LEMMA AlikeRemoveFromRecycler ==
  \A h, c : Block!RemoveFromRecycler(h, c) = BP!RemoveFromRecycler(h, c)
BY DEF Block!RemoveFromRecycler, BP!RemoveFromRecycler, Block!Null, BP!Null,
  Block!GetFree, BP!GetFree

LEMMA AlikePushMaster == \A h, c : Block!PushMaster(h, c) = BP!PushMaster(h, c)
BY AlikeNull, AlikeLinks, AlikeSetPrevOf DEF Block!PushMaster, BP!PushMaster

LEMMA AlikePopMaster == \A h : Block!PopMaster(h) = BP!PopMaster(h)
BY AlikeNull, AlikeGetFree, AlikeSetPrevOf DEF Block!PopMaster, BP!PopMaster

LEMMA Samevars == Block!vars = BP!vars
BY DEF Block!vars, BP!vars

LEMMA AlikeDataLen == \A h, c : Block!DataLen(h, c) = BP!DataLen(h, c)
BY DEF Block!DataLen, BP!DataLen

LEMMA AlikeMaxAllocSize == Block!MaxAllocSize = BP!MaxAllocSize
BY DEF Block!MaxAllocSize, BP!MaxAllocSize

LEMMA AlikeFixNextPrev ==
  \A h, c : Block!FixNextPrev(h, c) = BP!FixNextPrev(h, c)
BY AlikeChunkNext DEF Block!FixNextPrev, BP!FixNextPrev

LEMMA AlikeIsFree == \A h, c : Block!IsFree(h, c) = BP!IsFree(h, c)
BY AlikeNull DEF Block!IsFree, BP!IsFree

LEMMA AlikeAbsorb == \A h, c, r : Block!Absorb(h, c, r) = BP!Absorb(h, c, r)
BY DEF Block!Absorb, BP!Absorb

LEMMA AlikeMergeFree == \A h, c0 : Block!MergeFree(h, c0) = BP!MergeFree(h, c0)
<1> SUFFICES ASSUME NEW h, NEW c0 PROVE Block!MergeFree(h, c0) = BP!MergeFree(h, c0)
  OBVIOUS
<1> DEFINE r == BP!ChunkNext(h, c0)
           rf == BP!IsFree(h, r) /\ BP!HasRoom(h, r)
           h1 == IF BP!IsFree(h, r) THEN BP!Absorb(h, c0, r) ELSE h
           l == BP!ChunkPrev(h1, c0)
           lf == BP!IsFree(h1, l) /\ BP!HasRoom(h1, l)
           c == IF BP!IsFree(h1, l) THEN l ELSE c0
           h2 == IF c = l THEN BP!Absorb(h1, l, c0) ELSE h1
           h3 == BP!FixNextPrev(h2, c)
           x4 == IF lf THEN BP!RemoveFromRecycler(h3, l) ELSE h3
           n == BP!GetFree(x4, r).next
           x5 == BP!SetPrevOf([x4 EXCEPT !.mem[c + 1] = BP!Links(BP!Null, n), !.master_head = c], n, c)
           y4 == IF rf THEN BP!RemoveFromRecycler(h3, r) ELSE h3
           y5 == IF lf THEN y4 ELSE BP!AddToRecycler(y4, c)
<1>1. BP!MergeFree(h, c0) = IF rf /\ r = h3.master_head THEN x5 ELSE y5
  BY DEF BP!MergeFree
<1>2. r = Block!ChunkNext(h, c0) BY AlikeChunkNext
<1> HIDE DEF r
<1>3. rf <=> Block!IsFree(h, r) /\ Block!HasRoom(h, r) BY AlikeIsFree, AlikeHasRoom
<1>4. h1 = IF Block!IsFree(h, r) THEN Block!Absorb(h, c0, r) ELSE h BY AlikeIsFree, AlikeAbsorb
<1> HIDE DEF h1, rf
<1>5. l = Block!ChunkPrev(h1, c0) BY AlikeChunkPrev
<1> HIDE DEF l
<1>6. lf <=> Block!IsFree(h1, l) /\ Block!HasRoom(h1, l) BY AlikeIsFree, AlikeHasRoom
<1>7. c = IF Block!IsFree(h1, l) THEN l ELSE c0 BY AlikeIsFree
<1> HIDE DEF lf, c
<1>8. h2 = IF c = l THEN Block!Absorb(h1, l, c0) ELSE h1 BY AlikeAbsorb
<1> HIDE DEF h2
<1>9. h3 = Block!FixNextPrev(h2, c) BY AlikeFixNextPrev
<1> HIDE DEF h3
<1>10. x4 = IF lf THEN Block!RemoveFromRecycler(h3, l) ELSE h3 BY AlikeRemoveFromRecycler
<1> HIDE DEF x4
<1>11. n = Block!GetFree(x4, r).next BY AlikeGetFree
<1> HIDE DEF n
<1>12. Block!Links(Block!Null, n) = BP!Links(BP!Null, n) BY AlikeLinks, AlikeNull
<1>13. x5 = Block!SetPrevOf([x4 EXCEPT !.mem[c + 1] = Block!Links(Block!Null, n), !.master_head = c], n, c)
  BY <1>12, AlikeSetPrevOf
<1> HIDE DEF x5
<1>14. y4 = IF rf THEN Block!RemoveFromRecycler(h3, r) ELSE h3 BY AlikeRemoveFromRecycler
<1> HIDE DEF y4
<1>15. y5 = IF lf THEN y4 ELSE Block!AddToRecycler(y4, c) BY AlikeAddToRecycler
<1> HIDE DEF y5
<1>16. Block!MergeFree(h, c0) = IF rf /\ r = h3.master_head THEN x5 ELSE y5
  BY <1>2, <1>3, <1>4, <1>5, <1>6, <1>7, <1>8, <1>9, <1>10, <1>11, <1>13, <1>14, <1>15 DEF Block!MergeFree
<1> QED
  BY <1>1, <1>16

LEMMA AlikeMoveFreeHeader ==
  \A h, c, extra : Block!MoveFreeHeader(h, c, extra) = BP!MoveFreeHeader(h, c, extra)
BY DEF Block!MoveFreeHeader, BP!MoveFreeHeader, Block!Links, BP!Links,
  Block!GetFree, BP!GetFree, Block!SetPrevOf, BP!SetPrevOf, Block!Null,
  BP!Null

LEMMA AlikeCutChunk ==
  \A h, c, aligned_size : Block!CutChunk(h, c, aligned_size) = BP!CutChunk(h, c, aligned_size)
BY DEF Block!CutChunk, BP!CutChunk, Block!Chunk, BP!Chunk

LEMMA AlikeSplitFreeChunk ==
  \A h, c, size : Block!SplitFreeChunk(h, c, size) = BP!SplitFreeChunk(h, c, size)
BY AlikeUnits, AlikeHasRoom, AlikeRemoveFromRecycler, AlikePopMaster,
  AlikeFixNextPrev, AlikeMoveFreeHeader, AlikeCutChunk DEF Block!SplitFreeChunk,
  BP!SplitFreeChunk

LEMMA AlikeSplitUsedChunk ==
  \A h, c, size : Block!SplitUsedChunk(h, c, size) = BP!SplitUsedChunk(h, c, size)
BY AlikeUnits, AlikeFixNextPrev, AlikeMergeFree, AlikeCutChunk DEF
  Block!SplitUsedChunk, BP!SplitUsedChunk

LEMMA AlikeAddToBlockList ==
  \A h, b : Block!AddToBlockList(h, b) = BP!AddToBlockList(h, b)
BY DEF Block!AddToBlockList, BP!AddToBlockList, Block!Null, BP!Null,
  Block!Links, BP!Links

LEMMA AlikeRemoveFromBlockList ==
  \A h, b : Block!RemoveFromBlockList(h, b) = BP!RemoveFromBlockList(h, b)
BY AlikeNull DEF Block!RemoveFromBlockList, BP!RemoveFromBlockList

LEMMA AlikeInitBlock == \A h, b : Block!InitBlock(h, b) = BP!InitBlock(h, b)
BY AlikeChunk, AlikePushMaster DEF Block!InitBlock, BP!InitBlock

LEMMA AlikeNewBlock == \A h : Block!NewBlock(h) = BP!NewBlock(h)
BY AlikeBase, AlikeNewSlot, AlikeOsTake, AlikeAddToBlockList, AlikeInitBlock DEF
  Block!NewBlock, BP!NewBlock

LEMMA AlikeAllocJumbo == \A h : Block!AllocJumbo(h) = BP!AllocJumbo(h)
BY AlikeBase, AlikeNewSlot, AlikeOsTake, AlikeChunk, AlikeAddToBlockList DEF
  Block!AllocJumbo, BP!AllocJumbo

LEMMA AlikeFreeJumbo == \A h, c : Block!FreeJumbo(h, c) = BP!FreeJumbo(h, c)
BY AlikeOsFree, AlikeRemoveFromBlockList DEF Block!FreeJumbo, BP!FreeJumbo

LEMMA AlikeReallocJumbo ==
  \A h, c, size, t : Block!ReallocJumbo(h, c, size, t) = BP!ReallocJumbo(h, c, size, t)
BY DEF Block!ReallocJumbo, BP!ReallocJumbo, Block!Base, BP!Base, Block!Units,
  BP!Units, Block!OsRealloc, BP!OsRealloc, Block!Null, BP!Null, Block!SlotOf,
  BP!SlotOf, Block!SlotCells, BP!SlotCells, Block!Address, BP!Address,
  Block!Junk, BP!Junk

LEMMA AlikeFromRecycler ==
  \A h, size : Block!FromRecycler(h, size) = BP!FromRecycler(h, size)
BY AlikeNull, AlikeDataLen DEF Block!FromRecycler, BP!FromRecycler

LEMMA AlikeRecycleMaster ==
  \A h, size : Block!RecycleMaster(h, size) = BP!RecycleMaster(h, size)
BY AlikeNull, AlikeAddToRecycler, AlikePopMaster, AlikeDataLen DEF
  Block!RecycleMaster, BP!RecycleMaster

LEMMA AlikeWithMaster ==
  \A h, size : Block!WithMaster(h, size) = BP!WithMaster(h, size)
BY AlikeNull, AlikeNewBlock, AlikeRecycleMaster DEF Block!WithMaster,
  BP!WithMaster

LEMMA AlikeBlockAlloc == \A h, size : Block!BlockAlloc(h, size) = BP!BlockAlloc(h, size)
<1> SUFFICES ASSUME NEW h, NEW size PROVE Block!BlockAlloc(h, size) = BP!BlockAlloc(h, size)
  OBVIOUS
<1> DEFINE k == IF BP!FromRecycler(h, size) THEN h ELSE BP!WithMaster(h, size)
           c == IF BP!FromRecycler(h, size) THEN h.recycler_head ELSE k.master_head
           g == BP!CycleRecycler(BP!SplitFreeChunk(k, c, size))
           e == [heap |-> [g EXCEPT !.mem[c].used = TRUE], ptr |-> c + 1]
           r == IF size > BP!MaxAllocSize
                THEN [heap |-> BP!AllocJumbo(h), ptr |-> BP!Base(BP!NewSlot(h)) + 2]
                ELSE e
<1>1. BP!BlockAlloc(h, size) = r
  BY DEF BP!BlockAlloc
<1>2. k = IF Block!FromRecycler(h, size) THEN h ELSE Block!WithMaster(h, size)
  BY AlikeFromRecycler, AlikeWithMaster
<1>3. c = IF Block!FromRecycler(h, size) THEN h.recycler_head ELSE k.master_head
  BY AlikeFromRecycler
<1> HIDE DEF k, c
<1>4. Block!CycleRecycler(Block!SplitFreeChunk(k, c, size)) = g
  BY AlikeCycleRecycler, AlikeSplitFreeChunk
<1> HIDE DEF g
<1>5. Block!BlockAlloc(h, size) = IF size > Block!MaxAllocSize
                THEN [heap |-> Block!AllocJumbo(h), ptr |-> Block!Base(Block!NewSlot(h)) + 2]
                ELSE e
  BY <1>2, <1>3, <1>4 DEF Block!BlockAlloc
<1> HIDE DEF e
<1> QED
  BY <1>1, <1>5, AlikeMaxAllocSize, AlikeAllocJumbo, AlikeBase, AlikeNewSlot

LEMMA AlikeServiceable ==
  \A h, size : Block!Serviceable(h, size) = BP!Serviceable(h, size)
BY AlikeFreeSlots, AlikeNull, AlikeMaxAllocSize, AlikeFromRecycler,
  AlikeRecycleMaster DEF Block!Serviceable, BP!Serviceable

LEMMA AlikeBlockFree ==
  \A h, ptr : Block!BlockFree(h, ptr) = BP!BlockFree(h, ptr)
BY AlikeCycleRecycler, AlikeMergeFree, AlikeFreeJumbo DEF Block!BlockFree,
  BP!BlockFree

LEMMA AlikeCanGrow ==
  \A h, c, size : Block!CanGrow(h, c, size) = BP!CanGrow(h, c, size)
BY AlikeChunkNext, AlikeDataLen, AlikeIsFree DEF Block!CanGrow, BP!CanGrow

LEMMA AlikeGrowInPlace ==
  \A h, c, size : Block!GrowInPlace(h, c, size) = BP!GrowInPlace(h, c, size)
BY AlikeChunkNext, AlikeCycleRecycler, AlikeDataLen, AlikeFixNextPrev, AlikeAbsorb,
  AlikeSplitFreeChunk DEF Block!GrowInPlace, BP!GrowInPlace

LEMMA AlikeMoveAllocation ==
  \A h, ptr, size : Block!MoveAllocation(h, ptr, size) = BP!MoveAllocation(h, ptr, size)
BY AlikeCopyUnits, AlikeBlockAlloc, AlikeBlockFree DEF Block!MoveAllocation,
  BP!MoveAllocation

LEMMA AlikeBlockRealloc ==
  \A h, ptr, size : Block!BlockRealloc(h, ptr, size) = BP!BlockRealloc(h, ptr, size)
BY AlikeCycleRecycler, AlikeDataLen, AlikeSplitUsedChunk, AlikeCanGrow,
  AlikeGrowInPlace, AlikeMoveAllocation DEF Block!BlockRealloc, BP!BlockRealloc

LEMMA AlikeReallocServiceable ==
  \A h, ptr, size : Block!ReallocServiceable(h, ptr, size) = BP!ReallocServiceable(h, ptr, size)
BY AlikeDataLen, AlikeServiceable, AlikeCanGrow DEF Block!ReallocServiceable,
  BP!ReallocServiceable

LEMMA AlikeFreeAllRound == \A w : Block!FreeAllRound(w) = BP!FreeAllRound(w)
BY AlikeOsFree, AlikeNull, AlikeRemoveFromBlockList, AlikeInitBlock DEF
  Block!FreeAllRound, BP!FreeAllRound

LEMMA AlikeFreeAllBlocks == \A h : Block!FreeAllBlocks(h) = BP!FreeAllBlocks(h)
BY AlikeNull, AlikeFreeAllRound DEF Block!FreeAllBlocks, BP!FreeAllBlocks

LEMMA AlikeReleaseBlock ==
  \A h, b : Block!ReleaseBlock(h, b) = BP!ReleaseBlock(h, b)
<1> TAKE h, b
<1> DEFINE c == b + 1
           h1 == BP!SetPrevOf(h, BP!GetFree(h, c).next, BP!GetFree(h, c).prev)
           p == BP!GetFree(h1, c).prev
           h2 == IF p = BP!Null THEN h1 ELSE [h1 EXCEPT !.mem[p + 1].next = BP!GetFree(h1, c).next]
           next == BP!GetFree(h2, c).next
           h3 == IF h2.recycler_head = c
                 THEN [h2 EXCEPT !.recycler_head = IF next = c THEN BP!Null ELSE next]
                 ELSE IF h2.master_head = c THEN [h2 EXCEPT !.master_head = next]
                 ELSE h2
<1>1. Block!ReleaseBlock(h, b) = Block!OsFree(h3, b)
  BY SMTT(60) DEF Block!ReleaseBlock, Block!Null, BP!Null, Block!GetFree, BP!GetFree,
    Block!SetPrevOf, BP!SetPrevOf
<1>2. BP!ReleaseBlock(h, b) = BP!OsFree(h3, b)
  BY SMTT(60) DEF BP!ReleaseBlock
<1> HIDE DEF h3
<1> QED
  BY <1>1, <1>2, AlikeOsFree

LEMMA AlikeGcRound == \A w : Block!GcRound(w) = BP!GcRound(w)
BY AlikeNull, AlikeAddToBlockList, AlikeReleaseBlock DEF Block!GcRound,
  BP!GcRound

LEMMA AlikeGcBlocks == \A h : Block!GcBlocks(h) = BP!GcBlocks(h)
BY AlikeNull, AlikeGcRound DEF Block!GcBlocks, BP!GcBlocks

LEMMA AlikeBlocks == \A h : Block!Blocks(h) = BP!Blocks(h)
BY AlikeBase DEF Block!Blocks, BP!Blocks

LEMMA AlikeIsJumbo == \A h, b : Block!IsJumbo(h, b) = BP!IsJumbo(h, b)
BY DEF Block!IsJumbo, BP!IsJumbo

LEMMA AlikeChunksOf == \A h, b : Block!ChunksOf(h, b) = BP!ChunksOf(h, b)
BY DEF Block!ChunksOf, BP!ChunksOf, Block!Walk, BP!Walk, Block!Null, BP!Null,
  Block!ChunkNext, BP!ChunkNext

LEMMA AlikeChunks == \A h : Block!Chunks(h) = BP!Chunks(h)
BY AlikeBlocks, AlikeIsJumbo, AlikeChunksOf DEF Block!Chunks, BP!Chunks

LEMMA AlikeBlockList == \A h : Block!BlockList(h) = BP!BlockList(h)
BY DEF Block!BlockList, BP!BlockList, Block!Walk, BP!Walk, Block!Null, BP!Null

LEMMA AlikeMasterList == \A h : Block!MasterList(h) = BP!MasterList(h)
BY DEF Block!MasterList, BP!MasterList, Block!Walk, BP!Walk, Block!Null,
  BP!Null, Block!GetFree, BP!GetFree, Block!MaxChunks, BP!MaxChunks

LEMMA AlikeRecycler == \A h : Block!Recycler(h) = BP!Recycler(h)
BY DEF Block!Recycler, BP!Recycler, Block!Walk, BP!Walk, Block!Null, BP!Null,
  Block!GetFree, BP!GetFree, Block!MaxChunks, BP!MaxChunks

LEMMA AlikeMeaningful ==
  \A h, allocations : Block!Meaningful(h, allocations) = BP!Meaningful(h, allocations)
BY AlikeCellsOf, AlikeHasRoom, AlikeIsFree, AlikeBlocks, AlikeChunks DEF
  Block!Meaningful, BP!Meaningful

LEMMA AlikeForget ==
  \A h, allocations : Block!Forget(h, allocations) = BP!Forget(h, allocations)
BY AlikeKeep, AlikeMeaningful DEF Block!Forget, BP!Forget

LEMMA AlikeInit == Block!Init = BP!Init
BY AlikeAddress, AlikeJunk, AlikeNull DEF Block!Init, BP!Init

LEMMA AlikeAlloc == \A i, size : Block!Alloc(i, size) = BP!Alloc(i, size)
BY AlikeWrite, AlikeWith, AlikeBlockAlloc, AlikeServiceable, AlikeForget DEF
  Block!Alloc, BP!Alloc

LEMMA AlikeFree == \A i : Block!Free(i) = BP!Free(i)
BY AlikeWithout, AlikeBlockFree, AlikeForget DEF Block!Free, BP!Free

LEMMA AlikeReallocated ==
  \A i, size, new : Block!Reallocated(i, size, new) = BP!Reallocated(i, size, new)
BY AlikeUnits, AlikeWrite, AlikeWith, AlikeForget DEF Block!Reallocated,
  BP!Reallocated

LEMMA AlikeRealloc == \A i, size : Block!Realloc(i, size) = BP!Realloc(i, size)
BY AlikeBlockRealloc, AlikeReallocServiceable, AlikeReallocated DEF
  Block!Realloc, BP!Realloc

LEMMA AlikeReallocOfJumbo ==
  \A i, size : Block!ReallocOfJumbo(i, size) = BP!ReallocOfJumbo(i, size)
BY AlikeBase, AlikeSlotOf, AlikeFreeSlots, AlikeReallocJumbo, AlikeReallocated DEF
  Block!ReallocOfJumbo, BP!ReallocOfJumbo

LEMMA AlikeFreeAll == Block!FreeAll = BP!FreeAll
BY AlikeFreeAllBlocks, AlikeForget DEF Block!FreeAll, BP!FreeAll

LEMMA AlikeGc == Block!Gc = BP!Gc
BY AlikeGcBlocks DEF Block!Gc, BP!Gc

LEMMA AlikeDestroy == Block!Destroy = BP!Destroy
BY AlikeFreeAllBlocks, AlikeGcBlocks, AlikeForget DEF Block!Destroy, BP!Destroy

LEMMA AlikeCreate == Block!Create = BP!Create
BY AlikeNull DEF Block!Create, BP!Create

LEMMA AlikeNext == Block!Next = BP!Next
BY AlikeAlloc, AlikeFree, AlikeRealloc, AlikeReallocOfJumbo, AlikeFreeAll, AlikeGc,
  AlikeDestroy, AlikeCreate DEF Block!Next, BP!Next

LEMMA AlikeTypeOK == Block!TypeOK = BP!TypeOK
BY AlikeSlot, AlikeAddress, AlikeNull DEF Block!TypeOK, BP!TypeOK

LEMMA AlikeBlockListExact == Block!BlockListExact = BP!BlockListExact
BY AlikeNull, AlikeBlocks, AlikeBlockList DEF Block!BlockListExact,
  BP!BlockListExact

LEMMA AlikeFreeListsExact == Block!FreeListsExact = BP!FreeListsExact
BY AlikeNull, AlikeGetFree, AlikeHasRoom, AlikeIsFree, AlikeChunks, AlikeMasterList,
  AlikeRecycler DEF Block!FreeListsExact, BP!FreeListsExact
-----------------------------------------------------------------------------
(***************************************************************************)
(* The block allocator: what WmemBlockProofs shows of its state and steps. *)
(***************************************************************************)
LEMMA BlockAssumed == Block!BlockAssumption
BY CoreAssumption DEF CoreAssumption

BlockHolding == OfBlock => BP!IInv

LEMMA InitBlock == Init => BlockHolding
<1> SUFFICES ASSUME Init, OfBlock PROVE BP!IInv
  BY DEF BlockHolding
<1>1. Block!Init
  BY DEF Init, OfBlock, OfFast, OfSimple, OfStrict
<1>2. BP!Init
  BY <1>1, AlikeInit
<1> QED
  BY <1>2, BP!InitIInv, BlockAssumed, OsAssumption

LEMMA StepBlock == BlockHolding /\ [Next]_vars => BlockHolding'
<1> SUFFICES ASSUME BlockHolding, [Next]_vars, OfBlock PROVE BP!IInv'
  BY DEF BlockHolding, Next, vars, OfBlock, OfFast, OfSimple, OfStrict
<1>1. Block!Next \/ UNCHANGED <<heap, live, created>>
  BY DEF Next, vars, OfBlock, OfFast, OfSimple, OfStrict
<1>2. [BP!Next]_(BP!vars)
  BY <1>1, AlikeNext DEF BP!vars
<1> QED
  BY <1>2, BP!NextIInv, BlockAssumed, OsAssumption DEF BlockHolding

(* What the block allocator's invariant says of allocations.               *)
LEMMA BlockPlaced == ASSUME BP!IInv PROVE Placed(live) /\ Mine(heap, live)
<1>1. BP!TypeOK /\ BP!LiveIntact
  BY BP!TypeFollows, BP!IntactFollows, BlockAssumed, OsAssumption
<1>2. \A r : BP!CellsOf(r) = Strict!CellsOf(r) /\ Promise!Cells(r) = Strict!CellsOf(r)
  BY DEF BP!CellsOf, BP!Units, Strict!CellsOf, Strict!Units, Promise!Cells, Promise!Units
<1>3. Mine(heap, live)
  BY <1>1, <1>2 DEF BP!LiveIntact, Mine, Holds, BP!Data, Strict!Data
<1>4. ASSUME NEW i \in DOMAIN live PROVE live[i].ptr \in Address /\ live[i].size \in Size
  BY <1>1 DEF BP!TypeOK, BP!Address, Address
<1>5. ASSUME NEW i \in DOMAIN live, NEW j \in DOMAIN live, i # j,
             NEW a \in Strict!CellsOf(live[i]), a \in Strict!CellsOf(live[j])
      PROVE  FALSE
  <2>1. [owner |-> i] = [owner |-> j]
    BY <1>3, <1>5 DEF Mine, Holds, Strict!Data
  <2> QED
    BY <1>5, <2>1
<1> QED
  BY <1>2, <1>3, <1>4, <1>5 DEF Placed

LEMMA StepBlockPromised ==
  BlockHolding /\ [Next]_vars /\ OfBlock => [Promise!Next]_(Promise!vars)
<1> SUFFICES ASSUME BlockHolding, [Next]_vars, OfBlock PROVE [Promise!Next]_(Promise!vars)
  OBVIOUS
<1>1. OfBlock' /\ (Block!Next \/ UNCHANGED vars)
  BY DEF Next, vars, OfBlock, OfFast, OfSimple, OfStrict
<1>2. BP!IInv /\ BP!IInv'
  BY <1>1, StepBlock DEF BlockHolding
<1>3. Placed(live) /\ Mine(heap, live)
  BY <1>2, BlockPlaced
<1>4. Placed(live') /\ Mine(heap', live')
  <2>1. (BP!IInv => Placed(live) /\ Mine(heap, live))'
    BY BlockPlaced, PTL
  <2>2. Placed(live)' /\ Mine(heap, live)'
    BY <1>2, <2>1
  <2> QED
    BY <2>2 DEF Placed, Mine
<1>5. Seen
  BY <1>3, <1>4, ContentIs DEF Seen
<1>6. ASSUME NEW i \in Id, NEW size \in Size, Block!Alloc(i, size) PROVE Promise!Alloc(i, size)
  <2> DEFINE r == [ptr |-> Block!BlockAlloc(heap, size).ptr, size |-> size]
  <2>1. i \notin DOMAIN live /\ live' = Strict!With(live, i, r)
    BY <1>6 DEF Block!Alloc, Block!With, Strict!With
  <2>2. r = [ptr |-> r.ptr, size |-> size]
    OBVIOUS
  <2> HIDE DEF r
  <2> QED
    BY <1>5, <2>1, <2>2, AllocPromised
<1>7. ASSUME NEW i \in Id, NEW size \in Size, Block!Realloc(i, size) \/ Block!ReallocOfJumbo(i, size)
      PROVE  Promise!Realloc(i, size)
  <2>1. i \in DOMAIN live
    BY <1>7 DEF Block!Realloc, Block!ReallocOfJumbo
  <2>2. PICK new : Block!Reallocated(i, size, new)
    BY <1>7 DEF Block!Realloc, Block!ReallocOfJumbo
  <2> DEFINE r == [ptr |-> new.ptr, size |-> size]
  <2>3. live' = Strict!With(live, i, r) /\ r = [ptr |-> r.ptr, size |-> size]
    BY <2>2 DEF Block!Reallocated, Block!With, Strict!With
  <2> HIDE DEF r
  <2> QED
    BY <1>5, <2>1, <2>3, ReallocPromised
<1>8. ASSUME NEW i \in Id, Block!Free(i) PROVE Promise!Free(i)
  <2>1. i \in DOMAIN live /\ live' = Strict!Without(live, {i})
    BY <1>8 DEF Block!Free, Block!Without, Strict!Without
  <2> QED
    BY <1>5, <2>1, FreePromised
<1>9. CASE Block!FreeAll \/ Block!Destroy
  <2>1. live' = << >>
    BY <1>9 DEF Block!FreeAll, Block!Destroy
  <2> QED
    BY <1>5, <2>1, FreeAllPromised DEF Promise!Next
<1>10. CASE Block!Gc \/ Block!Create \/ UNCHANGED vars
  <2>1. live' = live
    BY <1>10 DEF Block!Gc, Block!Create, vars
  <2> QED
    BY <1>5, <2>1, NothingPromised
<1> QED
  <2>1. \/ \E i \in Id, size \in Size : Block!Alloc(i, size)
        \/ \E i \in Id, size \in Size : Block!Realloc(i, size) \/ Block!ReallocOfJumbo(i, size)
        \/ \E i \in Id : Block!Free(i)
        \/ Block!FreeAll \/ Block!Destroy
        \/ Block!Gc \/ Block!Create \/ UNCHANGED vars
    BY <1>1 DEF Block!Next
  <2>2. \/ \E i \in Id, size \in Size : Promise!Alloc(i, size) \/ Promise!Realloc(i, size)
        \/ \E i \in Id : Promise!Free(i)
        \/ [Promise!Next]_(Promise!vars)
    BY <1>6, <1>7, <1>8, <1>9, <1>10, <2>1
  <2> QED
    BY <2>2 DEF Promise!Next

(* The block allocator implements WmemAlloc, as KeepsPromise maps it:      *)
(* splits, merges, moves and collections of blocks disturb nobody.         *)
THEOREM BlockKeepsPromise == OfBlock /\ Spec => KeepsPromise
<1>1. BlockHolding /\ [Next]_vars /\ OfBlock => [Promise!Next]_(Promise!vars)
  BY StepBlockPromised
<1>2. OfBlock /\ [Next]_vars => OfBlock'
  BY DEF Next, vars, OfBlock, OfFast, OfSimple, OfStrict
<1>3. OfBlock /\ Init => Promise!Init
  <2> SUFFICES ASSUME OfBlock, Init PROVE Promise!Init
    OBVIOUS
  <2>1. Block!Init
    BY DEF Init, OfBlock, OfFast, OfSimple, OfStrict
  <2>2. live = << >>
    BY <2>1 DEF Block!Init
  <2>3. [i \in DOMAIN live |-> Held(heap, live[i], 0)] = << >>
    BY <2>2
  <2> QED
    BY <2>2, <2>3 DEF Promise!Init
<1> QED
  BY InitBlock, StepBlock, <1>1, <1>2, <1>3, PTL DEF Spec, KeepsPromise, Promise!Spec

(* wmem_block_gc: whatever it finds, it returns to the OS the blocks that  *)
(* are wholly unused, and no other.                                        *)
THEOREM GcAlwaysReturnsUnused == Spec => GcReturnsUnused
<1> DEFINE kept(h) == {b \in Block!Blocks(h) :
                         \/ Block!IsJumbo(h, b)
                         \/ \E c \in Block!ChunksOf(h, b) : h.mem[c].used}
<1>1. ASSUME BlockHolding, OfBlock, Block!Gc PROVE Block!Blocks(heap') = kept(heap)
  <2>1. heap' = Block!GcBlocks(heap)
    BY <1>1 DEF Block!Gc
  <2>2. Block!Blocks(Block!GcBlocks(heap)) = BP!Blocks(BP!GcBlocks(heap))
    BY AlikeBlocks, AlikeGcBlocks
  <2>3. BP!Blocks(BP!GcBlocks(heap)) = {b \in BP!Blocks(heap) :
             \/ BP!IsJumbo(heap, b)
             \/ \E c \in BP!ChunksOf(heap, b) : heap.mem[c].used}
    BY <1>1, BP!GcKeepsUsed, BlockAssumed, OsAssumption DEF BlockHolding
  <2>4. BP!Blocks(BP!GcBlocks(heap)) = kept(heap)
    BY <2>3, AlikeBlocks, AlikeIsJumbo, AlikeChunksOf
  <2> HIDE DEF kept
  <2> QED
    BY <2>1, <2>2, <2>4
<1>2. BlockHolding => (OfBlock /\ Block!Gc => Block!Blocks(heap') = kept(heap))
  BY <1>1
<1> QED
  BY InitBlock, StepBlock, <1>2, PTL DEF Spec, GcReturnsUnused

(* The block allocator's part of BooksExact and DestroyReturnsAll.         *)
LEMMA BlockBooks ==
  ASSUME BlockHolding, OfBlock
  PROVE  Block!TypeOK /\ Block!BlockListExact /\ Block!FreeListsExact /\ (~created => heap.os = {})
<1>1. BP!IInv
  BY DEF BlockHolding
<1>2. BP!TypeOK
  BY <1>1, BP!TypeFollows, BlockAssumed, OsAssumption
<1>3. BP!BlockListExact /\ BP!FreeListsExact
  <2>1. PICK B, C : BP!World(heap, B, C)
    BY <1>1, BP!WorldFollows, BlockAssumed, OsAssumption
  <2> QED
    BY <2>1, BP!WorldBlockList, BP!WorldFreeLists, BlockAssumed, OsAssumption
<1> QED
  BY <1>1, <1>2, <1>3, AlikeTypeOK, AlikeBlockListExact, AlikeFreeListsExact DEF BP!IInv

-----------------------------------------------------------------------------
(***************************************************************************)
(* The four implementations taken together.                                *)
(***************************************************************************)

(* One of them it is, and stays.                                           *)
OneOfFour == type \in {"block", "block_fast", "simple", "strict"}

LEMMA AlwaysOneOfFour == Spec => []OneOfFour
<1>1. Init => OneOfFour
  BY DEF Init, OneOfFour, OfBlock, OfFast, OfSimple, OfStrict
<1>2. OneOfFour /\ [Next]_vars => OneOfFour'
  BY DEF Next, vars, OneOfFour
<1> QED
  BY <1>1, <1>2, PTL DEF Spec

(* The strict allocator's live allocations: names, and records.            *)
Records(lv) ==
  /\ DOMAIN lv \subseteq Id
  /\ \A i \in DOMAIN lv : lv[i] = [ptr |-> lv[i].ptr, size |-> lv[i].size]
StrictNamed == OfStrict => Records(live)

LEMMA WithNamed ==
  ASSUME NEW lv, Records(lv),
         NEW k \in Id, NEW p, NEW size, NEW lv2, lv2 = Strict!With(lv, k, [ptr |-> p, size |-> size])
  PROVE  Records(lv2)
BY DEF Records, Strict!With

LEMMA WithoutNamed ==
  ASSUME NEW lv, Records(lv),
         NEW T, NEW lv2, lv2 = Strict!Without(lv, T)
  PROVE  Records(lv2)
BY DEF Records, Strict!Without

LEMMA InitStrictNamed == Init => StrictNamed
BY DEF Init, StrictNamed, Records, OfBlock, OfFast, OfSimple, OfStrict, Strict!Init

LEMMA StepStrictNamed == StrictNamed /\ [Next]_vars => StrictNamed'
<1> DEFINE lv == live'
<1> SUFFICES ASSUME StrictNamed, [Next]_vars, OfStrict
             PROVE  Records(lv)
  BY DEF StrictNamed, Next, vars, OfBlock, OfFast, OfSimple, OfStrict
<1>1. Strict!Next \/ UNCHANGED vars
  BY DEF Next, OfBlock, OfFast, OfSimple, OfStrict
<1>2. Records(live) /\ Records(<< >>)
  BY DEF StrictNamed, Records
<1>3. \/ lv = live \/ lv = << >>
      \/ \E k \in Id : \E p, size : lv = Strict!With(live, k, [ptr |-> p, size |-> size])
      \/ \E T : lv = Strict!Without(live, T)
  <2>1. ASSUME NEW i \in Id, NEW size \in Size, Strict!Alloc(i, size) \/ Strict!Realloc(i, size)
        PROVE  \E p : lv = Strict!With(live, i, [ptr |-> p, size |-> size])
    BY <2>1 DEF Strict!Alloc, Strict!Realloc, Strict!HandedOut
  <2>2. ASSUME NEW i \in Id, Strict!Free(i) PROVE \E T : lv = Strict!Without(live, T)
    BY <2>2 DEF Strict!Free
  <2>3. ASSUME NEW i \in Id, Strict!FreeAsserts(i) \/ Strict!Overrun(i) PROVE lv = live
    BY <2>3 DEF Strict!FreeAsserts, Strict!Overrun
  <2>4. CASE Strict!CheckCanaries \/ Strict!Create \/ UNCHANGED vars
    BY <2>4 DEF Strict!CheckCanaries, Strict!Create, vars
  <2>5. CASE Strict!FreeAll \/ Strict!Destroy
    BY <2>5 DEF Strict!FreeAll, Strict!Destroy
  <2> QED
    BY <1>1, <2>1, <2>2, <2>3, <2>4, <2>5 DEF Strict!Next
<1> HIDE DEF lv
<1>4. ASSUME NEW k \in Id, NEW p, NEW size, lv = Strict!With(live, k, [ptr |-> p, size |-> size])
      PROVE  Records(lv)
  BY <1>2, <1>4, WithNamed
<1>5. ASSUME NEW T, lv = Strict!Without(live, T) PROVE Records(lv)
  BY <1>2, <1>5, WithoutNamed
<1>6. CASE lv = live \/ lv = << >>
  BY <1>2, <1>6
<1> QED
  BY <1>3, <1>4, <1>5, <1>6

LEMMA StrictTypes == ASSUME StrictInv, StrictNamed, OfStrict PROVE Strict!TypeOK
<1>1. /\ created \in BOOLEAN /\ asserted \in BOOLEAN
      /\ StrictSound(heap, live, overrun)
  BY DEF StrictInv
<1>2. PICK c : List(heap, c) /\ Marks(heap, live, overrun)
  BY <1>1 DEF StrictSound
<1>3. heap.os \subseteq Strict!Slot /\ DOMAIN heap.mem = Strict!Address
  BY <1>2 DEF List, Shaped
<1>4. heap.blocks \in Strict!Address \cup {0}
  <2>1. \A b \in Blocks : b \in Strict!Address
    BY BlockFacts, FastFacts
  <2> QED
    BY <1>2, <2>1, InChain DEF List, At
<1>5. DOMAIN live \subseteq Id /\ overrun \subseteq Id
  BY <1>2 DEF StrictNamed, Records, Marks
<1>6. ASSUME NEW i \in DOMAIN live PROVE live[i] \in [ptr : Strict!Address, size : Size]
  <2>1. live[i] = [ptr |-> live[i].ptr, size |-> live[i].size]
    BY DEF StrictNamed, Records
  <2>2. live[i].ptr \in Address /\ live[i].size \in Size
    BY <1>1, CellsApart
  <2>3. Address = Strict!Address
    BY DEF Address, Strict!Address
  <2> QED
    BY <2>1, <2>2, <2>3
<1> QED
  BY <1>1, <1>3, <1>4, <1>5, <1>6 DEF Strict!TypeOK, Strict!Null

(* What each of the four keeps, for whichever one it is.                   *)
LEMMA FourKeep == Spec => [](OneOfFour /\ BlockHolding /\ FastHolding /\ StrictInv /\ StrictNamed)
BY AlwaysOneOfFour, InitBlock, StepBlock, InitFast, StepFast, InitStrict, StepStrict,
   InitStrictNamed, StepStrictNamed, PTL DEF Spec

(* The bookkeeping of wmem_core: whichever implementation was chosen, its  *)
(* lists hold every block of the OS once, forwards and backwards alike.    *)
THEOREM BooksAlwaysExact == Spec => []BooksExact
<1> DEFINE StrictPart == OfStrict => Strict!ListExact /\ Strict!NoFalseAlarm /\ (~created => heap.os = {})
           SimplePart == OfSimple => Simple!TypeOK /\ Simple!PtrsExact /\ (~created => heap.os = {})
<1>1. (OneOfFour /\ BlockHolding /\ FastHolding /\ StrictInv /\ StrictNamed /\ StrictPart /\ SimplePart)
        => BooksExact
  <2> SUFFICES ASSUME OneOfFour, BlockHolding, FastHolding, StrictInv, StrictNamed, StrictPart, SimplePart
               PROVE  BooksExact
    OBVIOUS
  <2>1. OfBlock => Block!TypeOK /\ Block!BlockListExact /\ Block!FreeListsExact
    BY BlockBooks
  <2>2. OfFast => Fast!TypeOK /\ Fast!ListsExact /\ Fast!PredecessorsRight
    BY FastBooks
  <2>3. OfStrict => Strict!TypeOK
    BY StrictTypes
  <2> QED
    BY <2>1, <2>2, <2>3 DEF BooksExact, TypeOK, OneOfFour
<1>2. Spec => []StrictPart
  BY StrictBooks
<1>3. Spec => []SimplePart
  BY SimpleBooks
<1> HIDE DEF StrictPart, SimplePart
<1> QED
  BY FourKeep, <1>1, <1>2, <1>3, PTL

(* wmem_destroy_allocator: whichever implementation was chosen, free_all   *)
(* and then the cleanup leave the OS nothing.                              *)
THEOREM DestroyReturns == Spec => []DestroyReturnsAll
<1> DEFINE StrictPart == OfStrict => Strict!ListExact /\ Strict!NoFalseAlarm /\ (~created => heap.os = {})
           SimplePart == OfSimple => Simple!TypeOK /\ Simple!PtrsExact /\ (~created => heap.os = {})
<1>1. OneOfFour /\ BlockHolding /\ FastHolding /\ StrictPart /\ SimplePart => DestroyReturnsAll
  <2> SUFFICES ASSUME OneOfFour, BlockHolding, FastHolding, StrictPart, SimplePart, ~created
               PROVE  heap.os = {}
    BY DEF DestroyReturnsAll
  <2>1. OfBlock \/ OfFast \/ OfSimple \/ OfStrict
    BY DEF OneOfFour, OfBlock, OfFast, OfSimple, OfStrict
  <2> QED
    BY <2>1, BlockBooks, FastBooks
<1>2. Spec => []StrictPart
  BY StrictBooks
<1>3. Spec => []SimplePart
  BY SimpleBooks
<1> HIDE DEF StrictPart, SimplePart
<1> QED
  BY FourKeep, <1>1, <1>2, <1>3, PTL

(* wmem_alloc, wmem_realloc and the rest keep the promise of WmemAlloc,    *)
(* whichever implementation is behind them.                                *)
THEOREM AlwaysKeepsPromise == Spec => KeepsPromise
<1>1. Init => OfBlock \/ OfFast \/ OfSimple \/ OfStrict
  BY DEF Init
<1> QED
  BY <1>1, BlockKeepsPromise, FastKeepsPromise, SimpleKeepsPromise, StrictKeepsPromise, PTL DEF Spec

=============================================================================
