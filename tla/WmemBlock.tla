----------------------------- MODULE WmemBlock -----------------------------
(***************************************************************************)
(* The wmem block allocator, epan/wmem/wmem_allocator_block.c: the         *)
(* allocator behind wmem_file_scope() and the pinfo pools. It carves       *)
(* allocations out of large OS-level blocks, splits and merges chunks, and *)
(* keeps free chunks on the master stack or in the recycler.               *)
(*                                                                         *)
(* The pointer manipulations are those of the code, on the memory of       *)
(* WmemFreeLists. Sizes are in bytes, chunk lengths in units of            *)
(* AlignAmount bytes. The OS and the user are those of WmemOs; an          *)
(* operation that would need one more slot than there are is not enabled.  *)
(***************************************************************************)
EXTENDS WmemFreeLists, WmemOs, FiniteSets

CONSTANTS Id,            \* names for allocations; bounds how many are live
          Size,          \* the sizes, in bytes, that are asked for
          BlockSize      \* WMEM_BLOCK_SIZE, in units

ASSUME BlockAssumption ==
    /\ BlockSize \in Nat /\ BlockSize >= 4
    /\ SlotSize >= BlockSize
    /\ Size \subseteq 1 .. (SlotSize - 2) * AlignAmount

VARIABLES heap,      \* the allocator and the memory, see WmemFreeLists
          live,      \* the allocations handed out: pointer and size of each
          created    \* between wmem_block_allocator_init and its cleanup

vars == <<heap, live, created>>

\* A chunk's WMEM_CHUNK_DATA_LEN, in bytes.
DataLen(h, c) == (h.mem[c].len - 1) * AlignAmount

\* WMEM_BLOCK_MAX_ALLOC_SIZE.
MaxAllocSize == (BlockSize - 2) * AlignAmount

-----------------------------------------------------------------------------
(***************************************************************************)
(* Chunk helpers.                                                          *)
(***************************************************************************)

\* Mutant: the following chunk is not told.
FixNextPrev_Forgotten(h, c) == h

\* if (!chunk->last) { WMEM_CHUNK_NEXT(chunk)->prev = chunk->len; }
FixNextPrev(h, c) ==
    IF h.mem[c].last THEN h
    ELSE [h EXCEPT !.mem[ChunkNext(h, c)].prev = h.mem[c].len]

IsFree(h, c) == c # Null /\ ~h.mem[c].used

\* Chunk c takes over its right neighbour r.
Absorb(h, c, r) == [h EXCEPT !.mem[c].len = @ + h.mem[r].len,
                             !.mem[c].last = h.mem[r].last]

\* Merges the free chunk c0 with its free neighbours, and files the result.
MergeFree(h, c0) ==
    LET r == ChunkNext(h, c0)
        right_free == IsFree(h, r) /\ HasRoom(h, r)
        h1 == IF IsFree(h, r) THEN Absorb(h, c0, r) ELSE h
        l == ChunkPrev(h1, c0)
        left_free == IsFree(h1, l) /\ HasRoom(h1, l)
        c == IF IsFree(h1, l) THEN l ELSE c0
        h2 == IF c = l THEN Absorb(h1, l, c0) ELSE h1
        h3 == FixNextPrev(h2, c)
    IN  IF right_free /\ r = h3.master_head
        THEN LET h4 == IF left_free THEN RemoveFromRecycler(h3, l) ELSE h3
                 n == GetFree(h4, r).next
             IN  SetPrevOf([h4 EXCEPT !.mem[c + 1] = Links(Null, n),
                                      !.master_head = c], n, c)
        ELSE LET h4 == IF right_free THEN RemoveFromRecycler(h3, r) ELSE h3
             IN  IF left_free THEN h4 ELSE AddToRecycler(h4, c)

\* The free header of c moves to extra, in whichever list c is.
MoveFreeHeader(h, c, extra) ==
    LET old == GetFree(h, c)
    IN  IF h.master_head = c
        THEN SetPrevOf([h EXCEPT !.mem[extra + 1] = old, !.master_head = extra],
                       old.next, extra)
        ELSE LET moved == IF old.prev = c
                          THEN [h EXCEPT !.mem[extra + 1] = Links(extra, extra)]
                          ELSE [h EXCEPT !.mem[extra + 1] = old,
                                         !.mem[old.prev + 1].next = extra,
                                         !.mem[old.next + 1].prev = extra]
             IN  [moved EXCEPT !.recycler_head = IF @ = c THEN extra ELSE @]

\* c ends where extra begins, and extra is the rest of it, unused.
CutChunk(h, c, aligned_size) ==
    [h EXCEPT !.mem[c].len = aligned_size,
              !.mem[c].last = FALSE,
              !.mem[c + aligned_size] =
                  Chunk(aligned_size, h.mem[c].last, FALSE, FALSE, h.mem[c].len - aligned_size)]

\* The free header is copied before extra's chunk header is written: when
\* size is 0 the two overlap.
SplitFreeChunk(h, c, size) ==
    LET aligned_size == Units(size) + 1
        extra == c + aligned_size
    IN  IF h.mem[c].len - 1 < aligned_size + 1
        THEN IF c = h.master_head THEN PopMaster(h)
             ELSE IF HasRoom(h, c) THEN RemoveFromRecycler(h, c)
             ELSE h
        ELSE FixNextPrev(CutChunk(MoveFreeHeader(h, c, extra), c, aligned_size), extra)

SplitUsedChunk(h, c, size) ==
    LET aligned_size == Units(size) + 1
        extra == c + aligned_size
    IN  IF aligned_size > h.mem[c].len - 1
        THEN h
        ELSE MergeFree(FixNextPrev(CutChunk(h, c, aligned_size), extra), extra)

-----------------------------------------------------------------------------
(***************************************************************************)
(* Block helpers. The header of the block at b is the cell b, its first    *)
(* chunk is at b + 1.                                                      *)
(***************************************************************************)
AddToBlockList(h, b) ==
    LET n == h.block_list
        linked == [h EXCEPT !.mem[b] = Links(Null, n), !.block_list = b]
    IN  IF n = Null THEN linked ELSE [linked EXCEPT !.mem[n].prev = b]

RemoveFromBlockList(h, b) ==
    LET p == h.mem[b].prev
        n == h.mem[b].next
        h1 == IF p # Null THEN [h EXCEPT !.mem[p].next = n] ELSE [h EXCEPT !.block_list = n]
    IN  IF n # Null THEN [h1 EXCEPT !.mem[n].prev = p] ELSE h1

InitBlock(h, b) ==
    PushMaster([h EXCEPT !.mem[b + 1] = Chunk(0, TRUE, FALSE, FALSE, BlockSize - 1)], b + 1)

NewBlock(h) ==
    LET s == NewSlot(h)
    IN  InitBlock(AddToBlockList(OsTake(h, s), Base(s)), Base(s))

-----------------------------------------------------------------------------
(***************************************************************************)
(* Jumbo allocations: one block of its own each, whose only chunk is used  *)
(* and of length 0.                                                        *)
(***************************************************************************)
AllocJumbo(h) ==
    LET s == NewSlot(h)
        b == Base(s)
    IN  [AddToBlockList(OsTake(h, s), b) EXCEPT
            !.mem[b + 1] = Chunk(0, TRUE, TRUE, TRUE, 0)]

FreeJumbo(h, c) == OsFree(RemoveFromBlockList(h, c - 1), c - 1)

\* The OS may move the block to slot t; its neighbours are told.
ReallocJumbo(h, c, size, t) ==
    LET h1 == OsRealloc(h, c - 1, t, Units(size) + 2)
        b == Base(t)
        p == h1.mem[b].prev
        n == h1.mem[b].next
        h2 == IF n # Null THEN [h1 EXCEPT !.mem[n].prev = b] ELSE h1
    IN  IF p # Null THEN [h2 EXCEPT !.mem[p].next = b] ELSE [h2 EXCEPT !.block_list = b]

-----------------------------------------------------------------------------
(***************************************************************************)
(* The API: wmem_block_alloc, _free, _realloc, _free_all, _gc. The data    *)
(* pointer of the chunk at c is c + 1.                                     *)
(***************************************************************************)
FromRecycler(h, size) ==
    h.recycler_head # Null /\ DataLen(h, h.recycler_head) >= size

\* The master's head is too small: it is moved to the recycler.
RecycleMaster(h, size) ==
    IF h.master_head # Null /\ DataLen(h, h.master_head) < size
    THEN AddToRecycler(PopMaster(h), h.master_head)
    ELSE h

\* Mutant: the exhausted head stays on the master stack, below the new block.
WithMaster_NoRecycle(h, size) ==
    IF h.master_head = Null \/ DataLen(h, h.master_head) < size THEN NewBlock(h) ELSE h

WithMaster(h, size) ==
    LET h1 == RecycleMaster(h, size)
    IN  IF h1.master_head = Null THEN NewBlock(h1) ELSE h1

\* wmem_block_alloc: the new state and the pointer returned.
BlockAlloc(h, size) ==
    IF size > MaxAllocSize
    THEN [heap |-> AllocJumbo(h), ptr |-> Base(NewSlot(h)) + 2]
    ELSE LET h1 == IF FromRecycler(h, size) THEN h ELSE WithMaster(h, size)
             c == IF FromRecycler(h, size) THEN h.recycler_head ELSE h1.master_head
             h2 == CycleRecycler(SplitFreeChunk(h1, c, size))
         IN  [heap |-> [h2 EXCEPT !.mem[c].used = TRUE], ptr |-> c + 1]

\* Bound: an allocation that needs a block finds a free slot.
Serviceable(h, size) ==
    \/ FreeSlots(h) # {}
    \/ /\ size <= MaxAllocSize
       /\ FromRecycler(h, size) \/ RecycleMaster(h, size).master_head # Null

BlockFree(h, ptr) ==
    LET c == ptr - 1
    IN  IF h.mem[c].jumbo
        THEN FreeJumbo(h, c)
        ELSE CycleRecycler(MergeFree([h EXCEPT !.mem[c].used = FALSE], c))

\* The next chunk is free and large enough to grow into. The comparison is
\* strict: a neighbour that would fit exactly is not used.
CanGrow(h, c, size) ==
    LET r == ChunkNext(h, c)
    IN  IsFree(h, r) /\ size < DataLen(h, c) + h.mem[r].len * AlignAmount

\* Split the neighbour, then merge the left half of it into c. The split's
\* chunk header becomes data, hence the size asked for is one header less.
GrowInPlace(h, c, size) ==
    LET r == ChunkNext(h, c)
        missing == size - DataLen(h, c)
        split_size == IF missing < AlignAmount THEN 0 ELSE missing - AlignAmount
    IN  CycleRecycler(FixNextPrev(Absorb(SplitFreeChunk(h, r, split_size), c, r), c))

\* Mutant: the old chunk is freed before it is copied.
MoveAllocation_FreesFirst(h, ptr, size) ==
    LET units == h.mem[ptr - 1].len - 1
        new == BlockAlloc(BlockFree(h, ptr), size)
    IN  [heap |-> CopyUnits(new.heap, new.ptr, ptr, units), ptr |-> new.ptr]

MoveAllocation(h, ptr, size) ==
    LET new == BlockAlloc(h, size)
        copied == CopyUnits(new.heap, new.ptr, ptr, new.heap.mem[ptr - 1].len - 1)
    IN  [heap |-> BlockFree(copied, ptr), ptr |-> new.ptr]

\* wmem_block_realloc of a chunk that is not jumbo.
BlockRealloc(h, ptr, size) ==
    LET c == ptr - 1
    IN  IF size > DataLen(h, c)
        THEN IF CanGrow(h, c, size)
             THEN [heap |-> GrowInPlace(h, c, size), ptr |-> ptr]
             ELSE MoveAllocation(h, ptr, size)
        ELSE IF size < DataLen(h, c)
        THEN [heap |-> CycleRecycler(SplitUsedChunk(h, c, size)), ptr |-> ptr]
        ELSE [heap |-> h, ptr |-> ptr]

ReallocServiceable(h, ptr, size) ==
    size > DataLen(h, ptr - 1) =>
        CanGrow(h, ptr - 1, size) \/ Serviceable(h, size)

\* The two loops over the block list, one block per round; cur is the block
\* the next round looks at.
FreeAllRound(w) ==
    LET b == w.cur
    IN  IF b = Null THEN w
        ELSE IF w.heap.mem[b + 1].jumbo
        THEN LET h1 == RemoveFromBlockList(w.heap, b)
             IN  [heap |-> OsFree(h1, b), cur |-> h1.mem[b].next]
        ELSE LET h1 == InitBlock(w.heap, b)
             IN  [heap |-> h1, cur |-> h1.mem[b].next]

FreeAllBlocks(h) ==
    LET start == [heap |-> [h EXCEPT !.master_head = Null, !.recycler_head = Null],
                  cur |-> h.block_list]
        after[n \in 0 .. NumSlots] == IF n = 0 THEN start ELSE FreeAllRound(after[n - 1])
    IN  after[NumSlots].heap

\* Unlinks the chunk of a wholly unused block from the list it is in, and
\* returns the block to the OS.
ReleaseBlock(h, b) ==
    LET c == b + 1
        n == GetFree(h, c).next
        h1 == SetPrevOf(h, n, GetFree(h, c).prev)
        p == GetFree(h1, c).prev
        h2 == IF p = Null THEN h1 ELSE [h1 EXCEPT !.mem[p + 1].next = GetFree(h1, c).next]
        next == GetFree(h2, c).next
        h3 == IF h2.recycler_head = c
              THEN [h2 EXCEPT !.recycler_head = IF next = c THEN Null ELSE next]
              ELSE IF h2.master_head = c THEN [h2 EXCEPT !.master_head = next]
              ELSE h2
    IN  OsFree(h3, b)

\* Mutant: a block counts as unused when its first chunk is.
GcRound_FirstOnly(w) ==
    IF w.cur = Null THEN w
    ELSE LET c == w.heap.mem[w.cur + 1]
         IN  [heap |-> IF ~c.jumbo /\ ~c.used
                       THEN ReleaseBlock(w.heap, w.cur)
                       ELSE AddToBlockList(w.heap, w.cur),
              cur |-> w.heap.mem[w.cur].next]

GcRound(w) ==
    IF w.cur = Null THEN w
    ELSE LET c == w.heap.mem[w.cur + 1]
         IN  [heap |-> IF ~c.jumbo /\ ~c.used /\ c.last
                       THEN ReleaseBlock(w.heap, w.cur)
                       ELSE AddToBlockList(w.heap, w.cur),
              cur |-> w.heap.mem[w.cur].next]

GcBlocks(h) ==
    LET start == [heap |-> [h EXCEPT !.block_list = Null], cur |-> h.block_list]
        after[n \in 0 .. NumSlots] == IF n = 0 THEN start ELSE GcRound(after[n - 1])
    IN  after[NumSlots].heap

-----------------------------------------------------------------------------
(***************************************************************************)
(* Walks over the blocks and lists of a state, for the properties.         *)
(***************************************************************************)
Blocks(h) == {Base(s) : s \in h.os}

IsJumbo(h, b) == h.mem[b + 1].jumbo

ChunksOf(h, b) ==
    LET next(c) == ChunkNext(h, c) IN Walk(b + 1, BlockSize, next, Null)

Chunks(h) == UNION {ChunksOf(h, b) : b \in {b \in Blocks(h) : ~IsJumbo(h, b)}}

BlockList(h) ==
    LET next(b) == h.mem[b].next IN Walk(h.block_list, NumSlots, next, Null)

MaxChunks == NumSlots * BlockSize

MasterList(h) ==
    LET next(c) == GetFree(h, c).next IN Walk(h.master_head, MaxChunks, next, Null)

Recycler(h) ==
    LET next(c) == GetFree(h, c).next IN Walk(h.recycler_head, MaxChunks, next, Null)

-----------------------------------------------------------------------------
(***************************************************************************)
(* The specification: one user (the dissection engine is single-threaded)  *)
(* calls the API in any order. It writes its mark over an allocation as    *)
(* soon as it has it, where a realloc did not already put what it held.    *)
(***************************************************************************)
\* The cells that mean something: headers of blocks and chunks, free headers
\* and what live allocations hold.
Meaningful(h, allocations) ==
    LET chunks == Chunks(h)
    IN  Blocks(h) \cup {b + 1 : b \in Blocks(h)} \cup chunks
            \cup {c + 1 : c \in {c \in chunks : IsFree(h, c) /\ HasRoom(h, c)}}
            \cup UNION {CellsOf(allocations[i]) : i \in DOMAIN allocations}

Forget(h, allocations) == Keep(h, Meaningful(h, allocations))

Init ==
    /\ heap = [mem |-> [a \in Address |-> Junk], block_list |-> Null,
               master_head |-> Null, recycler_head |-> Null, os |-> {}]
    /\ live = << >>
    /\ created = TRUE

\* wmem_alloc
Alloc(i, size) ==
    /\ created /\ i \notin DOMAIN live
    /\ Serviceable(heap, size)
    /\ LET new == BlockAlloc(heap, size)
           r == [ptr |-> new.ptr, size |-> size]
       IN  /\ live' = With(live, i, r)
           /\ heap' = Forget(Write(new.heap, i, r, 0), live')
    /\ UNCHANGED created

\* wmem_free
Free(i) ==
    /\ created /\ i \in DOMAIN live
    /\ live' = Without(live, {i})
    /\ heap' = Forget(BlockFree(heap, live[i].ptr), live')
    /\ UNCHANGED created

\* The effect of a realloc of i to size, when new is the state and the
\* pointer it results in.
Reallocated(i, size, new) ==
    LET r == [ptr |-> new.ptr, size |-> size]
    IN  /\ live' = With(live, i, r)
        /\ heap' = Forget(Write(new.heap, i, r, Units(live[i].size)), live')
        /\ UNCHANGED created

\* wmem_realloc
Realloc(i, size) ==
    /\ created /\ i \in DOMAIN live
    /\ ~heap.mem[live[i].ptr - 1].jumbo
    /\ ReallocServiceable(heap, live[i].ptr, size)
    /\ Reallocated(i, size, BlockRealloc(heap, live[i].ptr, size))

\* wmem_realloc of a jumbo chunk; the OS keeps the block or moves it.
ReallocOfJumbo(i, size) ==
    /\ created /\ i \in DOMAIN live
    /\ heap.mem[live[i].ptr - 1].jumbo
    /\ \E t \in FreeSlots(heap) \cup {SlotOf(live[i].ptr)} :
          Reallocated(i, size,
              [heap |-> ReallocJumbo(heap, live[i].ptr - 1, size, t), ptr |-> Base(t) + 2])

\* wmem_free_all
FreeAll ==
    /\ created
    /\ live' = << >>
    /\ heap' = Forget(FreeAllBlocks(heap), live')
    /\ UNCHANGED created

\* wmem_gc
Gc ==
    /\ created
    /\ heap' = GcBlocks(heap)
    /\ UNCHANGED <<live, created>>

\* wmem_destroy_allocator: free_all, then the cleanup, which is a gc.
Destroy ==
    /\ created
    /\ live' = << >>
    /\ heap' = GcBlocks(Forget(FreeAllBlocks(heap), live'))
    /\ created' = FALSE

\* wmem_allocator_new: wmem_block_allocator_init.
Create ==
    /\ ~created
    /\ heap' = [heap EXCEPT !.block_list = Null, !.master_head = Null, !.recycler_head = Null]
    /\ created' = TRUE
    /\ UNCHANGED live

Next ==
    \/ \E i \in Id, size \in Size :
          Alloc(i, size) \/ Realloc(i, size) \/ ReallocOfJumbo(i, size)
    \/ \E i \in Id : Free(i)
    \/ FreeAll \/ Gc \/ Destroy \/ Create

Spec == Init /\ [][Next]_vars

-----------------------------------------------------------------------------
TypeOK ==
    /\ created \in BOOLEAN
    /\ heap.os \subseteq Slot
    /\ heap.block_list \in Address \cup {Null}
    /\ heap.master_head \in Address \cup {Null}
    /\ heap.recycler_head \in Address \cup {Null}
    /\ DOMAIN heap.mem = Address
    /\ DOMAIN live \subseteq Id
    /\ \A i \in DOMAIN live : live[i] \in [ptr : Address, size : Size]

\* The block list holds every block the OS gave out, is linked both ways and
\* starts at the block with no predecessor (wmem_block_verify).
BlockListExact ==
    LET list == BlockList(heap)
    IN  /\ list = Blocks(heap)
        /\ heap.block_list # Null => heap.mem[heap.block_list].prev = Null
        /\ \A b \in list : heap.mem[b].next # Null => heap.mem[heap.mem[b].next].prev = b

\* The chunks of a block tile it, and each one knows the length of the one
\* before it (wmem_block_verify_block).
BlocksTiled ==
    \A b \in {b \in Blocks(heap) : ~IsJumbo(heap, b)} :
        LET chunks == ChunksOf(heap, b)
        IN  /\ heap.mem[b + 1].prev = 0
            /\ \A c \in chunks :
                  LET n == ChunkNext(heap, c)
                  IN  /\ heap.mem[c].len >= 1 /\ ~heap.mem[c].jumbo
                      /\ IF n = Null THEN c + heap.mem[c].len = b + BlockSize
                                     ELSE heap.mem[n].prev = heap.mem[c].len

\* The master list and the recycler are linked both ways and hold between
\* them every free chunk that has room for a free header, each once
\* (wmem_block_verify_master_list, wmem_block_verify_recycler and the sum
\* wmem_block_verify compares).
FreeListsExact ==
    LET master == MasterList(heap)
        recycler == Recycler(heap)
    IN  /\ master \cup recycler = {c \in Chunks(heap) : IsFree(heap, c) /\ HasRoom(heap, c)}
        /\ master \cap recycler = {}
        /\ heap.master_head # Null => GetFree(heap, heap.master_head).prev = Null
        /\ \A c \in master :
              LET n == GetFree(heap, c).next IN n # Null => GetFree(heap, n).prev = c
        /\ \A c \in recycler :
              /\ GetFree(heap, GetFree(heap, c).next).prev = c
              /\ GetFree(heap, GetFree(heap, c).prev).next = c

\* "Induction can show that applying this operation consistently prevents us
\* ever having consecutive free chunks" (merging on free, lines 78-82): no
\* free chunk follows another, after a split, a realloc or a gc either.
NoConsecutiveFree ==
    \A c \in Chunks(heap) : IsFree(heap, c) => ~IsFree(heap, ChunkNext(heap, c))

\* The chunks of a block, from its first to its last: nothing between them,
\* nothing over them, and no free space in more pieces than need be.
ChunksExact == BlocksTiled /\ NoConsecutiveFree

\* Every chunk of the master list but its head can serve any request that is
\* not jumbo, which wmem_block_alloc relies on when it pops the head and
\* takes the next chunk without looking at its length.
MasterServesAny ==
    \A c \in MasterList(heap) \ {heap.master_head} : DataLen(heap, c) >= MaxAllocSize

\* Every live allocation sits in a used chunk, or jumbo block, that has room
\* for it, and still holds what its user wrote: no header, free link or copy
\* of the allocator ever went over it.
LiveIntact ==
    \A i \in DOMAIN live :
        LET r == live[i]
            c == r.ptr - 1
        IN  /\ heap.mem[c].used
            /\ heap.mem[c].jumbo \/ DataLen(heap, c) >= r.size
            /\ \A a \in CellsOf(r) : heap.mem[a] = Data(i)

\* A chunk is in use only on behalf of a live allocation: free, realloc and
\* the splits lose no memory.
NothingLeaks ==
    LET inUse == {c \in Chunks(heap) : heap.mem[c].used}
                    \cup {b + 1 : b \in {b \in Blocks(heap) : IsJumbo(heap, b)}}
    IN  inUse = {live[i].ptr - 1 : i \in DOMAIN live}

\* What is allocated, for its users and for the allocator: the same.
AllocationsExact == LiveIntact /\ NothingLeaks

\* A recycler whose head is its largest chunk keeps such a head when cycled,
\* and n rounds over n chunks bring the largest one to the head (lines
\* 112-117: "once the largest chunk is at the head, it remains at the head",
\* "n iterations guarantees that the largest chunk will be the head").
RecyclerSettles ==
    LET n == Cardinality(Recycler(heap))
        after[k \in 0 .. n + 1] == IF k = 0 THEN heap ELSE CycleRecycler(after[k - 1])
        largest(h) == \A c \in Recycler(h) : h.mem[c].len <= h.mem[h.recycler_head].len
    IN  n > 0 => /\ largest(after[n])
                 /\ \A k \in 0 .. n : largest(after[k]) => largest(after[k + 1])

=============================================================================
