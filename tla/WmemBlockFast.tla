--------------------------- MODULE WmemBlockFast ---------------------------
(***************************************************************************)
(* The fast block allocator, epan/wmem/wmem_allocator_block_fast.c: the    *)
(* allocator behind wmem_packet_scope(). It only ever appends to the first *)
(* block of its list, and free does nothing. An allocation that no block   *)
(* has room for, a jumbo, is a block of its own on a second list.          *)
(*                                                                         *)
(* Sizes are in bytes, positions in units of AlignAmount bytes; a block    *)
(* header, a jumbo header and a chunk header take one unit each. An        *)
(* allocator state is a record with the fields mem and os of WmemOs, and   *)
(* block_list and jumbo_list. Address 0 is NULL.                           *)
(***************************************************************************)
EXTENDS WmemOs, FiniteSets

CONSTANTS Id,            \* names for allocations; bounds how many are live
          Size,          \* the sizes, in bytes, that are asked for
          BlockSize      \* WMEM_BLOCK_SIZE, in units

FastAssumption ==
    /\ BlockSize \in Nat /\ BlockSize >= 3
    /\ SlotSize >= BlockSize
    /\ Size \subseteq 1 .. (SlotSize - 2) * AlignAmount

VARIABLES heap,      \* the allocator and the memory
          live,      \* the allocations handed out: pointer and size of each
          created    \* between wmem_block_fast_allocator_init and its cleanup

vars == <<heap, live, created>>

Null == 0
JumboMagic == -1

\* WMEM_BLOCK_MAX_ALLOC_SIZE.
MaxAllocSize == (BlockSize - 2) * AlignAmount

\* wmem_block_fast_hdr_t, wmem_block_fast_chunk_t, wmem_block_fast_jumbo_t.
Block(next, pos) == [next |-> next, pos |-> pos]
Chunk(len) == [len |-> len]
Jumbo(prev, next) == [prev |-> prev, next |-> next]

IsJumbo(h, ptr) == h.mem[ptr - 1].len = JumboMagic

-----------------------------------------------------------------------------
NewBlock(h) ==
    LET b == Base(NewSlot(h))
    IN  [OsTake(h, NewSlot(h)) EXCEPT !.mem[b] = Block(h.block_list, 1), !.block_list = b]

\* The new block leads to the old head; the old head is not told.
AllocJumbo(h) ==
    LET b == Base(NewSlot(h))
    IN  [OsTake(h, NewSlot(h)) EXCEPT !.mem[b] = Jumbo(Null, h.jumbo_list),
                                      !.mem[b + 1] = Chunk(JumboMagic),
                                      !.jumbo_list = b]

\* The first block has no room for real_size units.
Full(h, real_size) ==
    h.block_list = Null \/ BlockSize - h.mem[h.block_list].pos < real_size

\* Mutant: the chunk's header is not counted.
RealSize_NoHeader(size) == Units(size)

RealSize(size) == Units(size) + 1

\* wmem_block_fast_alloc: the new state and the pointer returned.
FastAlloc(h, size) ==
    IF size > MaxAllocSize
    THEN [heap |-> AllocJumbo(h), ptr |-> Base(NewSlot(h)) + 2]
    ELSE LET h1 == IF Full(h, RealSize(size)) THEN NewBlock(h) ELSE h
             c == h1.block_list + h1.mem[h1.block_list].pos
         IN  [heap |-> [h1 EXCEPT !.mem[c] = Chunk(size),
                                  !.mem[h1.block_list].pos = @ + RealSize(size)],
              ptr |-> c + 1]

\* Bound: an allocation that needs a block finds a free slot.
Serviceable(h, size) ==
    FreeSlots(h) # {} \/ (size <= MaxAllocSize /\ ~Full(h, RealSize(size)))

\* Mutant: the next block is told where this one was.
ReallocJumbo_OldAddress(h, ptr, size, t) ==
    LET h1 == OsRealloc(h, ptr - 2, t, Units(size) + 2)
        b == Base(t)
        p == h1.mem[b].prev
        n == h1.mem[b].next
        h2 == IF p # Null THEN [h1 EXCEPT !.mem[p].next = b] ELSE [h1 EXCEPT !.jumbo_list = b]
    IN  IF n # Null THEN [h2 EXCEPT !.mem[n].prev = ptr - 2] ELSE h2

\* The OS may move the block to slot t; the neighbours it knows of are told.
ReallocJumbo(h, ptr, size, t) ==
    LET h1 == OsRealloc(h, ptr - 2, t, Units(size) + 2)
        b == Base(t)
        p == h1.mem[b].prev
        n == h1.mem[b].next
        h2 == IF p # Null THEN [h1 EXCEPT !.mem[p].next = b] ELSE [h1 EXCEPT !.jumbo_list = b]
    IN  IF n # Null THEN [h2 EXCEPT !.mem[n].prev = b] ELSE h2

\* wmem_block_fast_realloc of a chunk that is not jumbo. What was first asked
\* for stays the chunk's length when it is shrunk.
FastRealloc(h, ptr, size) ==
    IF h.mem[ptr - 1].len < size
    THEN LET new == FastAlloc(h, size)
         IN  [heap |-> CopyUnits(new.heap, new.ptr, ptr, Units(h.mem[ptr - 1].len)),
              ptr |-> new.ptr]
    ELSE [heap |-> h, ptr |-> ptr]

ReallocServiceable(h, ptr, size) == h.mem[ptr - 1].len < size => Serviceable(h, size)

\* while (cur) { nxt = cur->next; wmem_free(NULL, cur); cur = nxt; }
FreeList(h, first) ==
    LET after[k \in 0 .. NumSlots] ==
            IF k = 0 THEN [heap |-> h, cur |-> first]
            ELSE LET w == after[k - 1]
                 IN  IF w.cur = Null THEN w
                     ELSE [heap |-> OsFree(w.heap, w.cur), cur |-> w.heap.mem[w.cur].next]
    IN  after[NumSlots].heap

\* wmem_block_fast_free_all: all blocks but the first, and all jumbos.
FreeAllBlocks(h) ==
    LET b == h.block_list
        h1 == IF b = Null THEN h
              ELSE FreeList([h EXCEPT !.mem[b] = Block(Null, 1)], h.mem[b].next)
    IN  [FreeList(h1, h1.jumbo_list) EXCEPT !.jumbo_list = Null]

\* Mutant: the block that free_all kept is kept on.
Cleanup_KeepsBlock(h) == [h EXCEPT !.block_list = Null]

\* wmem_block_fast_allocator_cleanup: "simply free the first block".
Cleanup(h) ==
    IF h.block_list = Null THEN h
    ELSE [OsFree(h, h.block_list) EXCEPT !.block_list = Null]

-----------------------------------------------------------------------------
BlockList(h) == LET next(b) == h.mem[b].next IN Walk(h.block_list, NumSlots, next, Null)
JumboList(h) == LET next(b) == h.mem[b].next IN Walk(h.jumbo_list, NumSlots, next, Null)

\* The cells that mean something: headers, and what live allocations hold.
Meaningful(h, allocations) ==
    {Base(s) : s \in h.os}
        \cup {allocations[i].ptr - 1 : i \in DOMAIN allocations}
        \cup {b + 1 : b \in {b \in {Base(s) : s \in h.os} : "prev" \in DOMAIN h.mem[b]}}
        \cup UNION {CellsOf(allocations[i]) : i \in DOMAIN allocations}

Forget(h, allocations) == Keep(h, Meaningful(h, allocations))

-----------------------------------------------------------------------------
Init ==
    /\ heap = [mem |-> [a \in Address |-> Junk], os |-> {},
               block_list |-> Null, jumbo_list |-> Null]
    /\ live = << >>
    /\ created = TRUE

\* The user has the allocation i of size bytes at new.ptr, of which the first
\* units hold what they held.
HandedOut(i, size, new, units) ==
    LET r == [ptr |-> new.ptr, size |-> size]
    IN  /\ live' = With(live, i, r)
        /\ heap' = Forget(Write(new.heap, i, r, units), live')
        /\ UNCHANGED created

Alloc(i, size) ==
    /\ created /\ i \notin DOMAIN live
    /\ Serviceable(heap, size)
    /\ HandedOut(i, size, FastAlloc(heap, size), 0)

\* wmem_block_fast_free: "free is NOP".
Free(i) ==
    /\ created /\ i \in DOMAIN live
    /\ live' = Without(live, {i})
    /\ heap' = Forget(heap, live')
    /\ UNCHANGED created

Realloc(i, size) ==
    /\ created /\ i \in DOMAIN live
    /\ ~IsJumbo(heap, live[i].ptr)
    /\ ReallocServiceable(heap, live[i].ptr, size)
    /\ HandedOut(i, size, FastRealloc(heap, live[i].ptr, size), Units(live[i].size))

ReallocOfJumbo(i, size) ==
    /\ created /\ i \in DOMAIN live
    /\ IsJumbo(heap, live[i].ptr)
    /\ \E t \in FreeSlots(heap) \cup {SlotOf(live[i].ptr)} :
          HandedOut(i, size, [heap |-> ReallocJumbo(heap, live[i].ptr, size, t), ptr |-> Base(t) + 2],
                    Units(live[i].size))

FreeAll ==
    /\ created
    /\ live' = << >>
    /\ heap' = Forget(FreeAllBlocks(heap), live')
    /\ UNCHANGED created

\* wmem_destroy_allocator: free_all, then the cleanup.
Destroy ==
    /\ created
    /\ live' = << >>
    /\ heap' = Cleanup(Forget(FreeAllBlocks(heap), live'))
    /\ created' = FALSE

\* wmem_allocator_new: wmem_block_fast_allocator_init.
Create ==
    /\ ~created
    /\ heap' = [heap EXCEPT !.block_list = Null, !.jumbo_list = Null]
    /\ created' = TRUE
    /\ UNCHANGED live

\* wmem_block_fast_gc does nothing.
Calls ==
    \/ \E i \in Id, size \in Size : Alloc(i, size) \/ Realloc(i, size)
    \/ \E i \in Id : Free(i)
    \/ FreeAll \/ Destroy \/ Create

Next == Calls \/ \E i \in Id, size \in Size : ReallocOfJumbo(i, size)

Spec == Init /\ [][Next]_vars

\* The jumbo i is the head of its list, or knows its predecessor. A newer
\* jumbo does not tell the head it replaces.
KnowsPredecessor(i) ==
    LET b == live[i].ptr - 2 IN heap.jumbo_list = b \/ heap.mem[b].prev # Null

\* A user that reallocates no other jumbo.
CarefulNext ==
    \/ Calls
    \/ \E i \in Id, size \in Size :
          ReallocOfJumbo(i, size) /\ KnowsPredecessor(i)

CarefulSpec == Init /\ [][CarefulNext]_vars

-----------------------------------------------------------------------------
TypeOK ==
    /\ created \in BOOLEAN
    /\ heap.os \subseteq Slot
    /\ heap.block_list \in Address \cup {Null}
    /\ heap.jumbo_list \in Address \cup {Null}
    /\ DOMAIN heap.mem = Address
    /\ DOMAIN live \subseteq Id
    /\ \A i \in DOMAIN live : live[i] \in [ptr : Address, size : Size]

\* The two lists hold between them every block the OS gave out, each in one
\* place, and no position is beyond the end of a block: pos is added to
\* without a check once wmem_block_fast_alloc found the block not full.
ListsExact ==
    /\ {Base(s) : s \in heap.os} = BlockList(heap) \cup JumboList(heap)
    /\ BlockList(heap) \cap JumboList(heap) = {}
    /\ \A b \in BlockList(heap) : heap.mem[b].pos \in 1 .. BlockSize

\* A jumbo that knows a predecessor is the successor of that one: what
\* wmem_block_fast_realloc stores in a moved block's neighbours is right
\* wherever it stores something, through every later move.
PredecessorsRight ==
    \A b \in JumboList(heap) :
        LET p == heap.mem[b].prev
        IN  p # Null => p \in JumboList(heap) /\ heap.mem[p].next = b

\* wmem_free_all "frees all the memory allocated in a pool" (wmem_core.h:158):
\* whatever the state, it leaves the OS one block, the first, and no jumbo
\* ("now do the jumbo blocks, freeing all of them",
\* wmem_allocator_block_fast.c:197).
FreeAllFreesAll ==
    LET h == FreeAllBlocks(heap)
    IN  h.os = IF h.block_list = Null THEN {} ELSE {SlotOf(h.block_list)}

=============================================================================
