--------------------------- MODULE WmemFreeLists ---------------------------
(***************************************************************************)
(* The memory of the wmem block allocator, and the two lists it threads    *)
(* through its free chunks (epan/wmem/wmem_allocator_block.c).             *)
(*                                                                         *)
(* Memory is a function from addresses to cells. An address counts units   *)
(* of WMEM_ALIGN_AMOUNT bytes. A block header, a chunk header and a free   *)
(* header take exactly one unit each, on the 32-bit wasm build (8 bytes)   *)
(* as on 64-bit hosts (16 bytes). The free header of the chunk at address  *)
(* c is the first cell of its data, c + 1: writing there destroys whatever *)
(* header was stored at c + 1, as in the C code. Address 0 is NULL.        *)
(*                                                                         *)
(* An allocator state is a record h with the fields                        *)
(*    mem            the memory                                            *)
(*    block_list     first block of the list of OS-level blocks, or Null   *)
(*    master_head    top chunk of the master stack, or Null                *)
(*    recycler_head  head of the circular recycler, or Null                *)
(*    os             the OS slots that hold a block                        *)
(* Reading a field a cell does not have is an error TLC reports, so that   *)
(* following a stale or overwritten header never goes unnoticed.           *)
(***************************************************************************)
EXTENDS Integers

Null == 0

\* struct _wmem_block_free_t and struct _wmem_block_hdr_t: two pointers.
Links(p, n) == [prev |-> p, next |-> n]

\* struct _wmem_block_chunk_t.
Chunk(prev, last, used, jumbo, len) ==
    [prev |-> prev, last |-> last, used |-> used, jumbo |-> jumbo, len |-> len]

\* WMEM_CHUNK_NEXT, WMEM_CHUNK_PREV.
ChunkNext(h, c) == IF h.mem[c].last THEN Null ELSE c + h.mem[c].len
ChunkPrev(h, c) == IF h.mem[c].prev = 0 THEN Null ELSE c - h.mem[c].prev

\* WMEM_GET_FREE: the free header of a chunk.
GetFree(h, c) == h.mem[c + 1]

\* WMEM_CHUNK_DATA_LEN(chunk) >= sizeof(wmem_block_free_t), in units.
HasRoom(h, c) == h.mem[c].len - 1 >= 1

\* if (p) { WMEM_GET_FREE(p)->prev = c; }
SetPrevOf(h, p, c) == IF p = Null THEN h ELSE [h EXCEPT !.mem[p + 1].prev = c]

-----------------------------------------------------------------------------
(***************************************************************************)
(* The recycler: a circular doubly-linked list.                            *)
(***************************************************************************)

\* Mutant: the list rotates whatever its neighbour's length.
CycleRecycler_Rotates(h) ==
    IF h.recycler_head = Null THEN h
    ELSE [h EXCEPT !.recycler_head = GetFree(h, h.recycler_head).next]

\* The head is kept fixed, and the rest of the list rotates, when its
\* clockwise neighbour n is smaller; otherwise n becomes the head.
CycleRecycler(h) ==
    IF h.recycler_head = Null THEN h
    ELSE LET c == h.recycler_head
             p == GetFree(h, c).prev
             n == GetFree(h, c).next
         IN  IF h.mem[n].len < h.mem[c].len
             THEN LET unlinked == [h EXCEPT !.mem[n + 1].prev = p,
                                            !.mem[p + 1].next = n]
                      nn == GetFree(unlinked, n).next
                  IN  [unlinked EXCEPT !.mem[c + 1] = Links(n, nn),
                                       !.mem[nn + 1].prev = c,
                                       !.mem[n + 1].next = c]
             ELSE [h EXCEPT !.recycler_head = n]

\* A chunk with no room for a free header stays out of every list.
AddToRecycler(h, c) ==
    IF ~HasRoom(h, c) THEN h
    ELSE IF h.recycler_head = Null
    THEN [h EXCEPT !.mem[c + 1] = Links(c, c), !.recycler_head = c]
    ELSE LET head == h.recycler_head
             tail == GetFree(h, head).prev
         IN  [h EXCEPT !.mem[c + 1] = Links(tail, head),
                       !.mem[head + 1].prev = c,
                       !.mem[tail + 1].next = c,
                       !.recycler_head =
                           IF h.mem[c].len > h.mem[head].len THEN c ELSE head]

\* Mutant: the neighbour behind keeps its link to the chunk that leaves.
RemoveFromRecycler_OneWay(h, c) ==
    LET p == GetFree(h, c).prev
        n == GetFree(h, c).next
    IN  IF p = c /\ n = c
        THEN [h EXCEPT !.recycler_head = Null]
        ELSE [h EXCEPT !.mem[p + 1].next = n,
                       !.recycler_head = IF @ = c THEN n ELSE @]

RemoveFromRecycler(h, c) ==
    LET p == GetFree(h, c).prev
        n == GetFree(h, c).next
    IN  IF p = c /\ n = c
        THEN [h EXCEPT !.recycler_head = Null]
        ELSE [h EXCEPT !.mem[p + 1].next = n,
                       !.mem[n + 1].prev = p,
                       !.recycler_head = IF @ = c THEN n ELSE @]

-----------------------------------------------------------------------------
(***************************************************************************)
(* The master list: a stack.                                               *)
(***************************************************************************)

PushMaster(h, c) ==
    LET n == h.master_head
    IN  SetPrevOf([h EXCEPT !.mem[c + 1] = Links(Null, n), !.master_head = c], n, c)

PopMaster(h) ==
    LET n == GetFree(h, h.master_head).next
    IN  SetPrevOf([h EXCEPT !.master_head = n], n, Null)

=============================================================================
