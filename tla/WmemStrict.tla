----------------------------- MODULE WmemStrict ----------------------------
(***************************************************************************)
(* The strict allocator, epan/wmem/wmem_allocator_strict.c: every          *)
(* allocation is a block of the OS, on a doubly-linked list, with a canary *)
(* before and one after its data. A canary that was written over is found  *)
(* when its block is freed or moved, or by wmem_strict_check_canaries.     *)
(*                                                                         *)
(* The block at b is its header at b, a canary at b + 1, the data from     *)
(* b + 2 on, and a canary behind them. An allocator state is a record with *)
(* the fields mem and os of WmemOs, and blocks, the list. Addresses count  *)
(* units of AlignAmount bytes, as everywhere; a canary takes one of them,  *)
(* and the one behind the data starts where the data's last unit ends.     *)
(***************************************************************************)
EXTENDS WmemOs

CONSTANTS Id,            \* names for allocations; bounds how many are live
          Size           \* the sizes, in bytes, that are asked for

StrictAssumption == Size \subseteq 1 .. (SlotSize - 3) * AlignAmount

VARIABLES heap,      \* the allocator and the memory
          live,      \* the allocations handed out: pointer and size of each
          created,   \* between wmem_strict_allocator_init and its cleanup
          overrun,   \* the live allocations whose user wrote beside the data
          asserted   \* g_assert found a broken canary

vars == <<heap, live, created, overrun, asserted>>

Null == 0
Canary == [canary |-> TRUE]
Header(prev, next, len) == [prev |-> prev, next |-> next, data_len |-> len]

BlockOf(ptr) == ptr - 2
PostCanary(h, b) == b + 2 + Units(h.mem[b].data_len)

\* wmem_strict_block_check_canaries.
CanariesWhole(h, b) ==
    h.mem[b + 1] = Canary /\ h.mem[PostCanary(h, b)] = Canary

-----------------------------------------------------------------------------
\* The new state and the pointer returned.
StrictAlloc(h, size) ==
    LET b == Base(NewSlot(h))
        h1 == IF h.blocks = Null THEN h ELSE [h EXCEPT !.mem[h.blocks].prev = b]
    IN  [heap |-> [OsTake(h1, NewSlot(h)) EXCEPT !.mem[b] = Header(Null, h.blocks, size),
                                                 !.mem[b + 1] = Canary,
                                                 !.mem[b + 2 + Units(size)] = Canary,
                                                 !.blocks = b],
         ptr |-> b + 2]

\* wmem_strict_free of a block whose canaries are whole.
FreeBlock(h, b) ==
    LET p == h.mem[b].prev
        n == h.mem[b].next
        h1 == IF n = Null THEN h ELSE [h EXCEPT !.mem[n].prev = p]
        h2 == IF p = Null THEN [h1 EXCEPT !.blocks = n] ELSE [h1 EXCEPT !.mem[p].next = n]
    IN  OsFree(h2, b)

\* How many units of the block at b a realloc to size copies.
Copied(h, b, size) ==
    Units(IF h.mem[b].data_len > size THEN size ELSE h.mem[b].data_len)

\* Everything up to the free of the old block.
Moved(h, ptr, size) ==
    LET new == StrictAlloc(h, size)
    IN  [heap |-> CopyUnits(new.heap, new.ptr, ptr, Copied(h, BlockOf(ptr), size)),
         ptr |-> new.ptr]

\* wmem_strict_free_all: one round frees the list's head, and the assertion
\* stops it at the first broken canary.
FreeAllBlocks(h) ==
    LET after[k \in 0 .. NumSlots] ==
            IF k = 0 THEN [heap |-> h, asserted |-> FALSE]
            ELSE LET w == after[k - 1]
                     b == w.heap.blocks
                 IN  IF w.asserted \/ b = Null THEN w
                     ELSE IF CanariesWhole(w.heap, b)
                     THEN [w EXCEPT !.heap = FreeBlock(w.heap, b)]
                     ELSE [w EXCEPT !.asserted = TRUE]
    IN  after[NumSlots]

BlockList(h) == LET next(b) == h.mem[b].next IN Walk(h.blocks, NumSlots, next, Null)

\* Mutant: the check stops at the last block, without looking at it.
BrokenCanary_NotLast(h) ==
    \E b \in BlockList(h) : h.mem[b].next # Null /\ ~CanariesWhole(h, b)

\* What the loop of wmem_strict_check_canaries looks for.
BrokenCanary(h) == \E b \in BlockList(h) : ~CanariesWhole(h, b)

-----------------------------------------------------------------------------
Init ==
    /\ heap = [mem |-> [a \in Address |-> Junk], os |-> {}, blocks |-> Null]
    /\ live = << >>
    /\ created = TRUE
    /\ overrun = {}
    /\ asserted = FALSE

\* The user has the allocation i of size units at new.ptr, the first units of
\* which hold what they held.
HandedOut(i, size, new, units) ==
    LET r == [ptr |-> new.ptr, size |-> size]
    IN  /\ live' = With(live, i, r)
        /\ heap' = Write(new.heap, i, r, units)

Alloc(i, size) ==
    /\ created /\ i \notin DOMAIN live
    /\ FreeSlots(heap) # {}
    /\ HandedOut(i, size, StrictAlloc(heap, size), 0)
    /\ UNCHANGED <<created, overrun, asserted>>

Free(i) ==
    /\ created /\ i \in DOMAIN live
    /\ CanariesWhole(heap, BlockOf(live[i].ptr))
    /\ live' = Without(live, {i})
    /\ heap' = FreeBlock(heap, BlockOf(live[i].ptr))
    /\ UNCHANGED <<created, overrun, asserted>>

Realloc(i, size) ==
    /\ created /\ i \in DOMAIN live
    /\ FreeSlots(heap) # {}
    /\ CanariesWhole(heap, BlockOf(live[i].ptr))
    /\ LET new == Moved(heap, live[i].ptr, size)
           freed == [new EXCEPT !.heap = FreeBlock(new.heap, BlockOf(live[i].ptr))]
       IN  HandedOut(i, size, freed, Units(live[i].size))
    /\ UNCHANGED <<created, overrun, asserted>>

\* wmem_strict_free, or the free at the end of wmem_strict_realloc, of a block
\* with a broken canary. The program ends: what realloc did before is not kept.
FreeAsserts(i) ==
    /\ created /\ i \in DOMAIN live
    /\ ~CanariesWhole(heap, BlockOf(live[i].ptr))
    /\ asserted' = TRUE
    /\ UNCHANGED <<heap, live, created, overrun>>

\* wmem_strict_check_canaries, between two calls of the others.
CheckCanaries ==
    /\ created
    /\ asserted' = BrokenCanary(heap)
    /\ UNCHANGED <<heap, live, created, overrun>>

\* A failed assertion is the end of the program: what was freed before it is
\* nobody's any more, and the state keeps what there was when free_all began.
FreeAll ==
    /\ created
    /\ LET done == FreeAllBlocks(heap)
       IN  /\ heap' = IF done.asserted THEN heap ELSE done.heap
           /\ live' = IF done.asserted THEN live ELSE << >>
           /\ asserted' = done.asserted
    /\ UNCHANGED <<created, overrun>>

\* wmem_destroy_allocator: free_all, then the cleanup.
Destroy ==
    /\ created
    /\ LET done == FreeAllBlocks(heap)
       IN  /\ heap' = IF done.asserted THEN heap ELSE done.heap
           /\ live' = IF done.asserted THEN live ELSE << >>
           /\ asserted' = done.asserted
           /\ created' = done.asserted
    /\ UNCHANGED overrun

\* wmem_allocator_new: wmem_strict_allocator_init.
Create ==
    /\ ~created
    /\ heap' = [heap EXCEPT !.blocks = Null]
    /\ created' = TRUE
    /\ UNCHANGED <<live, overrun, asserted>>

\* The user of i writes one unit before its data, or behind them.
Overrun(i) ==
    /\ created /\ i \in DOMAIN live
    /\ \E a \in {live[i].ptr - 1, live[i].ptr + Units(live[i].size)} :
          heap' = [heap EXCEPT !.mem[a] = Data(i)]
    /\ overrun' = overrun \cup {i}
    /\ UNCHANGED <<live, created, asserted>>

\* wmem_strict_gc does nothing. A failed assertion ends the program.
Next ==
    /\ ~asserted
    /\ \/ \E i \in Id, size \in Size : Alloc(i, size) \/ Realloc(i, size)
       \/ \E i \in Id : Free(i) \/ FreeAsserts(i) \/ Overrun(i)
       \/ CheckCanaries \/ FreeAll \/ Destroy \/ Create

Spec == Init /\ [][Next]_vars

-----------------------------------------------------------------------------
TypeOK ==
    /\ created \in BOOLEAN /\ asserted \in BOOLEAN
    /\ heap.os \subseteq Slot
    /\ heap.blocks \in Address \cup {Null}
    /\ DOMAIN heap.mem = Address
    /\ DOMAIN live \subseteq Id /\ overrun \subseteq Id
    /\ \A i \in DOMAIN live : live[i] \in [ptr : Address, size : Size]

\* The list is linked both ways and holds every block of the OS. Those are
\* the blocks of live allocations: free_all, which unlinks heads until there
\* is none, frees everything and frees it once.
ListExact ==
    /\ BlockList(heap) = {Base(s) : s \in heap.os}
    /\ \A b \in BlockList(heap) :
          LET n == heap.mem[b].next IN n # Null => heap.mem[n].prev = b
    /\ BlockList(heap) = {BlockOf(live[i].ptr) : i \in DOMAIN live}

\* A canary is broken, and an assertion fails, only after a user wrote beside
\* its data: no alloc, free or realloc breaks one.
NoFalseAlarm == (asserted \/ BrokenCanary(heap)) => overrun # {}

=============================================================================
