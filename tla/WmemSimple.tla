----------------------------- MODULE WmemSimple ----------------------------
(***************************************************************************)
(* The simple allocator, epan/wmem/wmem_allocator_simple.c: every          *)
(* allocation is a block of the OS, and an array remembers the pointers.   *)
(*                                                                         *)
(* An allocator state is a record with the fields mem and os of WmemOs,    *)
(* and ptrs, count and size: the array (from index 0 on), how many of its  *)
(* entries are in use, and how many it has. Address 0 is NULL.             *)
(***************************************************************************)
EXTENDS WmemOs, FiniteSets, FiniteSetsExt

CONSTANTS Id,             \* names for allocations; bounds how many are live
          Size,           \* the sizes, in bytes, that are asked for
          DefaultAllocs   \* DEFAULT_ALLOCS

SimpleAssumption ==
    /\ DefaultAllocs \in Nat \ {0}
    /\ Size \subseteq 1 .. SlotSize * AlignAmount

VARIABLES heap,      \* the allocator and the memory
          live,      \* the allocations handed out: pointer and size of each
          created    \* between wmem_simple_allocator_init and its cleanup

vars == <<heap, live, created>>

Null == 0

-----------------------------------------------------------------------------

\* A full array is reallocated at twice its size.
WithRoom(h) ==
    IF h.count = h.size
    THEN [h EXCEPT !.size = 2 * @,
                   !.ptrs = [k \in 0 .. 2 * h.size - 1 |-> IF k < h.size THEN @[k] ELSE Null]]
    ELSE h

\* The new state and the pointer returned.
SimpleAlloc(h, size) ==
    LET h1 == WithRoom(h)
        p == Base(NewSlot(h1))
    IN  [heap |-> [OsTake(h1, NewSlot(h1)) EXCEPT !.ptrs[h1.count] = p, !.count = @ + 1],
         ptr |-> p]

\* Where ptr is among the first n entries. The loops run downwards, and run
\* into g_assert_not_reached() when it is nowhere: TLC would stop at the Max of
\* an empty set.
Places(h, ptr, n) == {k \in 0 .. n - 1 : h.ptrs[k] = ptr}

\* The last entry moves to where ptr was.
SimpleFree(h, ptr) ==
    LET k == Max(Places(h, ptr, h.count))
    IN  [OsFree(h, ptr) EXCEPT !.count = @ - 1, !.ptrs[k] = h.ptrs[h.count - 1]]

\* The OS may move the block to slot t.
SimpleRealloc(h, ptr, size, t) ==
    LET k == Max(Places(h, ptr, h.count))
    IN  [OsRealloc(h, ptr, t, Units(size)) EXCEPT !.ptrs[k] = Base(t)]

FreeAllPtrs(h) ==
    LET after[k \in 0 .. h.count] ==
            IF k = 0 THEN h ELSE OsFree(after[k - 1], h.ptrs[k - 1])
    IN  [after[h.count] EXCEPT !.count = 0]

NewAllocator(h) ==
    [h EXCEPT !.ptrs = [k \in 0 .. DefaultAllocs - 1 |-> Null],
              !.count = 0, !.size = DefaultAllocs]

-----------------------------------------------------------------------------
Init ==
    /\ heap = NewAllocator([mem |-> [a \in Address |-> Junk], os |-> {},
                            ptrs |-> << >>, count |-> 0, size |-> 0])
    /\ live = << >>
    /\ created = TRUE

\* Only what live allocations hold means anything.
Forget(h, allocations) ==
    Keep(h, UNION {CellsOf(allocations[i]) : i \in DOMAIN allocations})

HandedOut(i, size, new, units) ==
    LET r == [ptr |-> new.ptr, size |-> size]
    IN  /\ live' = With(live, i, r)
        /\ heap' = Forget(Write(new.heap, i, r, units), live')
        /\ UNCHANGED created

Alloc(i, size) ==
    /\ created /\ i \notin DOMAIN live
    /\ FreeSlots(heap) # {}
    /\ HandedOut(i, size, SimpleAlloc(heap, size), 0)

Free(i) ==
    /\ created /\ i \in DOMAIN live
    /\ live' = Without(live, {i})
    /\ heap' = Forget(SimpleFree(heap, live[i].ptr), live')
    /\ UNCHANGED created

Realloc(i, size) ==
    /\ created /\ i \in DOMAIN live
    /\ \E t \in FreeSlots(heap) \cup {SlotOf(live[i].ptr)} :
          HandedOut(i, size,
              [heap |-> SimpleRealloc(heap, live[i].ptr, size, t), ptr |-> Base(t)],
              Units(live[i].size))

FreeAll ==
    /\ created
    /\ live' = << >>
    /\ heap' = Forget(FreeAllPtrs(heap), live')
    /\ UNCHANGED created

\* wmem_destroy_allocator: free_all, then the cleanup frees the array.
Destroy ==
    /\ created
    /\ live' = << >>
    /\ heap' = Forget(FreeAllPtrs(heap), live')
    /\ created' = FALSE

\* wmem_allocator_new: wmem_simple_allocator_init.
Create ==
    /\ ~created
    /\ heap' = NewAllocator(heap)
    /\ created' = TRUE
    /\ UNCHANGED live

\* wmem_simple_gc does nothing.
Next ==
    \/ \E i \in Id, size \in Size : Alloc(i, size) \/ Realloc(i, size)
    \/ \E i \in Id : Free(i)
    \/ FreeAll \/ Destroy \/ Create

Spec == Init /\ [][Next]_vars

-----------------------------------------------------------------------------
TypeOK ==
    /\ created \in BOOLEAN
    /\ heap.os \subseteq Slot
    /\ heap.size \in Nat /\ heap.count \in 0 .. heap.size
    /\ heap.ptrs \in [0 .. heap.size - 1 -> Address \cup {Null}]
    /\ DOMAIN heap.mem = Address
    /\ DOMAIN live \subseteq Id
    /\ \A i \in DOMAIN live : live[i] \in [ptr : Address, size : Size]

\* The part of the array in use names every live allocation and every block
\* of the OS once, through the swaps of free, the moves of realloc and the
\* growing of the array: free and realloc find what they are given (they
\* assert it), and free_all frees each block once.
PtrsExact ==
    LET used == {heap.ptrs[k] : k \in 0 .. heap.count - 1}
    IN  /\ used = {live[i].ptr : i \in DOMAIN live}
        /\ used = {Base(s) : s \in heap.os}
        /\ heap.count = Cardinality(DOMAIN live)

=============================================================================
