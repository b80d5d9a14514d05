------------------------------ MODULE WmemCore -----------------------------
(***************************************************************************)
(* epan/wmem/wmem_core.c: an allocator is a table of functions, filled in  *)
(* by one of four implementations when wmem_allocator_new is called. Its   *)
(* users see wmem_alloc, wmem_realloc, wmem_free, wmem_free_all, wmem_gc   *)
(* and wmem_destroy_allocator only, and rely on WmemAlloc.                 *)
(*                                                                         *)
(* The cases wmem_core.c decides itself change nothing (an alloc of no     *)
(* bytes, a free of NULL) or are another call (a realloc of NULL, a        *)
(* realloc to no bytes). in_scope is in EpanScopes, the callbacks that     *)
(* free_all makes first are in WmemCallbacks.                              *)
(***************************************************************************)
EXTENDS WmemOs

CONSTANTS Id, Size, BlockSize, DefaultAllocs

VARIABLES type,                 \* allocator->type: which implementation it is
          heap, live, created,  \* of the implementation
          overrun, asserted     \* of the strict one

vars == <<type, heap, live, created, overrun, asserted>>

Block == INSTANCE WmemBlock
Fast == INSTANCE WmemBlockFast
Simple == INSTANCE WmemSimple
Strict == INSTANCE WmemStrict

ASSUME CoreAssumption ==
    /\ Block!BlockAssumption
    /\ Fast!FastAssumption
    /\ Simple!SimpleAssumption
    /\ Strict!StrictAssumption

-----------------------------------------------------------------------------
OfBlock == type = "block"
OfFast == type = "block_fast"
OfSimple == type = "simple"
OfStrict == type = "strict"

Init ==
    \/ OfBlock /\ Block!Init /\ overrun = {} /\ asserted = FALSE
    \/ OfFast /\ Fast!Init /\ overrun = {} /\ asserted = FALSE
    \/ OfSimple /\ Simple!Init /\ overrun = {} /\ asserted = FALSE
    \/ OfStrict /\ Strict!Init

\* The calls reach the functions of the allocator's type. Nobody reallocates
\* a jumbo of a fast block allocator that Fast!CarefulNext leaves out.
Next ==
    \/ OfBlock /\ Block!Next /\ UNCHANGED <<type, overrun, asserted>>
    \/ OfFast /\ Fast!CarefulNext /\ UNCHANGED <<type, overrun, asserted>>
    \/ OfSimple /\ Simple!Next /\ UNCHANGED <<type, overrun, asserted>>
    \/ OfStrict /\ Strict!Next /\ UNCHANGED type

Spec == Init /\ [][Next]_vars

-----------------------------------------------------------------------------
TypeOK ==
    /\ type \in {"block", "block_fast", "simple", "strict"}
    /\ OfBlock => Block!TypeOK
    /\ OfFast => Fast!TypeOK
    /\ OfSimple => Simple!TypeOK
    /\ OfStrict => Strict!TypeOK

\* Whatever the implementation: its lists (an array, in the simple one) hold
\* every block the OS gave out once, and pointers back agree with pointers
\* forward, through every order of calls. free_all and the moves of realloc
\* follow them, and the strict one raises no false alarm on the way.
BooksExact ==
    /\ TypeOK
    /\ OfBlock => Block!BlockListExact /\ Block!FreeListsExact
    /\ OfFast => Fast!ListsExact /\ Fast!PredecessorsRight
    /\ OfSimple => Simple!PtrsExact
    /\ OfStrict => Strict!ListExact /\ Strict!NoFalseAlarm

\* A destroyed allocator has returned all memory: each cleanup relies, in its
\* own way, on "wmem guarantees that free_all() is called directly before
\* this" (wmem_allocator_block.c:1085, wmem_allocator_block_fast.c:218).
DestroyReturnsAll == ~created => heap.os = {}

\* A gc of the block allocator keeps no block that is wholly unused, and
\* every other one.
GcReturnsUnused ==
    [][OfBlock /\ Block!Gc =>
          Block!Blocks(heap') = {b \in Block!Blocks(heap) :
              \/ Block!IsJumbo(heap, b)
              \/ \E c \in Block!ChunksOf(heap, b) : heap.mem[c].used}]_vars

\* "We do everything we can to catch invalid memory accesses"
\* (wmem_allocator_strict.c:22): with the strict allocator an overrun, however
\* the blocks have been freed, moved and linked since, is seen by a check of
\* all canaries, and no free_all or destroy passes it.
OverrunsCaught ==
    /\ [](OfStrict /\ overrun # {} => Strict!BrokenCanary(heap))
    /\ [][OfStrict /\ (Strict!FreeAll \/ Strict!Destroy) =>
              (overrun # {} => asserted')]_vars

\* Where each allocation is, and what is stored there.
Promise == INSTANCE WmemAlloc WITH
    region <- live,
    content <- [i \in DOMAIN live |-> Held(heap, live[i], 0)]

\* Every implementation does only what the promise of wmem allows: fresh
\* memory that overlaps nothing, contents kept across realloc, nothing else
\* disturbed, whatever users of the strict one write into canaries.
KeepsPromise == Promise!Spec

=============================================================================
