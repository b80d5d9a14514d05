------------------------------- MODULE WmemOs ------------------------------
(***************************************************************************)
(* What the wmem allocators stand on, and who stands on them: memory, the  *)
(* OS behind g_malloc, g_realloc and g_free, and the user who writes to    *)
(* the allocations that were handed out.                                   *)
(*                                                                         *)
(* Memory is a function from addresses to cells; an address counts units   *)
(* of AlignAmount bytes. The OS is a set of NumSlots slots of SlotSize     *)
(* units, each of which holds one block. That it runs out is not modelled. *)
(* An allocator state h has at least the fields mem, the memory, and os,   *)
(* the slots that hold a block.                                            *)
(***************************************************************************)
EXTENDS Integers

CONSTANTS AlignAmount,   \* WMEM_ALIGN_AMOUNT, bytes in a unit
          NumSlots,      \* bound: OS-level blocks that exist at once
          SlotSize       \* units the OS reserves for one block

ASSUME OsAssumption ==
    /\ AlignAmount \in Nat \ {0}
    /\ NumSlots \in Nat \ {0}
    /\ SlotSize \in Nat \ {0}

Slot == 1 .. NumSlots
Base(s) == (s - 1) * SlotSize + 1
SlotOf(b) == (b - 1) \div SlotSize + 1
SlotCells(s) == Base(s) .. Base(s) + SlotSize - 1
Address == 1 .. NumSlots * SlotSize

\* A cell that holds what an allocation's user wrote, and one that holds
\* nothing anyone may rely on.
Data(i) == [owner |-> i]
Junk == [junk |-> TRUE]

\* WMEM_ALIGN_SIZE(size), in units.
Units(size) == (size + AlignAmount - 1) \div AlignAmount

-----------------------------------------------------------------------------
FreeSlots(h) == Slot \ h.os

\* g_malloc: the lowest free slot (which one makes no difference).
NewSlot(h) == CHOOSE s \in FreeSlots(h) : \A t \in FreeSlots(h) : s <= t

OsTake(h, s) == [h EXCEPT !.os = @ \cup {s}]

\* g_free: whatever the block held is gone.
OsFree(h, b) ==
    [h EXCEPT !.os = @ \ {SlotOf(b)},
              !.mem = [a \in Address |-> IF a \in SlotCells(SlotOf(b)) THEN Junk ELSE @[a]]]

\* g_realloc of the block at b into slot t (which may be its own) for units
\* units: what fits is copied, the rest is lost.
OsRealloc(h, b, t, units) ==
    [h EXCEPT !.os = (@ \ {SlotOf(b)}) \cup {t},
              !.mem = [a \in Address |->
                          IF a \in SlotCells(t)
                          THEN IF a - Base(t) < units THEN @[a - Base(t) + b] ELSE Junk
                          ELSE IF a \in SlotCells(SlotOf(b)) THEN Junk ELSE @[a]]]

\* memcpy(newptr, ptr, n units).
CopyUnits(h, to, from, n) ==
    [h EXCEPT !.mem = [a \in Address |->
                          IF a \in to .. to + n - 1 THEN @[a - to + from] ELSE @[a]]]

-----------------------------------------------------------------------------
(***************************************************************************)
(* Allocations: an allocation r is its pointer and its size.               *)
(***************************************************************************)
CellsOf(r) == r.ptr .. r.ptr + Units(r.size) - 1

\* The user of i writes the units of r from unit first on.
Write(h, i, r, first) ==
    [h EXCEPT !.mem = [a \in Address |->
                          IF a \in CellsOf(r) /\ a >= r.ptr + first THEN Data(i) ELSE @[a]]]

\* What is not among the cells kept becomes Junk: headers that were merged
\* away, contents that were freed. Code that read it would stop TLC.
Keep(h, kept) == [h EXCEPT !.mem = [a \in Address |-> IF a \in kept THEN @[a] ELSE Junk]]

\* What an allocation holds, unit by unit; nobody is a stranger's unit.
Held(h, r, nobody) ==
    [u \in 0 .. Units(r.size) - 1 |->
        LET cell == h.mem[r.ptr + u]
        IN  IF "owner" \in DOMAIN cell THEN cell.owner ELSE nobody]

With(f, i, r) == [j \in DOMAIN f \cup {i} |-> IF j = i THEN r ELSE f[j]]
Without(f, S) == [j \in DOMAIN f \ S |-> f[j]]

\* The addresses a walk of at most n steps from a along next visits; stop is
\* where a list ends.
Walk(a, n, next(_), stop) ==
    LET visit[k \in 0 .. n] ==
            IF k = 0 THEN [seen |-> {}, at |-> a]
            ELSE LET w == visit[k - 1]
                 IN  IF w.at \in w.seen \cup {stop} THEN w
                     ELSE [seen |-> w.seen \cup {w.at}, at |-> next(w.at)]
    IN  visit[n].seen

=============================================================================
