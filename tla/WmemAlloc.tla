----------------------------- MODULE WmemAlloc -----------------------------
(***************************************************************************)
(* What a wmem allocator promises its users (doc/README.wmem, wmem_core.h):*)
(* every live allocation is a region of at least the requested size that   *)
(* overlaps no other one, nothing the allocator does disturbs what an      *)
(* allocation holds, and a realloc keeps what fits of it.                  *)
(*                                                                         *)
(* Id names allocations, an address counts units of AlignAmount bytes and  *)
(* Size is the set of sizes, in bytes, that are asked for.                 *)
(***************************************************************************)
EXTENDS Integers, FiniteSets

CONSTANTS Id, Address, Size, AlignAmount

VARIABLES region,   \* the live allocations: where each one is, and its size
          content   \* what each live allocation holds, unit by unit

vars == <<region, content>>

-----------------------------------------------------------------------------
\* The units that hold size bytes.
Units(size) == (size + AlignAmount - 1) \div AlignAmount

Cells(r) == r.ptr .. r.ptr + Units(r.size) - 1

Live == DOMAIN region

\* r touches no live allocation other than i.
ApartFrom(i, r) == \A j \in Live \ {i} : Cells(r) \cap Cells(region[j]) = {}

\* The user writes its own mark, i, wherever the region did not hold
\* something already.
Written(i, size, old) ==
    [u \in 0 .. Units(size) - 1 |-> IF u \in DOMAIN old THEN old[u] ELSE i]

Put(f, i, v) == [j \in DOMAIN f \cup {i} |-> IF j = i THEN v ELSE f[j]]

Drop(f, S) == [j \in DOMAIN f \ S |-> f[j]]

-----------------------------------------------------------------------------
Init == region = << >> /\ content = << >>

Alloc(i, size) ==
    /\ i \notin Live
    /\ \E p \in Address :
          LET r == [ptr |-> p, size |-> size]
          IN  /\ ApartFrom(i, r)
              /\ region' = Put(region, i, r)
    /\ content' = Put(content, i, Written(i, size, << >>))

Realloc(i, size) ==
    /\ i \in Live
    /\ \E p \in Address :
          LET r == [ptr |-> p, size |-> size]
          IN  /\ ApartFrom(i, r)
              /\ region' = Put(region, i, r)
    /\ content' = Put(content, i, Written(i, size, content[i]))

Free(i) ==
    /\ i \in Live
    /\ region' = Drop(region, {i})
    /\ content' = Drop(content, {i})

FreeAll == region' = << >> /\ content' = << >>

Next ==
    \/ \E i \in Id, size \in Size : Alloc(i, size) \/ Realloc(i, size)
    \/ \E i \in Id : Free(i)
    \/ FreeAll

Spec == Init /\ [][Next]_vars

-----------------------------------------------------------------------------
Region == [ptr : Address, size : Size]

TypeOK ==
    /\ Live \subseteq Id
    /\ \A i \in Live : region[i] \in Region
    /\ DOMAIN content = Live

\* Two live allocations never share memory (wmem_alloc and wmem_realloc hand
\* out memory no one else holds).
Disjoint ==
    \A i, j \in Live : i # j => Cells(region[i]) \cap Cells(region[j]) = {}

\* A live allocation holds, over its whole size, what its user wrote there.
Intact ==
    \A i \in Live :
        content[i] = [u \in 0 .. Units(region[i].size) - 1 |-> i]

=============================================================================
