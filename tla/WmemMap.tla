------------------------------ MODULE WmemMap ------------------------------
(***************************************************************************)
(* The hash map of wmem_map.c: a table of chains, doubled when there are   *)
(* as many items as slots.                                                 *)
(*                                                                         *)
(* A key pointer is <<key, copy>>: the equality and the hash function the  *)
(* user gives to the map look at the key only.  What HASH computes of a    *)
(* key before it shifts, the user's hash times the random factor x, is a   *)
(* number of WordBits bits that is chosen once.                            *)
(***************************************************************************)
EXTENDS Integers, Sequences, SequencesExt, Functions

CONSTANTS
  MapKeys,          \* keys that differ for the user's functions
  Copies,           \* pointers to equal keys
  Values,           \* what the user stores
  WordBits,         \* the width of the hash, 32 in the code
  DefaultCapacity   \* log2 of the slots of a new table, 5 in the code

ASSUME WmemMapAssumption ==
  /\ WordBits \in Nat
  /\ DefaultCapacity \in 0 .. WordBits

VARIABLES
  hash,       \* the product of HASH, for each key
  map,        \* the record: count, capacity, and the table or <<>> for none
  stored      \* what was stored: key -> <<key pointer, value>>

mapVars == <<hash, map, stored>>

Capacity(m) == 2 ^ m.capacity
Slot(m, key) == hash[key] \div 2 ^ (WordBits - m.capacity)
EmptyTable(capacity) == [i \in 0 .. 2 ^ capacity - 1 |-> <<>>]
HasTable == map.table # <<>>

MapInit ==
  /\ hash \in [MapKeys -> 0 .. 2 ^ WordBits - 1]
  /\ map = [count |-> 0, capacity |-> 0, table |-> <<>>]
  /\ stored = <<>>

(* The place of a key in the chain of its slot, or 0. *)
Place(m, key) ==
  SelectInSeq(m.table[Slot(m, key)], LAMBDA item : item.ptr[1] = key)

(* wmem_map_init_table *)
WithTable(m) ==
  IF m.table # <<>> THEN m
  ELSE [count |-> 0, capacity |-> DefaultCapacity, table |-> EmptyTable(DefaultCapacity)]

(* Mutant: the items go to the slots they had. *)
Grow_OldSlots(m) ==
  [m EXCEPT !.capacity = @ + 1,
            !.table = [slot \in 0 .. 2 * Capacity(m) - 1 |->
                         IF slot < Capacity(m) THEN m.table[slot] ELSE <<>>]]

(* wmem_map_grow: slot by slot and item by item, each is put in front of  *)
(* the chain of its new slot.                                             *)
Grow(m) ==
  LET bigger == [m EXCEPT !.capacity = @ + 1]
      chains == FlattenSeq([i \in 1 .. Capacity(m) |-> m.table[i - 1]])
      moved(slot) == Reverse(SelectSeq(chains, LAMBDA item : Slot(bigger, item.ptr[1]) = slot))
  IN [bigger EXCEPT !.table = [slot \in 0 .. Capacity(bigger) - 1 |-> moved(slot)]]

(* wmem_map_insert: an equal key keeps its pointer and gets the new       *)
(* value; a new one goes to the end of its chain.                         *)
MapInsert(ptr, value) ==
  LET m == WithTable(map)
      slot == Slot(m, ptr[1])
      at == Place(m, ptr[1])
      more == [m EXCEPT !.table[slot] = Append(@, [ptr |-> ptr, value |-> value]),
                        !.count = @ + 1]
  IN /\ map' = IF at # 0 THEN [m EXCEPT !.table[slot][at].value = value]
               ELSE IF more.count >= Capacity(more) THEN Grow(more) ELSE more
     /\ stored' = [k \in DOMAIN stored \cup {ptr[1]} |->
                     IF k # ptr[1] THEN stored[k]
                     ELSE <<IF k \in DOMAIN stored THEN stored[k][1] ELSE ptr, value>>]
     /\ UNCHANGED hash

(* wmem_map_remove and wmem_map_steal: they differ in who frees the item. *)
MapRemove(key) ==
  LET at == Place(map, key) IN
  /\ HasTable
  /\ at # 0
  /\ map' = [map EXCEPT !.table[Slot(map, key)] = RemoveAt(@, at), !.count = @ - 1]
  /\ stored' = Restrict(stored, DOMAIN stored \ {key})
  /\ UNCHANGED hash

(* wmem_map_reset_cb: the table went with its allocator; the capacity is  *)
(* set again with the next table.                                         *)
MapReset ==
  /\ HasTable
  /\ map' = [map EXCEPT !.count = 0, !.table = <<>>]
  /\ stored' = <<>>
  /\ UNCHANGED hash

MapNext ==
  \/ \E key \in MapKeys, copy \in Copies, value \in Values : MapInsert(<<key, copy>>, value)
  \/ \E key \in MapKeys : MapRemove(key)
  \/ MapReset

MapSpec == MapInit /\ [][MapNext]_mapVars

(* wmem_map_lookup_extended; wmem_map_lookup and wmem_map_contains give   *)
(* parts of its answer.                                                   *)
MapLookup(key) ==
  LET at == Place(map, key)
      item == map.table[Slot(map, key)][at]
  IN IF ~HasTable \/ at = 0 THEN <<>> ELSE <<item.ptr, item.value>>

(* wmem_map_foreach: the items in the order the callback sees them, and   *)
(* the reverse of the list wmem_map_get_keys returns.                     *)
MapForeach ==
  IF ~HasTable THEN <<>> ELSE FlattenSeq([i \in 1 .. Capacity(map) |-> map.table[i - 1]])

---------------------------------------------------------------------------

(* A map answers every lookup with what was last stored, under the        *)
(* pointer it was first stored with, across doublings, removals and       *)
(* resets; a traversal sees every item once; the size is their number,    *)
(* and there is always a slot more than there are items.                  *)
MapAnswersStored ==
  /\ \A key \in MapKeys :
       MapLookup(key) = IF key \in DOMAIN stored THEN stored[key] ELSE <<>>
  /\ Len(MapForeach) = map.count
  /\ {MapForeach[i].ptr : i \in 1 .. Len(MapForeach)} = {stored[k][1] : k \in DOMAIN stored}
  /\ HasTable => map.count < Capacity(map)
=============================================================================
