--------------------------- MODULE WmemCallbacks ---------------------------
(***************************************************************************)
(* The callbacks of wmem allocators (epan/wmem/wmem_user_cb.c), and the    *)
(* structures that live in two allocators at once and keep themselves      *)
(* consistent with two callbacks: wmem_map_new_autoreset and               *)
(* wmem_tree_new_autoreset, whose base is in a master and whose data is in *)
(* a slave allocator.                                                      *)
(*                                                                         *)
(* wmem_free_all and wmem_destroy_allocator first walk the allocator's     *)
(* callback list, and then free its memory. One step here is one callback, *)
(* so that what the callbacks do to the lists happens between two steps of *)
(* the walk. A container is a node of a list; None is NULL.                *)
(***************************************************************************)
EXTENDS Integers, FiniteSets

CONSTANTS Allocator,
          Map,           \* autoreset maps and trees
          MaxId          \* bound: callbacks registered in a run

ASSUME CallbacksAssumption == MaxId \in Nat

None == 0
Id == 1 .. MaxId

VARIABLES alive,        \* the allocators that exist
          callbacks,    \* allocator->callbacks: the first container of each list
          container,    \* the containers that exist, by their id
          next_id,      \* static guint next_id; bounded by MaxId
          map,          \* the maps whose base exists
          tables,       \* the maps whose data is allocated in their slave
          walk          \* the walk of wmem_call_callbacks, or Idle

vars == <<alive, callbacks, container, next_id, map, tables, walk>>

Idle == [event |-> "none"]

-----------------------------------------------------------------------------
(***************************************************************************)
(* Lists. A list state is a record l with the fields callbacks and         *)
(* container. prev is the id of a container, or None for the list's head:  *)
(* what the code's pointer to a pointer points into.                       *)
(***************************************************************************)
Lists == [callbacks |-> callbacks, container |-> container]

SetLists(l) == callbacks' = l.callbacks /\ container' = l.container

Remove(f, x) == [y \in DOMAIN f \ {x} |-> f[y]]

\* *prev
At(l, a, prev) == IF prev = None THEN l.callbacks[a] ELSE l.container[prev].next

\* *prev = cur->next; wmem_free(NULL, cur);
Unlink(l, a, prev, cur) ==
    LET n == l.container[cur].next
        heads == IF prev = None THEN [l.callbacks EXCEPT ![a] = n] ELSE l.callbacks
        linked == IF prev = None THEN l.container
                  ELSE [l.container EXCEPT ![prev].next = n]
    IN  [callbacks |-> heads, container |-> Remove(linked, cur)]

\* wmem_register_callback: the new container becomes the head.
Register(l, a, id, kind, m) ==
    [callbacks |-> [l.callbacks EXCEPT ![a] = id],
     container |-> [i \in DOMAIN l.container \cup {id} |->
                       IF i = id THEN [kind |-> kind, map |-> m, next |-> l.callbacks[a]]
                       ELSE l.container[i]]]

\* The ids of a set lead to no other id, and neither does the list's head.
Encloses(l, a, ids) ==
    /\ l.callbacks[a] \in ids \cup {None}
    /\ \A i \in ids \cap DOMAIN l.container : l.container[i].next \in ids \cup {None}

\* What the list of the allocator leads to.
Members(l, a) == {i \in Id : \A ids \in SUBSET Id : Encloses(l, a, ids) => i \in ids}

\* wmem_unregister_callback: no effect when the list does not have the id.
Unregister(l, a, id) ==
    IF id \notin Members(l, a) THEN l
    ELSE LET before == IF l.callbacks[a] = id THEN None
                       ELSE CHOOSE i \in Members(l, a) : l.container[i].next = id
         IN  Unlink(l, a, before, id)

-----------------------------------------------------------------------------
Init ==
    /\ alive = Allocator
    /\ callbacks = [a \in Allocator |-> None]
    /\ container = << >>
    /\ next_id = 1
    /\ map = << >>
    /\ tables = {}
    /\ walk = Idle

\* The allocator whose list is being walked must be left alone by callbacks;
\* none of those in the repository touches it.
Walked(a) == walk # Idle /\ walk.alloc = a

\* wmem_register_callback by a user.
RegisterUser(a) ==
    /\ a \in alive /\ ~Walked(a)
    /\ next_id <= MaxId
    /\ SetLists(Register(Lists, a, next_id, "user", None))
    /\ next_id' = next_id + 1
    /\ UNCHANGED <<alive, map, tables, walk>>

\* wmem_unregister_callback by a user, of a callback of its own.
UnregisterUser(a, id) ==
    /\ a \in alive /\ ~Walked(a)
    /\ id \in Members(Lists, a) /\ container[id].kind = "user"
    /\ SetLists(Unregister(Lists, a, id))
    /\ UNCHANGED <<alive, next_id, map, tables, walk>>

\* wmem_map_new_autoreset, wmem_tree_new_autoreset.
NewAutoreset(m, master, slave) ==
    /\ walk = Idle
    /\ {master, slave} \subseteq alive /\ master # slave
    /\ m \notin DOMAIN map
    /\ next_id + 1 <= MaxId
    /\ LET l == Register(Lists, master, next_id, "destroy", m)
       IN  SetLists(Register(l, slave, next_id + 1, "reset", m))
    /\ map' = [n \in DOMAIN map \cup {m} |->
                  IF n = m
                  THEN [master |-> master, slave |-> slave, table |-> FALSE,
                        master_cb_id |-> next_id, slave_cb_id |-> next_id + 1]
                  ELSE map[n]]
    /\ next_id' = next_id + 2
    /\ UNCHANGED <<alive, tables, walk>>

\* wmem_map_insert, wmem_tree_insert32: the data goes to the slave.
Insert(m) ==
    /\ walk = Idle
    /\ m \in DOMAIN map
    /\ map' = [map EXCEPT ![m].table = TRUE]
    /\ tables' = tables \cup {m}
    /\ UNCHANGED <<alive, callbacks, container, next_id, walk>>

-----------------------------------------------------------------------------
\* wmem_free_all ("free") or wmem_destroy_allocator ("destroy") begins.
WalkBegin(a, event) ==
    /\ walk = Idle
    /\ a \in alive
    /\ walk' = [event |-> event, alloc |-> a, prev |-> None, cur |-> callbacks[a]]
    /\ UNCHANGED <<alive, callbacks, container, next_id, map, tables>>

\* Mutant: prev does not follow cur.
Advance_ForgetsPrev(l, again) ==
    LET gone == ~again \/ walk.event = "destroy"
        after == IF gone THEN Unlink(l, walk.alloc, walk.prev, walk.cur) ELSE l
    IN  /\ SetLists(after)
        /\ walk' = [walk EXCEPT !.cur = l.container[walk.cur].next]

\* Mutant: a callback that wants to stay is asked again.
Advance_AsksAgain(l, again) ==
    LET gone == ~again \/ walk.event = "destroy"
        after == IF gone THEN Unlink(l, walk.alloc, walk.prev, walk.cur) ELSE l
    IN  /\ SetLists(after)
        /\ walk' = [walk EXCEPT !.cur = IF gone THEN At(after, walk.alloc, walk.prev) ELSE @]

\* What the walk does when callback cur has returned again and left the lists
\* as l: it goes on, or removes the container.
Advance(l, again) ==
    LET gone == ~again \/ walk.event = "destroy"
        after == IF gone THEN Unlink(l, walk.alloc, walk.prev, walk.cur) ELSE l
        prev == IF gone THEN walk.prev ELSE walk.cur
    IN  /\ SetLists(after)
        /\ walk' = [walk EXCEPT !.prev = prev, !.cur = At(after, walk.alloc, prev)]

Calling(kind) == walk # Idle /\ walk.cur # None /\ container[walk.cur].kind = kind

\* A user's callback returns whatever it likes.
CallUser ==
    /\ Calling("user")
    /\ \E again \in BOOLEAN : Advance(Lists, again)
    /\ UNCHANGED <<alive, next_id, map, tables>>

\* Mutant: the reset callback does not ask to be called again.
CallReset_Once ==
    /\ Calling("reset")
    /\ LET m == container[walk.cur].map
       IN  IF walk.event = "destroy"
           THEN /\ map' = Remove(map, m)
                /\ Advance(Unregister(Lists, map[m].master, map[m].master_cb_id), TRUE)
           ELSE /\ map' = [map EXCEPT ![m].table = FALSE]
                /\ Advance(Lists, FALSE)
    /\ UNCHANGED <<alive, next_id, tables>>

\* wmem_map_reset_cb, wmem_tree_reset_cb: the slave is freed. When it is
\* destroyed, the map goes too.
CallReset ==
    /\ Calling("reset")
    /\ LET m == container[walk.cur].map
       IN  IF walk.event = "destroy"
           THEN /\ map' = Remove(map, m)
                /\ Advance(Unregister(Lists, map[m].master, map[m].master_cb_id), TRUE)
           ELSE /\ map' = [map EXCEPT ![m].table = FALSE]
                /\ Advance(Lists, TRUE)
    /\ UNCHANGED <<alive, next_id, tables>>

\* Mutant: the slave keeps its callback.
CallDestroy_OneSided ==
    /\ Calling("destroy")
    /\ Advance(Lists, FALSE)
    /\ UNCHANGED <<alive, next_id, map, tables>>

\* wmem_map_destroy_cb, wmem_tree_destroy_cb: the master is freed, or
\* destroyed.
CallDestroy ==
    /\ Calling("destroy")
    /\ LET m == container[walk.cur].map
       IN  Advance(Unregister(Lists, map[m].slave, map[m].slave_cb_id), FALSE)
    /\ UNCHANGED <<alive, next_id, map, tables>>

\* The list is done: allocator->free_all frees the memory, the bases in it
\* included, and a destroyed allocator is gone. The data of a map whose base is
\* gone cannot be reached any more.
WalkEnd ==
    /\ walk # Idle /\ walk.cur = None
    /\ LET a == walk.alloc
           bases == {m \in DOMAIN map : map[m].master # a}
       IN  /\ map' = [m \in bases |-> map[m]]
           /\ tables' = {m \in tables \cap bases : map[m].slave # a}
           /\ alive' = IF walk.event = "destroy" THEN alive \ {a} ELSE alive
    /\ walk' = Idle
    /\ UNCHANGED <<callbacks, container, next_id>>

WalkStep == CallUser \/ CallReset \/ CallDestroy \/ WalkEnd

Next ==
    \/ \E a \in Allocator : RegisterUser(a)
    \/ \E a \in Allocator, id \in Id : UnregisterUser(a, id)
    \/ \E m \in Map, a, b \in Allocator : NewAutoreset(m, a, b)
    \/ \E m \in Map : Insert(m)
    \/ \E a \in Allocator, event \in {"free", "destroy"} : WalkBegin(a, event)
    \/ WalkStep

\* The code of a walk runs to its end.
Spec == Init /\ [][Next]_vars /\ WF_vars(WalkStep)

-----------------------------------------------------------------------------
ContainerOK(c) ==
    /\ c.kind \in {"user", "reset", "destroy"}
    /\ c.map \in Map \cup {None}
    /\ c.next \in Id \cup {None}

TypeOK ==
    /\ alive \subseteq Allocator
    /\ callbacks \in [Allocator -> Id \cup {None}]
    /\ DOMAIN container \subseteq Id
    /\ \A i \in DOMAIN container : ContainerOK(container[i])
    /\ next_id \in 1 .. MaxId + 1
    /\ DOMAIN map \subseteq Map /\ tables \subseteq Map
    /\ walk = Idle \/ /\ walk.alloc \in alive
                      /\ walk.prev \in Id \cup {None} /\ walk.cur \in Id \cup {None}

\* Every container that exists is in the list of exactly one allocator, and
\* every list leads only to containers that exist.
ListsExact ==
    /\ \A a \in Allocator : Members(Lists, a) \subseteq DOMAIN container
    /\ \A i \in DOMAIN container :
          Cardinality({a \in Allocator : i \in Members(Lists, a)}) = 1
    /\ \A a \in Allocator \ alive : callbacks[a] = None

\* The two pointers of the walk point into the list that is walked, one after
\* the other: no callback ever frees the container the walk stands on.
WalkInList ==
    walk # Idle =>
        /\ walk.prev # None => walk.prev \in Members(Lists, walk.alloc)
        /\ At(Lists, walk.alloc, walk.prev) = walk.cur

\* The lists, while nobody walks them and while callbacks register and
\* unregister others during a walk.
CallbackListsSound == TypeOK /\ ListsExact /\ WalkInList

\* A registered reset or destroy callback belongs to a map whose base exists
\* and that knows it by its id.
CallbacksHaveMaps ==
    \A a \in Allocator : \A i \in Members(Lists, a) :
        LET m == container[i].map
        IN  /\ container[i].kind = "reset" =>
                  m \in DOMAIN map /\ map[m].slave_cb_id = i /\ map[m].slave = a
            /\ container[i].kind = "destroy" =>
                  m \in DOMAIN map /\ map[m].master_cb_id = i /\ map[m].master = a

\* A map whose base exists has both its callbacks registered, so that a later
\* free_all of either allocator still reaches it; while its master is being
\* freed they may be gone already.
MapsHaveCallbacks ==
    \A m \in DOMAIN map :
        ~Walked(map[m].master) =>
            /\ map[m].master_cb_id \in Members(Lists, map[m].master)
            /\ map[m].slave_cb_id \in Members(Lists, map[m].slave)

\* Maps and callbacks agree, in whatever order master and slave are freed and
\* destroyed: no callback of one allocator is left behind when the other one
\* goes, and no map is left that one of them no longer reaches.
MapsAndCallbacksAgree == CallbacksHaveMaps /\ MapsHaveCallbacks

\* "Every time free_all occurs in the slave scope the map is transparently
\* emptied" (wmem_map.h:62-64): a map never keeps a pointer to a table its
\* slave has freed.
NoDanglingTable == \A m \in DOMAIN map : map[m].table => m \in tables

\* An autoreset map through any order of frees of its two allocators.
MapsFollowAllocators == MapsAndCallbacksAgree /\ NoDanglingTable

\* Every walk ends, whatever the callbacks register elsewhere meanwhile.
WalkEnds == walk # Idle ~> walk = Idle

=============================================================================
