------------------------------ MODULE WmemTree ------------------------------
(***************************************************************************)
(* The red-black tree of wmem_tree.c and the interval tree that            *)
(* wmem_interval_tree.c builds on it.                                      *)
(*                                                                         *)
(* A node is named by its key: a tree has one node for a key and never     *)
(* gives a node up before it is reset.  A tree is a record of its root,    *)
(* its nodes with their parent, left and right pointers, and whether it    *)
(* has interval_tree's callback after rotations.  A tree reached through   *)
(* the words of a key array is named by the words that lead to it; the     *)
(* tree the user holds is <<>>.                                            *)
(***************************************************************************)
EXTENDS Integers, FiniteSets, Sequences

CONSTANTS
  Keys,       \* the 32-bit keys, strings or lower bounds in use
  Words,      \* the 32-bit words of key arrays, two to a key
  Highs,      \* the upper bounds of intervals
  Sought,     \* the bounds of the intervals searched for
  Data,       \* what the user stores
  NULL,       \* no node, or no data
  Kinds       \* the uses of a tree that are explored

ASSUME WmemTreeAssumption ==
  /\ Keys \cup Words \cup Highs \cup Sought \subseteq Nat
  /\ NULL \notin Keys \cup Words \cup Data
  /\ Kinds \subseteq {"int32", "string", "array", "itree"}

VARIABLES
  kind,       \* which functions the user calls on the tree
  tree,       \* the trees that exist, by name
  dict        \* what was stored under which key since the last reset

treeVars == <<kind, tree, dict>>

Red == "red"
Black == "black"
Other(side) == IF side = "left" THEN "right" ELSE "left"

(* wmem_tree_new and wmem_itree_new: an empty tree. *)
EmptyTree(rotcb) == [root |-> NULL, node |-> <<>>, rotcb |-> rotcb]

IsRed(t, n) == n # NULL /\ t.node[n].color = Red
Paint(t, n, color) == [t EXCEPT !.node[n].color = color]

---------------------------------------------------------------------------
(* The edges an interval tree keeps beside the keys *)

MaxOf(a, b) == IF a < b THEN b ELSE a

EdgeOf(t, n) == IF n = NULL THEN 0 ELSE t.node[n].max

(* The edge of a node and its children, written to the node.  stale is    *)
(* history: the node went up in a rotation and was not computed since.    *)
Computed(t, n) ==
  [t EXCEPT !.node[n].stale = FALSE,
            !.node[n].max = MaxOf(t.node[n].high, MaxOf(EdgeOf(t, t.node[n].left),
                                                        EdgeOf(t, t.node[n].right)))]

(* Mutant: the parent is not told. *)
UpdateMaxEdge_Once(t, n) == IF n = NULL THEN t ELSE Computed(t, n)

(* update_max_edge: compute one node; go on to its parent only when the   *)
(* value changed.                                                         *)
RECURSIVE UpdateMaxEdge(_, _)
UpdateMaxEdge(t, n) ==
  LET c == Computed(t, n) IN
  IF n = NULL THEN t
  ELSE IF EdgeOf(c, n) = EdgeOf(t, n) THEN c ELSE UpdateMaxEdge(c, t.node[n].parent)

(* update_edges_after_rotation: the children of the node that went down. *)
UpdateEdgesAfterRotation(t, n) ==
  LET l == UpdateMaxEdge(t, t.node[n].left) IN UpdateMaxEdge(l, l.node[n].right)

---------------------------------------------------------------------------
(* Balancing *)

NodeUncle(t, n) ==
  LET p == t.node[n].parent
      g == IF p = NULL THEN NULL ELSE t.node[p].parent
  IN IF g = NULL THEN NULL
     ELSE IF t.node[g].left = p THEN t.node[g].right ELSE t.node[g].left

(* rotate_left and rotate_right: n goes down on side, its child on the    *)
(* other side takes its place.                                            *)
Rotate(t, n, side) ==
  LET away == Other(side)
      p == t.node[n].parent
      up == t.node[n][away]
      inner == t.node[up][side]
      relinked(k) ==
        [t.node[k] EXCEPT
           !.stale = @ \/ k = up,
           !.parent = CASE k = up -> p [] k = n -> up [] k = inner -> n [] OTHER -> @,
           ![side] = IF k = up THEN n ELSE IF k = p /\ @ = n THEN up ELSE @,
           ![away] = IF k = n THEN inner ELSE IF k = p /\ @ = n THEN up ELSE @]
      turned == [t EXCEPT !.node = [k \in DOMAIN t.node |-> relinked(k)],
                          !.root = IF p = NULL THEN up ELSE @]
  IN IF t.rotcb THEN UpdateEdgesAfterRotation(turned, n) ELSE turned

(* Mutant: the grandparent goes down black. *)
InsertCase5_StaysBlack(t, n) ==
  LET p == t.node[n].parent
      g == t.node[p].parent
  IN IF n = t.node[p].left /\ p = t.node[g].left
     THEN Rotate(Paint(t, p, Black), g, "right")
     ELSE Rotate(Paint(t, p, Black), g, "left")

InsertCase5(t, n) ==
  LET p == t.node[n].parent
      g == t.node[p].parent
      painted == Paint(Paint(t, p, Black), g, Red)
  IN IF n = t.node[p].left /\ p = t.node[g].left
     THEN Rotate(painted, g, "right")
     ELSE Rotate(painted, g, "left")

InsertCase4(t, n) ==
  LET p == t.node[n].parent
      g == t.node[p].parent
  IN IF g = NULL THEN t
     ELSE IF n = t.node[p].right /\ p = t.node[g].left
     THEN LET r == Rotate(t, p, "left") IN InsertCase5(r, r.node[n].left)
     ELSE IF n = t.node[p].left /\ p = t.node[g].right
     THEN LET r == Rotate(t, p, "right") IN InsertCase5(r, r.node[n].right)
     ELSE InsertCase5(t, n)

(* rb_insert_case1 to case3: recolour upwards as long as the uncle is red. *)
RECURSIVE InsertCase1(_, _)
InsertCase1(t, n) ==
  LET p == t.node[n].parent
      u == NodeUncle(t, n)
      g == t.node[p].parent
  IN IF p = NULL THEN Paint(t, n, Black)
     ELSE IF ~IsRed(t, p) THEN t
     ELSE IF IsRed(t, u)
     THEN InsertCase1(Paint(Paint(Paint(t, p, Black), u, Black), g, Red), g)
     ELSE InsertCase4(t, n)

---------------------------------------------------------------------------
(* Insertion *)

(* The walk of every search: the node with the key, or the last one on    *)
(* the way to where it would be.                                          *)
RECURSIVE Descend(_, _, _)
Descend(t, n, key) ==
  LET next == IF key < n THEN t.node[n].left ELSE t.node[n].right
  IN IF key = n \/ next = NULL THEN n ELSE Descend(t, next, key)

(* create_node, linked below parent. *)
WithNode(t, parent, key, data, color, subtree, high) ==
  LET new == [parent |-> parent, left |-> NULL, right |-> NULL, data |-> data,
              color |-> color, subtree |-> subtree, removed |-> FALSE,
              high |-> high, max |-> 0, stale |-> FALSE]
      linked(k) == IF k = key THEN new
                   ELSE IF k # parent THEN t.node[k]
                   ELSE [t.node[k] EXCEPT ![IF key < k THEN "left" ELSE "right"] = key]
  IN [t EXCEPT !.node = [k \in DOMAIN t.node \cup {key} |-> linked(k)],
               !.root = IF parent = NULL THEN key ELSE @]

(* lookup_or_insert32_node *)
LookupOrInsert32(t, key, data, subtree, replace) ==
  LET at == Descend(t, t.root, key)
  IN IF t.root = NULL THEN WithNode(t, NULL, key, data, Black, subtree, 0)
     ELSE IF at = key
     THEN IF replace THEN [t EXCEPT !.node[key].data = data] ELSE t
     ELSE InsertCase1(WithNode(t, at, key, data, Red, subtree, 0), key)

(* wmem_tree_insert, with a comparison function: it alone sets is_removed. *)
InsertCmp(t, key, data, high) ==
  LET at == Descend(t, t.root, key)
  IN IF t.root = NULL THEN WithNode(t, NULL, key, data, Black, FALSE, high)
     ELSE IF at = key
     THEN [t EXCEPT !.node[key].data = data, !.node[key].removed = (data = NULL)]
     ELSE InsertCase1(WithNode(t, at, key, data, Red, FALSE, high), key)

(* wmem_tree_insert32_array for a key of two words: the first leads to a  *)
(* tree, made when it is not there; the second is inserted in that one.   *)
InsertArray(trees, key, data) ==
  LET below == <<key[1]>>
      top == LookupOrInsert32(trees[<<>>], key[1], below, TRUE, FALSE)
      sub == IF below \in DOMAIN trees THEN trees[below] ELSE EmptyTree(FALSE)
  IN [id \in DOMAIN trees \cup {below} |->
        CASE id = <<>> -> top
          [] id = below -> LookupOrInsert32(sub, key[2], data, FALSE, TRUE)
          [] OTHER -> trees[id]]

---------------------------------------------------------------------------
(* Searches *)

(* wmem_tree_lookup32, and wmem_tree_lookup with a comparison function. *)
Lookup(t, key) ==
  IF t.root = NULL THEN NULL
  ELSE LET at == Descend(t, t.root, key) IN IF at = key THEN t.node[at].data ELSE NULL

(* The nearest node from n upwards whose key is below key, or NULL. *)
RECURSIVE SmallerAncestor(_, _, _)
SmallerAncestor(t, n, key) ==
  IF n = NULL \/ n < key THEN n ELSE SmallerAncestor(t, t.node[n].parent, key)

(* Mutant: a left child is taken for a right one. *)
LookupLe_Parent(t, key) ==
  LET at == Descend(t, t.root, key)
      found == IF at <= key THEN at ELSE t.node[at].parent
  IN IF t.root = NULL \/ found = NULL THEN NULL ELSE t.node[found].data

(* wmem_tree_lookup32_le *)
LookupLe(t, key) ==
  LET at == Descend(t, t.root, key)
      parent == t.node[at].parent
      found == IF at <= key THEN at
               ELSE IF parent = NULL THEN NULL
               ELSE IF t.node[parent].left = at THEN SmallerAncestor(t, at, key)
               ELSE parent
  IN IF t.root = NULL \/ found = NULL THEN NULL ELSE t.node[found].data

(* wmem_tree_lookup32_array and wmem_tree_lookup32_array_le: the helper   *)
(* finds a tree with the first word and searches it for the second.       *)
LookupArray(trees, key) ==
  LET below == Lookup(trees[<<>>], key[1])
  IN IF below = NULL THEN NULL ELSE Lookup(trees[below], key[2])

LookupArrayLe(trees, key) ==
  LET below == LookupLe(trees[<<>>], key[1])
  IN IF below = NULL THEN NULL ELSE LookupLe(trees[below], key[2])

(* wmem_tree_foreach: the keys a callback sees, in order, subtrees        *)
(* included and removed nodes left out.                                   *)
RECURSIVE Foreach(_, _, _)
Foreach(trees, id, n) ==
  LET t == trees[id]
      here == IF t.node[n].subtree
              THEN LET s == t.node[n].data IN Foreach(trees, s, trees[s].root)
              ELSE IF t.node[n].removed THEN <<>> ELSE <<Append(id, n)>>
  IN IF n = NULL THEN <<>>
     ELSE Foreach(trees, id, t.node[n].left) \o here \o Foreach(trees, id, t.node[n].right)

Visited == Foreach(tree, <<>>, tree[<<>>].root)

(* wmem_itree_range_overlap *)
Overlap(low1, high1, low2, high2) == low1 <= high2 /\ low2 <= high1

(* wmem_itree_find_intervals: the lower bounds of the ranges it lists. *)
RECURSIVE FindIntervals(_, _, _, _)
FindIntervals(t, n, low, high) ==
  IF n = NULL \/ low > EdgeOf(t, n) THEN {}
  ELSE (IF Overlap(n, t.node[n].high, low, high) THEN {n} ELSE {})
       \cup FindIntervals(t, t.node[n].left, low, high)
       \cup FindIntervals(t, t.node[n].right, low, high)

---------------------------------------------------------------------------
(* The operations, on the tree the user holds *)

Store(key, value) ==
  dict' = [k \in DOMAIN dict \cup {key} |-> IF k = key THEN value ELSE dict[k]]

TreeInit ==
  /\ kind \in Kinds
  /\ tree = [id \in {<<>>} |-> EmptyTree(kind = "itree")]
  /\ dict = <<>>

Insert32(k, d) ==
  /\ kind = "int32"
  /\ tree' = [tree EXCEPT ![<<>>] = LookupOrInsert32(@, k, d, FALSE, TRUE)]
  /\ Store(<<k>>, d)
  /\ UNCHANGED kind

(* wmem_tree_remove32 keeps the node and drops its data. *)
Remove32(k) ==
  /\ kind = "int32"
  /\ Lookup(tree[<<>>], k) # NULL
  /\ tree' = [tree EXCEPT ![<<>>] = LookupOrInsert32(@, k, NULL, FALSE, TRUE)]
  /\ Store(<<k>>, NULL)
  /\ UNCHANGED kind

InsertString(k, d) ==
  /\ kind = "string"
  /\ tree' = [tree EXCEPT ![<<>>] = InsertCmp(@, k, d, 0)]
  /\ Store(<<k>>, d)
  /\ UNCHANGED kind

RemoveString(k) ==
  /\ kind = "string"
  /\ Lookup(tree[<<>>], k) # NULL
  /\ tree' = [tree EXCEPT ![<<>>] = InsertCmp(@, k, NULL, 0)]
  /\ Store(<<k>>, NULL)
  /\ UNCHANGED kind

Insert32Array(key, d) ==
  /\ kind = "array"
  /\ tree' = InsertArray(tree, key, d)
  /\ Store(key, d)
  /\ UNCHANGED kind

(* wmem_itree_insert: a lower bound that is there keeps its upper bound.  *)
ItreeInsert(low, high, d) ==
  LET t == InsertCmp(tree[<<>>], low, d, high) IN
  /\ kind = "itree"
  /\ low <= high
  /\ tree' = [tree EXCEPT ![<<>>] = UpdateMaxEdge(t, low)]
  /\ Store(<<low>>, d)
  /\ UNCHANGED kind

(* wmem_tree_reset_cb: the allocator was emptied, and with it all nodes   *)
(* and the trees below them.                                              *)
ResetCb ==
  /\ dict # <<>>
  /\ tree' = [id \in {<<>>} |-> [tree[<<>>] EXCEPT !.root = NULL, !.node = <<>>]]
  /\ dict' = <<>>
  /\ UNCHANGED kind

TreeNext ==
  \/ \E k \in Keys : Remove32(k) \/ RemoveString(k)
  \/ \E k \in Keys, d \in Data : Insert32(k, d) \/ InsertString(k, d)
  \/ \E key \in Words \X Words, d \in Data : Insert32Array(key, d)
  \/ \E low \in Keys, high \in Highs, d \in Data : ItreeInsert(low, high, d)
  \/ ResetCb

TreeSpec == TreeInit /\ [][TreeNext]_treeVars

---------------------------------------------------------------------------
(* Properties *)

(* Nodes on every path from n down to a leaf that are black, or -1 when   *)
(* paths differ, two reds follow each other, or a link back is wrong.     *)
RECURSIVE BlackHeight(_, _)
BlackHeight(t, n) ==
  IF n = NULL THEN 0
  ELSE LET l == t.node[n].left
           r == t.node[n].right
           hl == BlackHeight(t, l)
           hr == BlackHeight(t, r)
           linked(c) == c # NULL => /\ t.node[c].parent = n
                                    /\ ~(IsRed(t, n) /\ IsRed(t, c))
       IN IF hl < 0 \/ hl # hr \/ ~linked(l) \/ ~linked(r) THEN -1
          ELSE IF IsRed(t, n) THEN hl ELSE hl + 1

RECURSIVE InOrder(_, _)
InOrder(t, n) ==
  IF n = NULL THEN <<>>
  ELSE InOrder(t, t.node[n].left) \o <<n>> \o InOrder(t, t.node[n].right)

Ascending(s) == \A i \in 1 .. Len(s) - 1 : s[i] < s[i + 1]

(* Whatever was inserted in whatever order, every tree is a red-black     *)
(* tree: its nodes are all reached and in order, parents and children     *)
(* agree, the root is black, no red node has a red child and every path   *)
(* has as many black nodes.  rb_insert_case1 to 5 and the rotations have  *)
(* to keep this, recolouring and rotating at any height.                  *)
TreeSound ==
  \A id \in DOMAIN tree :
    LET t == tree[id]
        s == InOrder(t, t.root)
    IN /\ t.root # NULL => t.node[t.root].parent = NULL /\ ~IsRed(t, t.root)
       /\ BlackHeight(t, t.root) >= 0
       /\ Ascending(s)
       /\ {s[i] : i \in 1 .. Len(s)} = DOMAIN t.node

(* The greatest member of S that is at most k, or NULL. *)
GreatestLe(S, k) ==
  LET below == {x \in S : x <= k}
  IN IF below = {} THEN NULL ELSE CHOOSE x \in below : \A y \in below : y <= x

StoredAt(key) == IF key \in DOMAIN dict THEN dict[key] ELSE NULL

FirstWords == {k[1] : k \in DOMAIN dict}
SecondWords(w) == {k[2] : k \in {x \in DOMAIN dict : x[1] = w}}

(* Whatever was inserted and removed, in whatever order, every search     *)
(* answers with what was stored: lookup32 and lookup_string with the data *)
(* last stored under the key; lookup32_le with the data of the greatest   *)
(* key not above it, which is none when that key was removed; the array   *)
(* searches word by word; and a traversal sees each key once and in       *)
(* order, without the removed ones of a tree of strings (those of a tree  *)
(* of numbers stay).                                                      *)
TreeAnswers ==
  /\ kind \in {"int32", "string"} => \A k \in Keys :
       /\ Lookup(tree[<<>>], k) = StoredAt(<<k>>)
       /\ LET le == GreatestLe(FirstWords, k)
          IN LookupLe(tree[<<>>], k) = IF le = NULL THEN NULL ELSE dict[<<le>>]
  /\ kind = "array" => \A k1, k2 \in Words :
       /\ LookupArray(tree, <<k1, k2>>) = StoredAt(<<k1, k2>>)
       /\ LET w1 == GreatestLe(FirstWords, k1)
              w2 == GreatestLe(SecondWords(w1), k2)
          IN LookupArrayLe(tree, <<k1, k2>>)
               = IF w1 = NULL \/ w2 = NULL THEN NULL ELSE dict[<<w1, w2>>]
  /\ LET before(a, b) == a[1] < b[1] \/ (a[1] = b[1] /\ Len(a) = 2 /\ a[2] < b[2])
     IN /\ \A i \in 1 .. Len(Visited) - 1 : before(Visited[i], Visited[i + 1])
        /\ {Visited[i] : i \in 1 .. Len(Visited)}
             = {k \in DOMAIN dict : kind = "string" => dict[k] # NULL}

(* The nodes from n up to the root. *)
RECURSIVE PathUp(_, _)
PathUp(t, n) == IF n = NULL THEN {} ELSE {n} \cup PathUp(t, t.node[n].parent)

Overlapping(low, high) ==
  {n \in DOMAIN tree[<<>>].node : Overlap(n, tree[<<>>].node[n].high, low, high)}

FoundIn(low, high) == FindIntervals(tree[<<>>], tree[<<>>].root, low, high)

Queries == {q \in Sought \X Sought : kind = "itree" /\ q[1] <= q[2]}

(* A search of an interval tree lists only ranges that overlap the one    *)
(* asked for, and misses one only when a node above it went up in a       *)
(* rotation whose callback did not reach it, was not computed since, and  *)
(* has an edge below the range asked for.  Every edge update_max_edge did *)
(* compute covers what is below it.                                       *)
OverlapsFound ==
  \A q \in Queries :
    LET found == FoundIn(q[1], q[2])
        t == tree[<<>>]
    IN /\ found \subseteq Overlapping(q[1], q[2])
       /\ \A n \in Overlapping(q[1], q[2]) \ found :
            \E m \in PathUp(t, n) : t.node[m].stale /\ EdgeOf(t, m) < q[1]

(* A search of an interval tree lists every range that overlaps the one   *)
(* asked for: each node has the greatest edge below it and changes are    *)
(* propagated to the parents, as the comments on update_max_edge and      *)
(* update_edges_after_rotation say; the test of interval trees compares   *)
(* each search with a walk over all ranges.                               *)
FindsAllOverlaps == \A q \in Queries : FoundIn(q[1], q[2]) = Overlapping(q[1], q[2])
=============================================================================
