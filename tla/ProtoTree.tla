------------------------------ MODULE ProtoTree ------------------------------
(***************************************************************************)
(* The tree of protocol items that one dissection builds: epan/proto.c.    *)
(*                                                                         *)
(* An item of a tree that is not shown is only made when somebody needs    *)
(* it: a field is "primed" by who wants to find its items afterwards, and  *)
(* the mark for that, ref_type, is in the registered field, global to all  *)
(* packets.  The others are faked: the dissector gets the tree it wanted   *)
(* to add to, in place of an item.                                         *)
(*                                                                         *)
(* Dissectors are external: they add items below any tree they hold, call  *)
(* each other, throw, catch, and leave items out as the comment before     *)
(* proto_field_is_referenced allows.                                       *)
(***************************************************************************)
EXTENDS Integers, Sequences, FiniteSets, SequencesExt, FiniteSetsExt

CONSTANTS
  Protocols,        \* registered protocols
  Fields,           \* the fields of each
  MaxTreeItems,     \* MAX_TREE_ITEMS, 1000000 in the code
  MaxTreeLevels,    \* MAX_TREE_LEVELS, 500 in the code
  MaxAdds,          \* items that dissectors add to a tree, or try to
  MaxBeforeCall,    \* items added before a dissector calls another
  MaxDissectors     \* dissectors within each other

ASSUME ProtoTreeAssumption ==
  /\ MaxTreeItems \in Nat \ {0} /\ MaxTreeLevels \in Nat \ {0}

VARIABLES
  refType,      \* ref_type of each field
  phase,        \* "none", or the tree is "ready", "running" or "done"
  nodes,        \* the nodes of the tree, the root first
  data,         \* tree_data_t: visible, fake_protocols, count, interesting_hfids
  dissectors,   \* who is dissecting: the protocol, the tree given, trees held
  primed,       \* history: the fields primed for this tree
  asked,        \* history: how many items of each field were added
  rows          \* history: the children of each node, in order

protoVars == <<refType, phase, nodes, data, dissectors, primed, asked, rows>>

Null == 0       \* no node
Root == 1

(* The registered fields: protocols, and the fields of each. *)
Hf == {<<p>> : p \in Protocols} \cup (Protocols \X Fields)
IsProtocol(hf) == Len(hf) = 1
Parent(hf) == <<hf[1]>>

NewNode(hf, parent) ==
  [hf |-> hf, parent |-> parent, first |-> Null, last |-> Null, next |-> Null]
NoneTracked == [hf \in Hf |-> << >>]
TreeData(visible, fake) ==
  [visible |-> visible, fake_protocols |-> fake, count |-> 0, interesting |-> NoneTracked]
NoData == TreeData(FALSE, TRUE)

-----------------------------------------------------------------------------
(***************************************************************************)
(* Who owns a tree: create, prime, run, reset, free.                       *)
(***************************************************************************)

(* What a new tree and one that was reset begin with. *)
FreshTree ==
  /\ phase' = "ready" /\ dissectors' = << >>
  /\ nodes' = << NewNode(<< >>, Null) >>
  /\ primed' = {} /\ asked' = [hf \in Hf |-> 0] /\ rows' = << << >> >>

ProtoInit ==
  /\ refType = [hf \in Hf |-> "none"]
  /\ phase = "none" /\ dissectors = << >> /\ nodes = << >>
  /\ data = NoData
  /\ primed = {} /\ asked = [hf \in Hf |-> 0] /\ rows = << >>

(* proto_tree_create_root and proto_tree_set_visible, as epan_dissect_init *)
(* calls them, and epan_dissect_fake_protocols.  In a tree that is shown   *)
(* fake_protocols is not looked at.                                        *)
CreateRoot(visible, fake) ==
  /\ phase = "none" /\ (visible => fake)
  /\ FreshTree
  /\ data' = TreeData(visible, fake)
  /\ UNCHANGED refType

PrimeWithHfid(hf) ==
  /\ phase = "ready"
  /\ primed' = primed \cup {hf}
  /\ refType' = LET direct == [refType EXCEPT ![hf] = "direct"] IN
                IF IsProtocol(hf) \/ direct[Parent(hf)] = "direct"
                THEN direct ELSE [direct EXCEPT ![Parent(hf)] = "indirect"]
  /\ UNCHANGED <<phase, nodes, data, dissectors, asked, rows>>

(* free_GPtrArray_value, for each field that items were found of. *)
Unreferenced ==
  LET seen == {hf \in Hf : data.interesting[hf] # << >> /\ refType[hf] # "none"}
  IN  [hf \in Hf |-> IF hf \in seen \/ \E f \in seen : hf = Parent(f)
                     THEN "none" ELSE refType[hf]]

ResetTree ==
  /\ phase \in {"ready", "done"}
  /\ refType' = Unreferenced
  /\ FreshTree
  /\ data' = [data EXCEPT !.count = 0, !.interesting = NoneTracked]

FreeTree ==
  /\ phase \in {"ready", "done"}
  /\ refType' = Unreferenced
  /\ phase' = "none" /\ nodes' = << >> /\ rows' = << >>
  /\ data' = NoData
  /\ primed' = {} /\ asked' = [hf \in Hf |-> 0]
  /\ UNCHANGED dissectors

-----------------------------------------------------------------------------
(***************************************************************************)
(* Dissectors.                                                             *)
(***************************************************************************)

(* Mutant: the tree of a protocol is left out unless the protocol itself   *)
(* is looked for.                                                          *)
FieldIsReferenced_DirectOnly(tree, hf) ==
  /\ tree # Null
  /\ \/ data.visible
     \/ refType[hf] = "direct"
     \/ IsProtocol(hf) /\ ~data.fake_protocols

(* proto_field_is_referenced *)
FieldIsReferenced(tree, hf) ==
  /\ tree # Null
  /\ \/ data.visible
     \/ refType[hf] # "none"
     \/ IsProtocol(hf) /\ ~data.fake_protocols

(* A dissector is given a tree.  It may ask whether its protocol is        *)
(* referenced, and go on without a tree if not; what it calls itself still *)
(* gets the tree that it was given.                                        *)
Dissect(protocol, tree, asks) ==
  dissectors' = Append(dissectors,
    [protocol |-> protocol, given |-> tree,
     held |-> {IF asks /\ ~FieldIsReferenced(tree, <<protocol>>) THEN Null ELSE tree}])

(* The items that were added, or left out with the tree. *)
Adds == MapThenSumSet(LAMBDA hf : asked[hf], Hf)

Run(protocol, asks) ==
  /\ phase = "ready" /\ phase' = "running"
  /\ Dissect(protocol, Root, asks)
  /\ UNCHANGED <<refType, nodes, data, primed, asked, rows>>

Call(protocol, tree, asks) ==
  /\ phase = "running" /\ Len(dissectors) < MaxDissectors /\ Adds <= MaxBeforeCall
  /\ tree \in (Last(dissectors).held \cup {Last(dissectors).given}) \ {Null}
  /\ Dissect(protocol, tree, asks)
  /\ UNCHANGED <<refType, phase, nodes, data, primed, asked, rows>>

(* The innermost dissector returns, or, with fewer, one further out        *)
(* catches what was thrown.                                                *)
BackTo(n) ==
  /\ dissectors' = SubSeq(dissectors, 1, n)
  /\ phase' = IF n = 0 THEN "done" ELSE phase

Return ==
  /\ phase = "running"
  /\ BackTo(Len(dissectors) - 1)
  /\ UNCHANGED <<refType, nodes, data, primed, asked, rows>>

Catch == \E n \in 0 .. Len(dissectors) : BackTo(n)

(* TRY_TO_FAKE_THIS_ITEM: whether the tree itself is returned. *)
Faked(tree, hf) ==
  /\ ~data.visible /\ tree # Root
  /\ refType[hf] # "direct"
  /\ ~IsProtocol(hf) \/ data.fake_protocols

(* The loop over parents in proto_tree_add_node: the nodes up to the root. *)
Level(node) ==
  LET up[n \in 1 .. node] == IF n = Root THEN 1 ELSE 1 + up[nodes[n].parent]
  IN  up[node]
TooDeep(tree) == nodes[tree].first = Null /\ Level(tree) + 1 > MaxTreeLevels

(* proto_tree_add_node, once the depth is checked. *)
AddNode(tree, hf) ==
  LET new == Len(nodes) + 1
      linked == IF nodes[tree].last # Null
                THEN [nodes EXCEPT ![nodes[tree].last].next = new, ![tree].last = new]
                ELSE [nodes EXCEPT ![tree].first = new, ![tree].last = new]
  IN  Append(linked, NewNode(hf, tree))

(* tree_data_add_maybe_interesting_field *)
Tracked(hf, node) ==
  IF refType[hf] = "direct" THEN [data.interesting EXCEPT ![hf] = Append(@, node)]
  ELSE data.interesting

(* The dissector gets an item, and holds the tree that                     *)
(* proto_item_add_subtree makes of it.                                     *)
Got(item, hf) ==
  /\ asked' = [asked EXCEPT ![hf] = @ + 1]
  /\ dissectors' = [dissectors EXCEPT ![Len(dissectors)].held = @ \cup {item}]
  /\ UNCHANGED phase

(* proto_tree_add_item and the others: nothing without a tree, an exception *)
(* when there are too many items, a faked item, or a node; but an exception *)
(* when the value cannot be read (proto_tree_new_item), as is always so     *)
(* when the node would be too deep.                                         *)
AddItem(hf, tree) ==
  /\ phase = "running"
  /\ Adds < MaxAdds
  /\ hf[1] = Last(dissectors).protocol /\ tree \in Last(dissectors).held
  /\ UNCHANGED <<refType, primed>>
  /\ \/ /\ tree = Null
        /\ Got(Null, hf)
        /\ UNCHANGED <<nodes, data, rows>>
     \/ /\ tree # Null /\ data.count + 1 > MaxTreeItems
        /\ data' = [data EXCEPT !.count = 0]
        /\ Catch
        /\ UNCHANGED <<nodes, asked, rows>>
     \/ /\ tree # Null /\ data.count + 1 <= MaxTreeItems
        /\ \/ /\ Faked(tree, hf)
              /\ data' = [data EXCEPT !.count = @ + 1]
              /\ Got(tree, hf)
              /\ UNCHANGED <<nodes, rows>>
           \/ /\ ~Faked(tree, hf)
              /\ data' = [data EXCEPT !.count = @ + 1]
              /\ Catch
              /\ UNCHANGED <<nodes, asked, rows>>
           \/ /\ ~Faked(tree, hf) /\ ~TooDeep(tree)
              /\ nodes' = AddNode(tree, hf)
              /\ data' = [data EXCEPT !.count = @ + 1,
                                      !.interesting = Tracked(hf, Len(nodes'))]
              /\ rows' = Append([rows EXCEPT ![tree] = Append(@, Len(nodes'))], << >>)
              /\ Got(Len(nodes'), hf)

(* The child before a node, in the loop of proto_tree_move_item; that     *)
(* there is one is asserted.                                               *)
Linked(tree, node) == nodes[tree].first = node \/ \E n \in DOMAIN nodes : nodes[n].next = node
Before(node) == CHOOSE n \in DOMAIN nodes : nodes[n].next = node

(* Mutant: the last child stays the last. *)
PutBehind_KeepsLast(cut, tree, fixed, item) ==
  [cut EXCEPT ![item].next = cut[fixed].next, ![fixed].next = item]

(* proto_tree_move_item: cut out of the row, then put behind fixed. *)
CutOut(tree, item) ==
  IF nodes[tree].first = item
  THEN [nodes EXCEPT ![tree].first = nodes[item].next]
  ELSE [nodes EXCEPT ![Before(item)].next = nodes[item].next,
                     ![tree].last = IF @ = item THEN Before(item) ELSE @]
PutBehind(cut, tree, fixed, item) ==
  [cut EXCEPT ![item].next = cut[fixed].next, ![fixed].next = item,
              ![tree].last = IF @ = fixed THEN item ELSE @]

(* What that makes of a row: the item behind the fixed one. *)
At(row, node) == CHOOSE i \in DOMAIN row : row[i] = node
Moved(row, fixed, item) ==
  LET others == RemoveAt(row, At(row, item))
  IN  InsertAt(others, At(others, fixed) + 1, item)

MoveItem(tree, fixed, item) ==
  /\ phase = "running" /\ data.visible
  /\ tree \in Last(dissectors).held \ {Null}
  /\ {fixed, item} \subseteq {n \in DOMAIN nodes : nodes[n].parent = tree} /\ fixed # item
  /\ Linked(tree, item)
  /\ nodes' = PutBehind(CutOut(tree, item), tree, fixed, item)
  /\ rows' = [rows EXCEPT ![tree] = Moved(rows[tree], fixed, item)]
  /\ UNCHANGED <<refType, phase, data, dissectors, primed, asked>>

(* A dissector throws on its own account. *)
DissectorThrows ==
  /\ phase = "running" /\ Catch
  /\ UNCHANGED <<refType, nodes, data, primed, asked, rows>>

ProtoNext ==
  \/ \E visible, fake \in BOOLEAN : CreateRoot(visible, fake)
  \/ \E hf \in Hf : PrimeWithHfid(hf)
  \/ \E p \in Protocols, asks \in BOOLEAN :
        Run(p, asks) \/ \E tree \in DOMAIN nodes : Call(p, tree, asks)
  \/ Return
  \/ \E hf \in Hf, tree \in {Null} \cup DOMAIN nodes : AddItem(hf, tree)
  \/ \E tree, fixed, item \in DOMAIN nodes : MoveItem(tree, fixed, item)
  \/ DissectorThrows
  \/ ResetTree \/ FreeTree

ProtoSpec == ProtoInit /\ [][ProtoNext]_protoVars

-----------------------------------------------------------------------------

(* The order of the code's loop over a row: the n-th child of a node. *)
Walk(tree, most) ==
  LET nth[n \in 1 .. most] ==
        IF n = 1 THEN nodes[tree].first
        ELSE IF nth[n - 1] = Null THEN Null ELSE nodes[nth[n - 1]].next
  IN  nth

(* The links of a tree are right after items were added and moved: from    *)
(* first_child each node's children are reached in their order and no      *)
(* others, last_child is the last of them, a child names its parent, and   *)
(* no branch is deeper than proto_tree_traverse_pre_order's recursion      *)
(* allows.                                                                 *)
TreeLinked ==
  \A tree \in DOMAIN nodes :
    LET row == rows[tree]
        walk == Walk(tree, Len(row) + 1)
    IN  /\ \A n \in DOMAIN row : walk[n] = row[n] /\ nodes[row[n]].parent = tree
        /\ walk[Len(row) + 1] = Null
        /\ nodes[tree].last = IF row = << >> THEN Null ELSE Last(row)
        /\ Level(tree) <= MaxTreeLevels

Ascends(s) == \A i, j \in DOMAIN s : i < j => s[i] < s[j]

(* What is looked for is found, whatever is faked and whatever dissectors  *)
(* leave out: of a field that was primed, of each when the tree is shown,  *)
(* and of a protocol when those are not to be faked, there is a node for   *)
(* each item that a dissector added; and interesting_hfids has exactly the *)
(* nodes of the primed ones, in their order, though ref_type still holds   *)
(* what earlier packets left there.                                        *)
PrimedFound ==
  phase # "none" =>
    \A hf \in Hf :
      LET found == {n \in DOMAIN nodes : nodes[n].hf = hf}
      IN  /\ (\/ hf \in primed \/ data.visible \/ (IsProtocol(hf) /\ ~data.fake_protocols))
               => Cardinality(found) = asked[hf]
          /\ hf \in primed => /\ ToSet(data.interesting[hf]) = found
                             /\ Ascends(data.interesting[hf])

=============================================================================
