------------------------- MODULE FrameDataSequence -------------------------
(***************************************************************************)
(* The radix tree of frame_data_sequence.c that holds the frames of a      *)
(* capture file.                                                           *)
(*                                                                         *)
(* A node is an array named by its level, 1 for a leaf, and the index of   *)
(* the first frame below it; a frame is named <<0, its number>>.  Free     *)
(* destroys frames and arrays; what it reads outside of an array is        *)
(* undefined and ends the behaviour.                                       *)
(***************************************************************************)
EXTENDS Integers, FiniteSets, SequencesExt

CONSTANTS
  Nodes,        \* NODES_PER_LEVEL, 1024 in the code
  MaxFrames     \* frames a behaviour adds at most

MaxLevels == 4

ASSUME FrameDataSequenceAssumption ==
  /\ Nodes \in Nat /\ Nodes >= 2
  /\ MaxFrames \in 0 .. Nodes ^ MaxLevels

VARIABLES
  count,        \* frames added
  root,         \* the root node, or Nil
  heap,         \* the arrays allocated: node -> index -> node or frame
  released,     \* frames destroyed and arrays freed, in order
  outcome       \* "open", "freed", or "wild" when Free leaves an array

framesVars == <<count, root, heap, released, outcome>>

Nil == <<>>

(* LEVEL_3_INDEX to LEAF_INDEX: the index into a node of a level. *)
IndexAt(level, num) == (num \div Nodes ^ (level - 1)) % Nodes

(* The levels of the tree that holds n frames. *)
Levels(n) ==
  IF n = 0 THEN 0 ELSE CHOOSE l \in 1 .. MaxLevels :
    /\ l < MaxLevels => n <= Nodes ^ l
    /\ l > 1 => n > Nodes ^ (l - 1)

FramesInit ==
  /\ count = 0
  /\ root = Nil
  /\ heap = <<>>
  /\ released = <<>>
  /\ outcome = "open"

---------------------------------------------------------------------------

(* g_malloc0 of a node; a leaf is not cleared, and never read before it   *)
(* is written.                                                            *)
Alloc(h, node) ==
  [n \in DOMAIN h \cup {node} |-> IF n = node THEN [i \in 0 .. Nodes - 1 |-> Nil] ELSE h[n]]

(* Down from node to the place of the next frame: what is missing on the  *)
(* way is allocated.                                                      *)
RECURSIVE PlaceBelow(_, _)
PlaceBelow(h, node) ==
  LET i == IndexAt(node[1], count)
      child == <<node[1] - 1, count - (count % Nodes ^ (node[1] - 1))>>
      linked == IF h[node][i] # Nil THEN h ELSE [Alloc(h, child) EXCEPT ![node][i] = child]
  IN IF node[1] = 1 THEN [h EXCEPT ![node][i] = <<0, count + 1>>]
     ELSE PlaceBelow(linked, linked[node][i])

(* frame_data_sequence_add: the first frame brings a leaf; a tree that is *)
(* full becomes the first child of a new root.                            *)
Add ==
  LET height == Levels(count + 1)
      top == <<height, 0>>
      grown == IF height = Levels(count) THEN heap
               ELSE IF count = 0 THEN Alloc(heap, top)
               ELSE [Alloc(heap, top) EXCEPT ![top][0] = root]
  IN /\ outcome = "open"
     /\ count < MaxFrames
     /\ root' = IF height = Levels(count) THEN root ELSE top
     /\ heap' = PlaceBelow(grown, root')
     /\ count' = count + 1
     /\ UNCHANGED <<released, outcome>>

RECURSIVE FindBelow(_, _, _)
FindBelow(node, level, num) ==
  IF level = 0 THEN node ELSE FindBelow(heap[node][IndexAt(level, num)], level - 1, num)

(* frame_data_sequence_find: there is no frame 0. *)
Find(num) ==
  IF num = 0 \/ num - 1 >= count THEN Nil ELSE FindBelow(root, Levels(count), num - 1)

(* Mutant: the last node of a level counts only when it is full. *)
LevelCount_FullOnly(level, last) == IF ~last THEN Nodes ELSE IndexAt(level, count)

(* The level_count of free_frame_data_array. *)
LevelCount(level, last) ==
  IF ~last THEN Nodes
  ELSE IndexAt(level, count) + IF count % Nodes ^ (level - 1) # 0 THEN 1 ELSE 0

Wild == <<"wild">>

(* free_frame_data_array: children first, then the array.  The loop runs  *)
(* to level_count - 1, which for 0 is the greatest guint: it leaves the   *)
(* array after its last child.                                            *)
RECURSIVE FreeArray(_, _, _)
FreeArray(node, level, last) ==
  LET n == LevelCount(level, last)
      child(i) == FreeArray(heap[node][i], level - 1, last /\ i = n - 1)
      below(k) == FlattenSeq([i \in 1 .. k |-> child(i - 1)])
  IN IF level = 1 THEN [i \in 1 .. n |-> heap[node][i - 1]] \o <<node>>
     ELSE IF n = 0 THEN below(Nodes) \o <<Wild>>
     ELSE below(n) \o <<node>>

(* free_frame_data_sequence *)
Free ==
  LET done == IF count = 0 THEN <<>> ELSE FreeArray(root, Levels(count), TRUE) IN
  /\ outcome = "open"
  /\ released' = done
  /\ outcome' = IF Contains(done, Wild) THEN "wild" ELSE "freed"
  /\ UNCHANGED <<count, root, heap>>

FramesNext == Add \/ Free

FramesSpec == FramesInit /\ [][FramesNext]_framesVars

---------------------------------------------------------------------------

(* Every frame number finds the frame that was added as the n-th, through *)
(* every change of the tree's height, and no other number finds one.      *)
FindsFrames ==
  outcome = "open" => \A num \in 0 .. count + 1 :
    Find(num) = IF num \in 1 .. count THEN <<0, num>> ELSE Nil

Allocated == DOMAIN heap \cup {<<0, num>> : num \in 1 .. count}

(* Free destroys no frame and frees no array twice, and no array before   *)
(* what it holds.  Unless the last leaf is full to the end, it stays      *)
(* inside of its arrays and nothing is left.                              *)
FreesOnce ==
  /\ Cardinality(ToSet(released)) = Len(released)
  /\ ToSet(released) \subseteq Allocated \cup {Wild}
  /\ \A i, j \in DOMAIN released :
       i < j /\ released[i] \in DOMAIN heap
         => \A k \in 0 .. Nodes - 1 : heap[released[i]][k] # released[j]
  /\ outcome # "open" /\ count % Nodes # 0
       => outcome = "freed" /\ ToSet(released) = Allocated

(* Whatever number of frames is added, each is found, through every       *)
(* change of the tree's height, and a free takes each at most once, and   *)
(* all of them when the last leaf has room.                               *)
FramesSound == FindsFrames /\ FreesOnce

(* free_frame_data_sequence frees the sequence "and all the frame_data    *)
(* structures in it", as its comment says.                                *)
FreesAllFrames == outcome # "open" => ToSet(released) = Allocated
=============================================================================
