---------------------------- MODULE MCContainers ----------------------------
(***************************************************************************)
(* Small instances of the containers, of tvbuffs and of the tree of        *)
(* protocol items, for TLC: one per behaviour.                             *)
(***************************************************************************)
EXTENDS WmemTree, WmemMap, FrameDataSequence, Tvbuff, ProtoTree, TLC

CONSTANTS
  Containers,   \* the containers that are explored
  MostKeys      \* bound: keys in a tree that is no interval tree

VARIABLE container      \* the one that is used

MCInit ==
  /\ container \in Containers
  /\ TreeInit /\ MapInit /\ FramesInit /\ Init /\ ProtoInit
  /\ container # "tree" => kind = "int32"
  /\ container # "map" => \A k \in MapKeys : hash[k] = 0

MCNext ==
  /\ UNCHANGED container
  /\ \/ /\ container = "tree" /\ TreeNext
        /\ kind # "itree" => \A k \in DOMAIN dict' : k[1] <= MostKeys
        /\ UNCHANGED <<mapVars, framesVars, vars, protoVars>>
     \/ container = "map" /\ MapNext /\ UNCHANGED <<treeVars, framesVars, vars, protoVars>>
     \/ container = "frames" /\ FramesNext /\ UNCHANGED <<treeVars, mapVars, vars, protoVars>>
     \/ container = "tvbuffs" /\ Next /\ UNCHANGED <<treeVars, mapVars, framesVars, protoVars>>
     \/ container = "items" /\ ProtoNext /\ UNCHANGED <<treeVars, mapVars, framesVars, vars>>

MCSpec == MCInit /\ [][MCNext]_<<container, treeVars, mapVars, framesVars, vars, protoVars>>

Same == Permutations(Tvbs)

=============================================================================
