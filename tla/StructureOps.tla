---------------------------- MODULE StructureOps ----------------------------
(***************************************************************************)
(* The data of one MapRootDb structure (src/src/structure.rs, src/src/     *)
(* node.rs) and the operations on it, as operators from a structure value  *)
(* to a verdict or to the next structure value; Structure.tla turns them   *)
(* into actions.  An operator whose comment says "Fault" is no part of the *)
(* model: it is the operator after it with a likely mistake, put in its    *)
(* place to see that the properties notice.                                *)
(*                                                                         *)
(* A structure is a record.  The functions value, parents and children are *)
(* total over Keys; a key without a node has NoValue and no links, because *)
(* the node object the code drops is not part of the structure any more.   *)
(***************************************************************************)
EXTENDS Sequences, Functions

CONSTANTS Keys,       \* the non-empty node keys
          Values,     \* what a node may hold (the type parameter T)
          KeyLists,   \* the lists of keys a caller may pass
          EmptyKey,   \* the empty string, which is never a node key
          NoRoot,     \* None, where the root is an Option
          NoValue     \* the value of a key without a node

ASSUME SentinelsAssumption == /\ EmptyKey \notin Keys
                              /\ NoRoot \notin Keys
                              /\ NoValue \notin Values

ASSUME KeyListsAssumption == KeyLists \subseteq Seq(Keys)

Modes == {"semi-strict", "un-strict"}

(* StructureError, plus Ok for success and Refused for a `false` result.   *)
Verdicts == {"Ok", "Refused", "EmptyNodeKey", "DuplicateNodeKey",
             "ModeViolation", "MissingParent", "MissingChild", "SelfEdge",
             "DuplicateEdge", "DuplicateRelationship", "Cycle"}

Structures == [root     : Keys \cup {NoRoot},
               nodes    : SUBSET Keys,
               mode     : Modes,
               hasFirst : BOOLEAN,
               value    : [Keys -> Values \cup {NoValue}],
               parents  : [Keys -> SUBSET Keys],
               children : [Keys -> SUBSET Keys]]

-----------------------------------------------------------------------------
(* Construction: try_new refuses the mode and the root key before new.     *)

(* Fault: the root key is not looked at.                                   *)
NewChecksModeOnly(root, mode) == mode \in Modes

NewAccepted(root, mode) == mode \in Modes /\ root # EmptyKey

EmptyStructure(mode) ==
  [root |-> NoRoot, nodes |-> {}, mode |-> mode, hasFirst |-> FALSE,
   value    |-> [k \in Keys |-> NoValue],
   parents  |-> [k \in Keys |-> {}],
   children |-> [k \in Keys |-> {}]]

WithRoot(root, v, mode) ==
  [EmptyStructure(mode) EXCEPT !.root = root, !.nodes = {root},
                               !.hasFirst = TRUE, !.value[root] = v]

-----------------------------------------------------------------------------
(* Paths.  has_path follows children that are nodes of this structure, from *)
(* a start key that need not be one.  A target is reached when every set   *)
(* that holds the start and is closed under that step holds the target;    *)
(* PathSearch.tla shows that the depth-first search computes just this.    *)

Successors(s, x) == {y \in s.children[x] : x \in s.nodes /\ y \in s.nodes}

Closed(s, C) == \A x \in C : Successors(s, x) \subseteq C

(* Fault: the search does not go past the start's own children.            *)
HasPathOneStep(s, start, target) ==
  start = target \/ target \in Successors(s, start)

HasPath(s, start, target) ==
  \A C \in SUBSET Keys : start \in C /\ Closed(s, C) => target \in C

-----------------------------------------------------------------------------
(* Insertion.  A caller passes a node it has just made, so the node's own  *)
(* links are empty when add_node tests them.                               *)

SemiStrictTest(s, nodeParents, nodeChildren) ==
  IF nodeParents = {} /\ nodeChildren = {}
  THEN ~s.hasFirst
  ELSE (nodeParents \cup nodeChildren) \cap s.nodes # {}

AddNodeVerdict(s, k) ==
  IF k = EmptyKey THEN "EmptyNodeKey"
  ELSE IF k \in s.nodes THEN "DuplicateNodeKey"
  ELSE IF s.mode = "semi-strict" /\ ~SemiStrictTest(s, {}, {})
       THEN "ModeViolation"
  ELSE "Ok"

AddNodeWithEdgesVerdict(s, k, parentKeys, childKeys) ==
  IF k = EmptyKey THEN "EmptyNodeKey"
  ELSE IF k \in s.nodes THEN "DuplicateNodeKey"
  ELSE IF parentKeys = <<>> /\ childKeys = <<>> THEN AddNodeVerdict(s, k)
  ELSE IF ~IsInjective(parentKeys) \/ ~IsInjective(childKeys)
       THEN "DuplicateRelationship"
  ELSE IF k \in Range(parentKeys) \cup Range(childKeys) THEN "SelfEdge"
  ELSE IF ~(Range(parentKeys) \subseteq s.nodes) THEN "MissingParent"
  ELSE IF ~(Range(childKeys) \subseteq s.nodes) THEN "MissingChild"
  ELSE IF \E c \in Range(childKeys), p \in Range(parentKeys) : HasPath(s, c, p)
       THEN "Cycle"
  ELSE "Ok"

Insert(s, k, v) == [s EXCEPT !.nodes = @ \cup {k}, !.hasFirst = TRUE,
                             !.value[k] = v]

(* Fault: the listed children do not learn of their new parent.            *)
LinkNodeOneWay(s, k, P, Q) ==
  [s EXCEPT !.children = [x \in Keys |->
                            @[x] \cup IF x = k THEN Q \ {k}
                                      ELSE IF x \in P THEN {k} ELSE {}],
            !.parents[k] = @ \cup (P \ {k})]

(* add_child for every listed parent and child of the node k: both ends of *)
(* a link are written, and a node is never linked to itself.               *)
LinkNode(s, k, P, Q) ==
  [s EXCEPT
     !.children = [x \in Keys |-> (@[x] \cup IF x \in P \ {k} THEN {k} ELSE {})
                                        \cup IF x = k THEN Q \ {k} ELSE {}],
     !.parents  = [x \in Keys |-> (@[x] \cup IF x \in Q \ {k} THEN {k} ELSE {})
                                        \cup IF x = k THEN P \ {k} ELSE {}]]

InsertLinked(s, k, v, P, Q) == LinkNode(Insert(s, k, v), k, P, Q)

-----------------------------------------------------------------------------
(* Edges between two nodes of the structure.                               *)

AddEdgeVerdict(s, p, c) ==
  IF p = c THEN "SelfEdge"
  ELSE IF p \notin s.nodes THEN "MissingParent"
  ELSE IF c \notin s.nodes THEN "MissingChild"
  ELSE IF c \in s.children[p] THEN "DuplicateEdge"
  ELSE IF HasPath(s, c, p) THEN "Cycle"
  ELSE "Ok"

AddChild(s, p, c) ==
  IF p = c THEN s
  ELSE [s EXCEPT !.children[p] = @ \cup {c}, !.parents[c] = @ \cup {p}]

-----------------------------------------------------------------------------
(* Deletion.                                                               *)

(* Fault: the node being deleted counts as the neighbour's other relation. *)
SemiStrictCheckWithoutLimit(s, node, offLimit) ==
  \E other \in s.children[node] \cup s.parents[node] : other \in s.nodes

(* Fault: a neighbour's parents are not looked at.                         *)
SemiStrictCheckChildren(s, node, offLimit) ==
  \E other \in s.children[node] : other # offLimit /\ other \in s.nodes

SemiStrictCheckForOne(s, node, offLimit) ==
  \E other \in s.children[node] \cup s.parents[node] :
     other # offLimit /\ other \in s.nodes

Isolated(s, k) == s.parents[k] = {} /\ s.children[k] = {}

(* Fault: the parents of the deleted node may be left alone.               *)
DeleteVerdictSkipsParents(s, k) ==
  IF k \notin s.nodes THEN "Refused"
  ELSE IF s.mode = "un-strict" THEN "Ok"
  ELSE IF \A n \in s.children[k] : SemiStrictCheckForOne(s, n, k)
       THEN "Ok" ELSE "Refused"

DeleteVerdict(s, k) ==
  IF k \notin s.nodes THEN "Refused"
  ELSE IF s.mode = "un-strict" THEN "Ok"
  ELSE IF Isolated(s, k) THEN IF s.hasFirst THEN "Ok" ELSE "Refused"
  ELSE IF \A n \in s.parents[k] \cup s.children[k] :
             SemiStrictCheckForOne(s, n, k)
       THEN "Ok" ELSE "Refused"

(* delete_node takes the node out of the sets of exactly those neighbours  *)
(* its own sets list.                                                      *)
Unlink(s, k) ==
  [s EXCEPT
     !.children = [x \in Keys |-> IF x = k THEN {}
                                  ELSE IF x \in s.parents[k] THEN @[x] \ {k}
                                  ELSE @[x]],
     !.parents  = [x \in Keys |-> IF x = k THEN {}
                                  ELSE IF x \in s.children[k] THEN @[x] \ {k}
                                  ELSE @[x]]]

(* Fault: the root is dropped, whichever node goes.                        *)
RootDropped(s, k) == NoRoot

RootAfterDelete(s, k) == IF s.root = k THEN NoRoot ELSE s.root

(* Fault: the un-strict branch does not look whether a node is left.       *)
FlagAfterStrictDelete(s, k) ==
  s.hasFirst /\ ~(s.mode = "semi-strict" /\ Isolated(s, k))

(* An accepted deletion in semi-strict mode of a node without links always *)
(* forgets the first node; the other branches only when no node is left.   *)
FlagAfterDelete(s, k) ==
  /\ s.hasFirst
  /\ s.nodes # {k}
  /\ ~(s.mode = "semi-strict" /\ Isolated(s, k))

DeleteNode(s, k) ==
  [Unlink(s, k) EXCEPT !.nodes    = @ \ {k},
                       !.root     = RootAfterDelete(s, k),
                       !.value[k] = NoValue,
                       !.hasFirst = FlagAfterDelete(s, k)]

-----------------------------------------------------------------------------
EditVerdict(s, k) == IF k \in s.nodes THEN "Ok" ELSE "Refused"

EditNode(s, k, v) == [s EXCEPT !.value[k] = v]

-----------------------------------------------------------------------------
(* What every operation keeps of a structure; Structure.tla says what each *)
(* part means for the code.                                                *)

Mirrored(s) == \A p, c \in Keys : c \in s.children[p] <=> p \in s.parents[c]

Inside(s) == \A k \in Keys : /\ s.children[k] \cup s.parents[k] \subseteq s.nodes
                             /\ k \notin s.nodes => Isolated(s, k)

NoCycle(s) == \A S \in SUBSET Keys :
                S # {} => \E x \in S : S \cap s.children[x] = {}

RootIsNode(s) == s.root \in s.nodes \cup {NoRoot}

FlagExact(s) == s.hasFirst <=> s.nodes # {}

NoneAlone(s) == s.mode = "semi-strict" =>
                  \A k \in s.nodes : Isolated(s, k) => s.nodes = {k}

WellFormed(s) == /\ s \in Structures
                 /\ Mirrored(s)
                 /\ Inside(s)
                 /\ NoCycle(s)
                 /\ RootIsNode(s)
                 /\ FlagExact(s)
                 /\ NoneAlone(s)

EdgesOf(s) == {e \in Keys \X Keys : e[2] \in s.children[e[1]]}

=============================================================================
