------------------------------ MODULE NodeHeap ------------------------------
(***************************************************************************)
(* Structures as they lie in memory (src/src/node.rs, src/src/             *)
(* structure.rs): node objects whose sets hold other node objects, hashed  *)
(* and compared by key, and for each structure a map from keys to objects. *)
(* Callers own handles to the objects, before they are added, while a      *)
(* structure holds them and after they are deleted, and may pass any of    *)
(* them to any structure.  Structure.tla has keys where this module has    *)
(* objects, which is right for callers who pass every node once: see       *)
(* Refines.  Values play no part here, so every node holds the same one.   *)
(***************************************************************************)
EXTENDS SnapshotOps

CONSTANTS Owners,        \* the structures
          Handles,       \* the node objects
          KeyOf,         \* the key each was made with
          NoHandle,      \* None
          PassesAgain    \* may callers pass a node that a structure has, or had?

ASSUME HandlesAssumption == /\ KeyOf \in [Handles -> Keys \cup {EmptyKey}]
                            /\ NoHandle \notin Handles
                            /\ PassesAgain \in BOOLEAN

(* A node always has a value (the field is a T, not an Option).            *)
ASSUME ValuesAssumption == Values # {}

VARIABLES nodes,      \* each structure's map from keys to objects
          root, mode, hasFirst,
          parents,    \* the two sets of every object, in a structure or not
          children

links == <<parents, children>>
vars == <<nodes, root, mode, hasFirst, links>>

Held(o) == {k \in Keys : nodes[o][k] # NoHandle}

KeysOf(S) == {KeyOf[h] : h \in S}

(* A structure as its callers see it through keys.                         *)
View(o) ==
  LET Seen(sets) == [k \in Keys |-> IF k \in Held(o) THEN KeysOf(sets[nodes[o][k]]) ELSE {}]
  IN  [root |-> IF root[o] = NoHandle THEN NoRoot ELSE KeyOf[root[o]],
       nodes |-> Held(o), mode |-> mode[o], hasFirst |-> hasFirst[o],
       value |-> [k \in Keys |-> IF k \in Held(o) THEN CHOOSE v \in Values : TRUE ELSE NoValue],
       parents |-> Seen(parents), children |-> Seen(children)]

-----------------------------------------------------------------------------
(* HashSet::insert keeps the element it finds under an equal key, and      *)
(* HashSet::remove takes out whatever object has the key.                  *)

(* Fault: the sets are overwritten.                                        *)
JoinOverwrites(S, T) == IF T = {} THEN S ELSE T

Join(S, T) == S \cup {t \in T : KeyOf[t] \notin KeysOf(S)}

(* Fault: a copy of the set is changed, not the object's.                  *)
UnlinkedCopy(sets, holders, k) == sets

Unlinked(sets, holders, k) ==
  [x \in Handles |-> IF x \in holders THEN {y \in sets[x] : KeyOf[y] # k} ELSE sets[x]]

(* add_child between h and the structure's objects under the keys P and Q. *)
LinkTo(o, h, P, Q) ==
  LET above == {nodes[o][p] : p \in P}
      below == {nodes[o][c] : c \in Q}
  IN  /\ children' = [x \in Handles |->
                        IF x = h THEN Join(children[h], below)
                        ELSE IF x \in above THEN Join(children[x], {h})
                        ELSE children[x]]
      /\ parents'  = [x \in Handles |->
                        IF x = h THEN Join(parents[h], above)
                        ELSE IF x \in below THEN Join(parents[x], {h})
                        ELSE parents[x]]

-----------------------------------------------------------------------------
InSome(h) == \E o \in Owners : h \in Range(nodes[o])

(* An object nobody refers to and that refers to nobody, like a new one.   *)
Unlinkable(h) == \A x \in Handles : h \notin parents[x] \cup children[x]

Clean(h) == ~InSome(h) /\ parents[h] = {} /\ children[h] = {} /\ Unlinkable(h)

Passable(h) == PassesAgain \/ Clean(h)

Init == /\ mode \in [Owners -> Modes]
        /\ root \in [Owners -> Handles \cup {NoHandle}]
        /\ \A o \in Owners :
             NewAccepted(IF root[o] = NoHandle THEN NoRoot ELSE KeyOf[root[o]], mode[o])
        /\ PassesAgain \/ \A o, q \in Owners : root[o] = root[q] => o = q \/ root[o] = NoHandle
        /\ hasFirst = [o \in Owners |-> root[o] # NoHandle]
        /\ nodes = [o \in Owners |-> [k \in Keys |->
                      IF root[o] # NoHandle /\ KeyOf[root[o]] = k THEN root[o] ELSE NoHandle]]
        /\ parents = [h \in Handles |-> {}]
        /\ children = [h \in Handles |-> {}]

(* The caller lets go of its last handle to an object outside the          *)
(* structures and makes a new node.                                        *)
Renew(h) == /\ ~InSome(h)
            /\ Unlinkable(h)
            /\ parents' = [parents EXCEPT ![h] = {}]
            /\ children' = [children EXCEPT ![h] = {}]
            /\ UNCHANGED <<nodes, root, mode, hasFirst>>

(* add_node tests the links the passed node has already.                   *)
AddNodeVerdictOf(o, h) ==
  IF KeyOf[h] = EmptyKey THEN "EmptyNodeKey"
  ELSE IF KeyOf[h] \in Held(o) THEN "DuplicateNodeKey"
  ELSE IF /\ mode[o] = "semi-strict"
          /\ ~SemiStrictTest(View(o), KeysOf(parents[h]), KeysOf(children[h]))
       THEN "ModeViolation"
  ELSE "Ok"

InsertHandle(o, h) == /\ nodes' = [nodes EXCEPT ![o][KeyOf[h]] = h]
                      /\ hasFirst' = [hasFirst EXCEPT ![o] = TRUE]
                      /\ UNCHANGED <<root, mode>>

(* A refused call changes nothing.                                         *)
AddNode(o, h) == /\ Passable(h)
                 /\ AddNodeVerdictOf(o, h) = "Ok"
                 /\ InsertHandle(o, h)
                 /\ UNCHANGED links

AddNodeWithEdges(o, h, ps, cs) ==
  /\ Passable(h)
  /\ <<ps, cs>> # <<<<>>, <<>>>>   \* with no edges it is AddNode
  /\ AddNodeWithEdgesVerdict(View(o), KeyOf[h], ps, cs) = "Ok"
  /\ InsertHandle(o, h)
  /\ LinkTo(o, h, Range(ps), Range(cs))

AddEdgeByKey(o, p, c) == /\ AddEdgeVerdict(View(o), p, c) = "Ok"
                         /\ LinkTo(o, nodes[o][p], {}, {c})
                         /\ UNCHANGED <<nodes, root, mode, hasFirst>>

(* Fault: any relation of the neighbour counts, that to the deleted too.   *)
RelatedAnywhere(o, n, k) == KeysOf(parents[n] \cup children[n]) # {}

(* semi_strict_check_for_one asks the neighbouring object itself, whether  *)
(* or not it is the one the structure holds under its key.                 *)
RelatedWithout(o, n, k) ==
  \E key \in KeysOf(parents[n] \cup children[n]) : key # k /\ key \in Held(o)

DeleteVerdictOf(o, k) ==
  IF k \notin Held(o) THEN "Refused"
  ELSE IF mode[o] = "un-strict" THEN "Ok"
  ELSE IF Isolated(View(o), k) THEN IF hasFirst[o] THEN "Ok" ELSE "Refused"
  ELSE IF \A n \in parents[nodes[o][k]] \cup children[nodes[o][k]] : RelatedWithout(o, n, k)
       THEN "Ok" ELSE "Refused"

(* The deleted object keeps its own two sets.                              *)
DeleteNodeByKey(o, k) ==
  /\ DeleteVerdictOf(o, k) = "Ok"
  /\ nodes' = [nodes EXCEPT ![o][k] = NoHandle]
  /\ root' = [root EXCEPT ![o] = IF @ # NoHandle /\ KeyOf[@] = k THEN NoHandle ELSE @]
  /\ hasFirst' = [hasFirst EXCEPT ![o] = FlagAfterDelete(View(o), k)]
  /\ children' = Unlinked(children, parents[nodes[o][k]], k)
  /\ parents' = Unlinked(parents, children[nodes[o][k]], k)
  /\ UNCHANGED mode

Next == \/ \E h \in Handles : Renew(h)
        \/ \E o \in Owners, h \in Handles : AddNode(o, h)
        \/ \E o \in Owners, h \in Handles, ps, cs \in KeyLists : AddNodeWithEdges(o, h, ps, cs)
        \/ \E o \in Owners, p, c \in Keys : AddEdgeByKey(o, p, c)
        \/ \E o \in Owners, k \in Keys : DeleteNodeByKey(o, k)

Spec == Init /\ [][Next]_vars

-----------------------------------------------------------------------------
(* Every link of a node of a structure leads to the very object that       *)
(* structure holds under that key: no look-up by key and walk along the    *)
(* links can end at two different objects, or in another structure.        *)
LinksLeadToNodes == \A o \in Owners : \A k \in Held(o) :
  parents[nodes[o][k]] \cup children[nodes[o][k]] \subseteq Range(nodes[o])

(* Objects that are looked up, linked and dropped by key behave, in each   *)
(* structure by itself, as the abstract store says; calls on another       *)
(* structure and what callers do with their handles change nothing there.  *)
Edges(o) == {e \in Held(o) \X Keys : e[2] \in KeysOf(children[nodes[o][e[1]]])}

ByKey(o) == INSTANCE DagStore WITH
  vertices <- Held(o),
  edges    <- Edges(o),
  stored   <- [k \in Keys |-> IF k \in Held(o) THEN CHOOSE v \in Values : TRUE ELSE NoValue],
  root     <- IF root[o] = NoHandle THEN NoRoot ELSE KeyOf[root[o]],
  mode     <- mode[o]

Refines == (\A o \in Owners : ByKey(o)!Init) /\ [][\A o \in Owners : ByKey(o)!Next]_vars

(* The verdicts, which consult the objects' own sets, are those of         *)
(* Structure.tla, which consults the keys.                                 *)
VerdictsByKey == \A o \in Owners :
  /\ \A h \in Handles : Clean(h) => AddNodeVerdictOf(o, h) = AddNodeVerdict(View(o), KeyOf[h])
  /\ \A k \in Keys : DeleteVerdictOf(o, k) = DeleteVerdict(View(o), k)

(* What the README says of cycles (src/README.md, "What works").           *)
CyclesRejected == \A o \in Owners : NoCycle(View(o))

(* What the README says of snapshots (src/README.md, "What works"): they   *)
(* make the round trip, so what is saved can be loaded.                    *)
SavedLoads == \A o \in Owners : LoadVerdict(ToBytes(View(o))) = "Ok"

=============================================================================
