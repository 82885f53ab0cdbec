---------------------------- MODULE SnapshotOps -----------------------------
(***************************************************************************)
(* A structure's snapshot (src/src/structure.rs, src/src/node.rs): what    *)
(* to_bytes writes of it and what from_bytes makes of a file, once the     *)
(* bytes are split into fields.  Every link is written twice, with the     *)
(* parent and with the child.  A file may come from anywhere, so its lists *)
(* may repeat, disagree, or name keys without a node.                      *)
(***************************************************************************)
EXTENDS StructureOps, FiniteSets

ASSUME FiniteKeys == IsFiniteSet(Keys)

NodeRecords == [key : Keys \cup {EmptyKey}, value : Values,
                parents : Seq(Keys), children : Seq(Keys)]

Snapshots == [root  : Keys \cup {EmptyKey, NoRoot},
              mode  : Modes \cup {"other"},
              nodes : Seq(NodeRecords)]

-----------------------------------------------------------------------------
(* Writing.  Nodes and relations are sorted by key: some fixed order of    *)
(* each set, and nothing depends on which.                                 *)

Listings(S) == {o \in [1..Cardinality(S) -> S] : Range(o) = S}

Sorted(S) == CHOOSE o \in Listings(S) : TRUE

(* Fault: only the children are written.                                   *)
SerializeNodeChildren(s, k) ==
  [key |-> k, value |-> s.value[k], parents |-> <<>>,
   children |-> Sorted(s.children[k])]

SerializeNode(s, k) ==
  [key |-> k, value |-> s.value[k], parents |-> Sorted(s.parents[k]),
   children |-> Sorted(s.children[k])]

ToBytes(s) ==
  [root |-> s.root, mode |-> s.mode,
   nodes |-> [i \in DOMAIN Sorted(s.nodes) |-> SerializeNode(s, Sorted(s.nodes)[i])]]

-----------------------------------------------------------------------------
(* Reading.                                                                *)

KeysIn(f) == {r.key : r \in Range(f.nodes)}

RecordOf(f, k) == CHOOSE r \in Range(f.nodes) : r.key = k

NodesDistinct(f) == /\ EmptyKey \notin KeysIn(f)
                    /\ \A i, j \in DOMAIN f.nodes :
                         f.nodes[i].key = f.nodes[j].key => i = j

(* Fault: a child is not asked whether it lists its parent.                *)
RelationsOneSided(f) == \A r \in Range(f.nodes) :
  /\ IsInjective(r.parents) /\ IsInjective(r.children)
  /\ r.key \notin Range(r.parents) \cup Range(r.children)
  /\ Range(r.children) \subseteq KeysIn(f)
  /\ \A p \in Range(r.parents) :
       p \in KeysIn(f) /\ r.key \in Range(RecordOf(f, p).children)

RelationsConsistent(f) == \A r \in Range(f.nodes) :
  /\ IsInjective(r.parents) /\ IsInjective(r.children)
  /\ r.key \notin Range(r.parents) \cup Range(r.children)
  /\ \A p \in Range(r.parents) :
       p \in KeysIn(f) /\ r.key \in Range(RecordOf(f, p).children)
  /\ \A c \in Range(r.children) :
       c \in KeysIn(f) /\ r.key \in Range(RecordOf(f, c).parents)

(* Fault: the flag is taken from the root.                                 *)
FlagFromRoot(f) == f.root # NoRoot

FlagOnLoad(f) == f.nodes # <<>>

(* The structure made of a file: add_child for every listed child.         *)
Wired(f) ==
  [root |-> f.root, nodes |-> KeysIn(f), mode |-> f.mode,
   hasFirst |-> FlagOnLoad(f),
   value    |-> [k \in Keys |-> IF k \in KeysIn(f) THEN RecordOf(f, k).value
                                                   ELSE NoValue],
   parents  |-> [k \in Keys |-> {p \in KeysIn(f) : k \in Range(RecordOf(f, p).children)}],
   children |-> [k \in Keys |-> IF k \in KeysIn(f) THEN Range(RecordOf(f, k).children)
                                                   ELSE {}]]

(* Fault: only the two ends of a link are compared.                        *)
ContainsMutualLink(s) ==
  \E p \in s.nodes : \E c \in s.children[p] : p \in s.children[c]

ContainsCycle(s) ==
  \E p \in s.nodes : \E c \in s.children[p] : HasPath(s, c, p)

LoadVerdict(f) ==
  IF f.mode \notin Modes THEN "UnknownMode"
  ELSE IF ~NodesDistinct(f) THEN "InvalidNode"
  ELSE IF ~RelationsConsistent(f) THEN "InvalidRelation"
  ELSE IF f.root \notin KeysIn(f) \cup {NoRoot} THEN "MissingRoot"
  ELSE IF ContainsCycle(Wired(f)) THEN "Cycle"
  ELSE "Ok"

(* What a loaded structure must satisfy; the semi-strict rule is not       *)
(* looked at when a file is loaded.                                        *)
Sound(s) == /\ s \in Structures
            /\ Mirrored(s)
            /\ Inside(s)
            /\ NoCycle(s)
            /\ RootIsNode(s)
            /\ FlagExact(s)

=============================================================================
