-------------------------- MODULE StructureProofs ---------------------------
(***************************************************************************)
(* Theorems about Structure.tla, for every set of keys and values: the     *)
(* structure stays well-formed, its verdicts are exactly the abstract      *)
(* store's, and it implements the abstract store.  And about Snapshot.tla, *)
(* for every set of files of unknown origin, too: saving and loading lose  *)
(* nothing at any time, and a structure that was loaded is one to work on. *)
(***************************************************************************)
EXTENDS Snapshot, StructureLemmas, SnapshotLemmas

(* The inductive invariant: the type invariant and the six safety          *)
(* invariants of Structure.tla together.                                   *)
Inv == WellFormed(store) /\ reply \in Verdicts

-----------------------------------------------------------------------------
(* The inductive invariant.                                                *)

LEMMA InitInv == Init => Inv
<1> SUFFICES ASSUME Init PROVE Inv
  OBVIOUS
<1>1. PICK mode \in Modes \cup {"other"}, root \in CallKeys \cup {NoRoot}, v \in Values :
        /\ NewAccepted(root, mode)
        /\ store = IF root = NoRoot THEN EmptyStructure(mode) ELSE WithRoot(root, v, mode)
  BY DEF Init, TryNew
<1>2. mode \in Modes /\ (root # NoRoot => root \in Keys)
  BY <1>1 DEF NewAccepted, CallKeys
<1>3. WellFormed(store)
  BY <1>1, <1>2, EmptyWellFormed, WithRootWellFormed
<1> QED
  BY <1>3 DEF Init, Inv, Verdicts

LEMMA NextInv == Inv /\ [Next]_vars => Inv'
<1> SUFFICES ASSUME Inv, [Next]_vars PROVE Inv'
  OBVIOUS
<1>0. WellFormed(store) /\ store \in Structures
  BY DEF Inv, WellFormed
<1>1. ASSUME NEW k \in CallKeys, NEW v \in Values, AddNode(k, v)
      PROVE  Inv'
  <2>1. CASE AddNodeVerdict(store, k) = "Ok"
    <3>1. /\ k \in Keys
          /\ k \notin store.nodes
          /\ store.mode = "semi-strict" => store.nodes = {}
      BY <1>0, <2>1, AddNodeOk DEF CallKeys
    <3>2. {} \in NodeSets(store) /\ Apart(store, {}, {})
      BY DEF NodeSets, Apart
    <3>3. WellFormed(InsertLinked(store, k, v, {}, {}))
      BY <1>0, <3>1, <3>2, InsertLinkedWellFormed
    <3>4. store' = InsertLinked(store, k, v, {}, {})
      BY <1>0, <1>1, <2>1, <3>1, InsertIsUnlinked DEF AddNode, Answer
    <3> QED
      BY <1>1, <2>1, <3>3, <3>4 DEF AddNode, Answer, Inv, Verdicts
  <2>2. CASE AddNodeVerdict(store, k) # "Ok"
    BY <1>1, <2>2, VerdictTypes DEF AddNode, Answer, Inv
  <2> QED
    BY <2>1, <2>2
<1>2. ASSUME NEW k \in CallKeys, NEW v \in Values, NEW ps \in KeyLists, NEW cs \in KeyLists,
             AddNodeWithEdges(k, v, ps, cs)
      PROVE  Inv'
  <2>1. CASE AddNodeWithEdgesVerdict(store, k, ps, cs) = "Ok"
    <3>1. /\ k \in Keys
          /\ k \notin store.nodes
          /\ Range(ps) \in NodeSets(store)
          /\ Range(cs) \in NodeSets(store)
          /\ Apart(store, Range(ps), Range(cs))
          /\ store.mode = "semi-strict" => store.nodes = {} \/ Range(ps) \cup Range(cs) # {}
      BY <1>0, <2>1, AddNodeWithEdgesOk DEF CallKeys
    <3>2. WellFormed(InsertLinked(store, k, v, Range(ps), Range(cs)))
      BY <1>0, <3>1, InsertLinkedWellFormed
    <3> QED
      BY <1>2, <2>1, <3>2 DEF AddNodeWithEdges, Answer, Inv, Verdicts
  <2>2. CASE AddNodeWithEdgesVerdict(store, k, ps, cs) # "Ok"
    BY <1>2, <2>2, VerdictTypes DEF AddNodeWithEdges, Answer, Inv
  <2> QED
    BY <2>1, <2>2
<1>3. ASSUME NEW p \in Keys, NEW c \in Keys, AddEdgeByKey(p, c)
      PROVE  Inv'
  <2>1. CASE AddEdgeVerdict(store, p, c) = "Ok"
    <3>1. WellFormed(AddChild(store, p, c))
      BY <1>0, <2>1, AddEdgeOk, AddChildWellFormed
    <3> QED
      BY <1>3, <2>1, <3>1 DEF AddEdgeByKey, Answer, Inv, Verdicts
  <2>2. CASE AddEdgeVerdict(store, p, c) # "Ok"
    BY <1>3, <2>2, VerdictTypes DEF AddEdgeByKey, Answer, Inv
  <2> QED
    BY <2>1, <2>2
<1>4. ASSUME NEW k \in Keys, DeleteNodeByKey(k)
      PROVE  Inv'
  <2>1. CASE DeleteVerdict(store, k) = "Ok"
    <3>1. WellFormed(DeleteNode(store, k))
      BY <1>0, <2>1, DeleteWellFormed
    <3> QED
      BY <1>4, <2>1, <3>1 DEF DeleteNodeByKey, Answer, Inv, Verdicts
  <2>2. CASE DeleteVerdict(store, k) # "Ok"
    BY <1>4, <2>2, VerdictTypes DEF DeleteNodeByKey, Answer, Inv
  <2> QED
    BY <2>1, <2>2
<1>5. ASSUME NEW k \in Keys, NEW v \in Values, EditValue(k, v)
      PROVE  Inv'
  <2>1. WellFormed(EditNode(store, k, v))
    BY <1>0, EditWellFormed
  <2> QED
    BY <1>0, <1>5, <2>1, VerdictTypes DEF EditValue, Answer, Inv
<1>6. CASE UNCHANGED vars
  BY <1>6 DEF vars, Inv
<1> QED
  BY <1>1, <1>2, <1>3, <1>4, <1>5, <1>6 DEF Next

(* Any sequence of calls keeps the structure well-formed.                  *)
THEOREM Invariance == Spec => []Inv
  BY InitInv, NextInv, PTL DEF Spec

(* The fields keep the types the code gives them.                          *)
THEOREM TypeCorrect == Spec => []TypeOK
<1>1. Inv => TypeOK
  BY DEF Inv, WellFormed, TypeOK
<1> QED
  BY <1>1, Invariance, PTL

(* Both ends of every link agree, and no link leads out of the structure.  *)
THEOREM LinksCorrect == Spec => []LinksConsistent
<1>1. Inv => LinksConsistent
  BY DEF Inv, WellFormed, LinksConsistent
<1> QED
  BY <1>1, Invariance, PTL

(* No sequence of calls of any length makes a cycle, in a structure of any *)
(* size.                                                                   *)
THEOREM NeverCyclic == Spec => []Acyclic
<1>1. Inv => Acyclic
  BY DEF Inv, WellFormed, Acyclic
<1> QED
  BY <1>1, Invariance, PTL

(* The root is a node, and has_first_node is exact.                        *)
THEOREM BookkeepingCorrect == Spec => []BookkeepingExact
<1>1. Inv => BookkeepingExact
  BY DEF Inv, WellFormed, BookkeepingExact
<1> QED
  BY <1>1, Invariance, PTL

(* In a semi-strict structure a node without relations is the only node.   *)
THEOREM NoLoneNode == Spec => []SemiStrictRelated
<1>1. Inv => SemiStrictRelated
  BY DEF Inv, WellFormed, SemiStrictRelated
<1> QED
  BY <1>1, Invariance, PTL

-----------------------------------------------------------------------------
(* Verdicts.                                                               *)

(* The abstract store of Structure.tla is the graph of its structure.      *)
LEMMA DagInsertable ==
  ASSUME NEW k, NEW P, NEW Q
  PROVE  /\ Dag!Insertable(k, P, Q) <=> OfGraph(store)!Insertable(k, P, Q)
         /\ Dag!Around(k, P, Q) = OfGraph(store)!Around(k, P, Q)
  BY DEF Dag!Insertable, OfGraph!Insertable, Dag!Acyclic, OfGraph!Acyclic, Dag!Around, OfGraph!Around

LEMMA DagConnectable ==
  ASSUME NEW p, NEW c
  PROVE  Dag!Connectable(p, c) <=> OfGraph(store)!Connectable(p, c)
  BY DEF Dag!Connectable, OfGraph!Connectable, Dag!Acyclic, OfGraph!Acyclic

LEMMA DagRemovable ==
  ASSUME NEW k
  PROVE  /\ Dag!Removable(k) <=> OfGraph(store)!Removable(k)
         /\ Dag!Without(k) = OfGraph(store)!Without(k)
<1>1. Dag!Without(k) = OfGraph(store)!Without(k)
  BY DEF Dag!Without, OfGraph!Without, Dag!Touching, OfGraph!Touching
<1>2. Dag!Removable(k) <=> OfGraph(store)!Removable(k)
  BY <1>1 DEF Dag!Removable, OfGraph!Removable, Dag!NoLoner, OfGraph!NoLoner,
              Dag!Touching, OfGraph!Touching
<1> QED
  BY <1>1, <1>2

(* Every operation accepts a call exactly when the abstract store does.    *)
THEOREM VerdictsAreExact == Spec => []VerdictsExact
<1>1. ASSUME Inv PROVE VerdictsExact
  <2>0. WellFormed(store)
    BY <1>1 DEF Inv
  <2>1. \A k \in CallKeys : AddNodeVerdict(store, k) = "Ok" <=> Dag!Insertable(k, {}, {})
    BY <2>0, AddNodeOk, InsertableMeans, DagInsertable DEF NodeSets, Apart, CallKeys
  <2>2. ASSUME NEW k \in CallKeys, NEW ps \in KeyLists, NEW cs \in KeyLists
        PROVE  AddNodeWithEdgesVerdict(store, k, ps, cs) = "Ok" <=>
                 /\ IsInjective(ps) /\ IsInjective(cs)
                 /\ Dag!Insertable(k, Range(ps), Range(cs))
    BY <2>0, AddNodeWithEdgesOk, InsertableMeans, DagInsertable DEF CallKeys
  <2>3. \A p, c \in Keys : AddEdgeVerdict(store, p, c) = "Ok" <=> Dag!Connectable(p, c)
    BY <2>0, ConnectableMeans, DagConnectable
  <2>4. \A k \in Keys : DeleteVerdict(store, k) = "Ok" <=> Dag!Removable(k)
    BY <2>0, RemovableMeans, DagRemovable
  <2> QED
    BY <2>1, <2>2, <2>3, <2>4 DEF VerdictsExact
<1> QED
  BY <1>1, Invariance, PTL

-----------------------------------------------------------------------------
(* The refinement.                                                         *)

LEMMA RefinesInit == Init => Dag!Init
<1> SUFFICES ASSUME Init PROVE Dag!Init
  OBVIOUS
<1>1. PICK m \in Modes \cup {"other"}, r \in CallKeys \cup {NoRoot}, v \in Values :
        /\ NewAccepted(r, m)
        /\ store = IF r = NoRoot THEN EmptyStructure(m) ELSE WithRoot(r, v, m)
  BY DEF Init, TryNew
<1>2. m \in Modes /\ (r # NoRoot => r \in Keys)
  BY <1>1 DEF NewAccepted, CallKeys
<1>3. \A s : (\A x, y \in Keys : ~Child(s, x, y)) => EdgesOf(s) = {}
  BY DEF EdgesOf, Child
<1>4. CASE r = NoRoot
  <2>1. /\ store.nodes = {}
        /\ store.root = NoRoot
        /\ store.mode = m
        /\ \A x, y \in Keys : ~Child(store, x, y)
    BY <1>1, <1>2, <1>4, EmptyFields
  <2>2. store.value = [k \in Keys |-> NoValue]
    BY <1>1, <1>2, <1>4 DEF EmptyStructure
  <2>3. EdgesOf(store) = {}
    BY <1>3, <2>1
  <2> QED
    BY <1>2, <2>1, <2>2, <2>3 DEF Dag!Init, Modes
<1>5. CASE r # NoRoot
  <2>0. r \in Keys /\ store = WithRoot(r, v, m)
    BY <1>1, <1>2, <1>5
  <2>1. /\ store.nodes = {r}
        /\ store.root = r
        /\ store.mode = m
        /\ \A x, y \in Keys : ~Child(store, x, y)
    BY <1>2, <2>0, WithRootFields
  <2>2. store.value = [k \in Keys |-> IF k = r THEN v ELSE NoValue]
    BY <1>2, <2>0, NewValues
  <2>3. EdgesOf(store) = {}
    BY <1>3, <2>1
  <2> QED
    BY <1>2, <2>0, <2>1, <2>2, <2>3 DEF Dag!Init, Modes
<1> QED
  BY <1>4, <1>5

LEMMA InsertStep ==
  ASSUME WellFormed(store), NEW k \in Keys, NEW v \in Values, NEW P, NEW Q,
         Dag!Insertable(k, P, Q), store' = InsertLinked(store, k, v, P, Q)
  PROVE  Dag!Next
<1>1. /\ store \in Structures
      /\ k \notin store.nodes
      /\ P \in NodeSets(store)
      /\ Q \in NodeSets(store)
  BY InsertableMeans, DagInsertable DEF WellFormed
<1>2. P \in KeySets /\ Q \in KeySets /\ P \in SUBSET store.nodes /\ Q \in SUBSET store.nodes
  BY <1>1, NodesAreKeys DEF NodeSets, KeySets
<1>3. /\ store'.nodes = store.nodes \cup {k}
      /\ store'.root = store.root
      /\ store'.mode = store.mode
  BY <1>1, <1>2, InsertLinkedFields
<1>4. store'.value = [store.value EXCEPT ![k] = v]
  BY <1>1, <1>2, InsertLinkedValue
<1>5. EdgesOf(store') = EdgesOf(store) \cup Dag!Around(k, P, Q)
  BY <1>1, InsertLinkedEdges, DagInsertable
<1>6. Dag!Insert(k, v, P, Q)
  BY <1>3, <1>4, <1>5 DEF Dag!Insert
<1> QED
  BY <1>1, <1>2, <1>6 DEF Dag!Next

LEMMA RefinesNext == Inv /\ [Next]_vars => [Dag!Next]_(Dag!vars)
<1> SUFFICES ASSUME Inv, [Next]_vars PROVE Dag!Next \/ UNCHANGED Dag!vars
  OBVIOUS
<1>0. WellFormed(store) /\ store \in Structures
  BY DEF Inv, WellFormed
<1>1. store' = store => UNCHANGED Dag!vars
  BY DEF Dag!vars, EdgesOf
<1>2. ASSUME NEW k \in CallKeys, NEW v \in Values, AddNode(k, v), store' # store
      PROVE  Dag!Next
  <2>1. AddNodeVerdict(store, k) = "Ok" /\ store' = Insert(store, k, v)
    BY <1>2 DEF AddNode, Answer
  <2>2. k \in Keys /\ Dag!Insertable(k, {}, {})
    BY <1>0, <2>1, AddNodeOk, InsertableMeans, DagInsertable DEF NodeSets, Apart, CallKeys
  <2>3. store' = InsertLinked(store, k, v, {}, {})
    BY <1>0, <2>1, <2>2, InsertIsUnlinked
  <2> QED
    BY <1>0, <2>2, <2>3, InsertStep
<1>3. ASSUME NEW k \in CallKeys, NEW v \in Values, NEW ps \in KeyLists, NEW cs \in KeyLists,
             AddNodeWithEdges(k, v, ps, cs), store' # store
      PROVE  Dag!Next
  <2>1. /\ AddNodeWithEdgesVerdict(store, k, ps, cs) = "Ok"
        /\ store' = InsertLinked(store, k, v, Range(ps), Range(cs))
    BY <1>3 DEF AddNodeWithEdges, Answer
  <2>2. k \in Keys /\ Dag!Insertable(k, Range(ps), Range(cs))
    BY <1>0, <2>1, AddNodeWithEdgesOk, InsertableMeans, DagInsertable DEF CallKeys
  <2> QED
    BY <1>0, <2>1, <2>2, InsertStep
<1>4. ASSUME NEW p \in Keys, NEW c \in Keys, AddEdgeByKey(p, c), store' # store
      PROVE  Dag!Next
  <2>1. AddEdgeVerdict(store, p, c) = "Ok" /\ store' = AddChild(store, p, c)
    BY <1>4 DEF AddEdgeByKey, Answer
  <2>2. p # c /\ Dag!Connectable(p, c)
    BY <1>0, <2>1, AddEdgeOk, ConnectableMeans, DagConnectable
  <2>3. /\ store'.nodes = store.nodes
        /\ store'.root = store.root
        /\ store'.mode = store.mode
        /\ store'.value = store.value
    BY <1>0, <2>1, <2>2, AddChildFields
  <2>4. EdgesOf(store') = EdgesOf(store) \cup {<<p, c>>}
    BY <1>0, <2>1, <2>2, AddChildEdges
  <2>5. Dag!Connect(p, c)
    BY <2>2, <2>3, <2>4 DEF Dag!Connect
  <2> QED
    BY <2>5 DEF Dag!Next
<1>5. ASSUME NEW k \in Keys, DeleteNodeByKey(k), store' # store
      PROVE  Dag!Next
  <2>1. DeleteVerdict(store, k) = "Ok" /\ store' = DeleteNode(store, k)
    BY <1>5 DEF DeleteNodeByKey, Answer
  <2>2. Dag!Removable(k)
    BY <1>0, <2>1, RemovableMeans, DagRemovable
  <2>3. /\ store'.nodes = store.nodes \ {k}
        /\ store'.root = IF store.root = k THEN NoRoot ELSE store.root
        /\ store'.mode = store.mode
    BY <1>0, <2>1, DeleteFields, ZenonT(30)
  <2>4. store'.value = [store.value EXCEPT ![k] = NoValue]
    BY <1>0, <2>1, DeleteFields
  <2>5. EdgesOf(store') = Dag!Without(k)
    BY <1>0, <2>1, DeleteEdges, DagRemovable
  <2>6. Dag!Remove(k)
    BY <2>2, <2>3, <2>4, <2>5 DEF Dag!Remove
  <2> QED
    BY <2>6 DEF Dag!Next
<1>6. ASSUME NEW k \in Keys, NEW v \in Values, EditValue(k, v), store' # store
      PROVE  Dag!Next
  <2>1. k \in store.nodes /\ store' = EditNode(store, k, v)
    BY <1>6 DEF EditValue, Answer, EditVerdict
  <2>2. /\ store'.nodes = store.nodes
        /\ store'.root = store.root
        /\ store'.mode = store.mode
        /\ store'.children = store.children
    BY <1>0, <2>1, EditFields
  <2>3. store'.value = [store.value EXCEPT ![k] = v]
    BY <1>0, <2>1, EditFields
  <2>4. EdgesOf(store') = EdgesOf(store)
    BY <2>2 DEF EdgesOf
  <2>5. Dag!Edit(k, v)
    BY <2>1, <2>2, <2>3, <2>4 DEF Dag!Edit
  <2> QED
    BY <2>5 DEF Dag!Next
<1> QED
  BY <1>1, <1>2, <1>3, <1>4, <1>5, <1>6 DEF Next, vars

(* Every call has the abstract store's effect on the graph, or none.       *)
THEOREM Refinement == Spec => ImplementsDagStore
  BY RefinesInit, RefinesNext, Invariance, PTL DEF Spec, Dag!Spec, ImplementsDagStore

-----------------------------------------------------------------------------
(* A semi-strict structure of two or more nodes stays one.                 *)
THEOREM NeverBelowTwo == Spec => SemiStrictNeverShrinksBelowTwo
<1> DEFINE Two(s) == \E x, y \in s.nodes : x # y
<1>1. ASSUME Inv, Next
      PROVE  store.mode = "semi-strict" /\ Two(store) => Two(store')
  <2>0. WellFormed(store) /\ store \in Structures
    BY <1>1 DEF Inv, WellFormed
  <2>1. SUFFICES ASSUME store.mode = "semi-strict", Two(store) PROVE Two(store')
    OBVIOUS
  <2>2. CASE store.nodes \subseteq store'.nodes
    BY <2>1, <2>2
  <2>3. CASE ~(store.nodes \subseteq store'.nodes)
    <3>1. PICK k \in Keys : DeleteVerdict(store, k) = "Ok" /\ store' = DeleteNode(store, k)
      <4>1. ASSUME NEW k \in CallKeys, NEW v \in Values, AddNode(k, v) PROVE FALSE
        <5>1. AddNodeVerdict(store, k) = "Ok" /\ store' = Insert(store, k, v)
          BY <2>3, <4>1 DEF AddNode, Answer
        <5>2. k \in Keys
          BY <2>0, <5>1, AddNodeOk DEF CallKeys
        <5>3. store'.nodes = store.nodes \cup {k}
          BY <2>0, <5>1, <5>2, InsertFields
        <5> QED
          BY <2>3, <5>3
      <4>2. ASSUME NEW k \in CallKeys, NEW v \in Values, NEW ps \in KeyLists,
                   NEW cs \in KeyLists, AddNodeWithEdges(k, v, ps, cs)
            PROVE  FALSE
        <5>1. AddNodeWithEdgesVerdict(store, k, ps, cs) = "Ok"
          BY <2>3, <4>2 DEF AddNodeWithEdges, Answer
        <5>2. /\ k \in Keys
              /\ Range(ps) \in KeySets
              /\ Range(cs) \in KeySets
          BY <2>0, <5>1, AddNodeWithEdgesOk, NodesAreKeys DEF NodeSets, KeySets, CallKeys
        <5>3. store'.nodes = store.nodes \cup {k}
          BY <2>0, <4>2, <5>1, <5>2, InsertLinkedFields DEF AddNodeWithEdges, Answer
        <5> QED
          BY <2>3, <5>3
      <4>3. ASSUME NEW p \in Keys, NEW c \in Keys, AddEdgeByKey(p, c) PROVE FALSE
        <5>1. AddEdgeVerdict(store, p, c) = "Ok" /\ store' = AddChild(store, p, c)
          BY <2>3, <4>3 DEF AddEdgeByKey, Answer
        <5>2. p # c
          BY <2>0, <5>1, AddEdgeOk
        <5>3. store'.nodes = store.nodes
          BY <2>0, <5>1, <5>2, AddChildFields
        <5> QED
          BY <2>3, <5>3
      <4>4. ASSUME NEW k \in Keys, NEW v \in Values, EditValue(k, v) PROVE FALSE
        <5>1. store' = EditNode(store, k, v)
          BY <2>3, <4>4 DEF EditValue, Answer
        <5>2. store'.nodes = store.nodes
          BY <2>0, <5>1, EditFields
        <5> QED
          BY <2>3, <5>2
      <4>5. PICK k \in Keys : DeleteNodeByKey(k)
        BY <1>1, <4>1, <4>2, <4>3, <4>4 DEF Next
      <4> QED
        BY <2>3, <4>5 DEF DeleteNodeByKey, Answer
    <3>2. store'.nodes = store.nodes \ {k}
      BY <2>0, <3>1, DeleteFields, ZenonT(30)
    <3>3. k \in store.nodes /\ ~Isolated(store, k)
      BY <2>0, <2>1, <3>1 DEF DeleteVerdict, WellFormed, NoneAlone
    <3>4. \A x, y \in Keys : Child(store, x, y) \/ Parent(store, x, y)
                               => x \in store.nodes /\ y \in store.nodes /\ x # y
      <4>1. ASSUME NEW x \in Keys PROVE ~Child(store, x, x) /\ ~Parent(store, x, x)
        <5> DEFINE S == {x}
        <5>1. S \in SUBSET Keys /\ S # {} /\ \A y \in S : y = x
          OBVIOUS
        <5> HIDE DEF S
        <5>2. ~Child(store, x, x)
          BY <2>0, <5>1, NoCycleMeans DEF WellFormed
        <5> QED
          BY <2>0, <5>2, MirroredMeans DEF WellFormed
      <4> QED
        BY <2>0, <4>1, InsideMeans DEF WellFormed
    <3>5. PICK n \in Keys : Child(store, k, n) \/ Parent(store, k, n)
      BY <2>0, <3>3, IsolatedMeans
    <3>6. SemiStrictCheckForOne(store, n, k)
      BY <2>0, <2>1, <3>1, <3>3, <3>5 DEF DeleteVerdict, Child, Parent
    <3>7. PICK o \in Keys : o # k /\ (Child(store, n, o) \/ Parent(store, n, o))
      BY <2>0, <3>6, NodesAreKeys DEF SemiStrictCheckForOne, Child, Parent
    <3>8. n \in store'.nodes /\ o \in store'.nodes /\ n # o
      BY <3>2, <3>4, <3>5, <3>7
    <3> QED
      BY <3>8
  <2> QED
    BY <2>2, <2>3
<1>2. Inv /\ [Next]_vars
        => [ (/\ store.mode = "semi-strict"
              /\ \E x, y \in store.nodes : x # y)
             => \E x, y \in store'.nodes : x # y ]_vars
  BY <1>1
<1> QED
  BY <1>2, Invariance, PTL DEF Spec, SemiStrictNeverShrinksBelowTwo

-----------------------------------------------------------------------------
(* Snapshots: the inductive invariant.                                     *)

SnapshotInv == /\ Coherent(store)
               /\ Valued(store)
               /\ ~lax => WellFormed(store)
               /\ file \in Snapshots \cup {NoFile}
               /\ reply \in Verdicts

LEMMA SnapshotInitInv == SnapshotInit => SnapshotInv
<1> SUFFICES ASSUME SnapshotInit PROVE SnapshotInv
  OBVIOUS
<1>1. file \in Snapshots \cup {NoFile}
  BY FilesAssumption DEF SnapshotInit
<1>2. WellFormed(store) /\ Valued(store)
  <2>1. CASE Init
    <3>1. PICK mode \in Modes \cup {"other"}, root \in CallKeys \cup {NoRoot}, v \in Values :
            /\ NewAccepted(root, mode)
            /\ store = IF root = NoRoot THEN EmptyStructure(mode) ELSE WithRoot(root, v, mode)
      BY <2>1 DEF Init, TryNew
    <3>2. mode \in Modes /\ (root # NoRoot => root \in Keys)
      BY <3>1 DEF NewAccepted, CallKeys
    <3> QED
      BY <3>1, <3>2, EmptyWellFormed, WithRootWellFormed, EmptyValued, WithRootValued
  <2>2. CASE store = EmptyStructure("un-strict")
    <3>1. "un-strict" \in Modes
      BY DEF Modes
    <3> QED
      BY <2>2, <3>1, EmptyWellFormed, EmptyValued
  <2> QED
    BY <2>1, <2>2 DEF SnapshotInit
<1>3. reply \in Verdicts
  BY DEF SnapshotInit, Init, Verdicts
<1> QED
  BY <1>1, <1>2, <1>3, NewCoherent DEF SnapshotInv

(* What a call does to the graph and the values; what it does to the mode  *)
(* and the flag of a structure that keeps the semi-strict rule is NextInv. *)
LEMMA CallCoherent ==
  ASSUME Coherent(store), Valued(store), Next
  PROVE  Coherent(store') /\ Valued(store')
<1>1. ASSUME NEW verdict, NEW next, Answer(verdict, next),
             verdict = "Ok" => Coherent(next) /\ Valued(next)
      PROVE  Coherent(store') /\ Valued(store')
  BY <1>1 DEF Answer
<1>2. ASSUME NEW k \in CallKeys, NEW v \in Values, AddNode(k, v)
      PROVE  Coherent(store') /\ Valued(store')
  BY <1>1, <1>2, AcceptedCoherent DEF AddNode, CallKeys
<1>3. ASSUME NEW k \in CallKeys, NEW v \in Values, NEW ps \in KeyLists, NEW cs \in KeyLists,
             AddNodeWithEdges(k, v, ps, cs)
      PROVE  Coherent(store') /\ Valued(store')
  BY <1>1, <1>3, AcceptedCoherent DEF AddNodeWithEdges, CallKeys
<1>4. ASSUME NEW p \in Keys, NEW c \in Keys, AddEdgeByKey(p, c)
      PROVE  Coherent(store') /\ Valued(store')
  BY <1>1, <1>4, AcceptedCoherent DEF AddEdgeByKey
<1>5. ASSUME NEW k \in Keys, DeleteNodeByKey(k)
      PROVE  Coherent(store') /\ Valued(store')
  BY <1>1, <1>5, AcceptedCoherent DEF DeleteNodeByKey
<1>6. ASSUME NEW k \in Keys, NEW v \in Values, EditValue(k, v)
      PROVE  Coherent(store') /\ Valued(store')
  <2>1. EditVerdict(store, k) = "Ok" => k \in store.nodes
    BY DEF EditVerdict
  <2> QED
    BY <1>1, <1>6, <2>1, EditCoherent DEF EditValue
<1> QED
  BY <1>2, <1>3, <1>4, <1>5, <1>6 DEF Next

LEMMA SnapshotNextInv == SnapshotInv /\ [SnapshotNext]_snapshotVars => SnapshotInv'
<1> SUFFICES ASSUME SnapshotInv, [SnapshotNext]_snapshotVars PROVE SnapshotInv'
  OBVIOUS
<1>1. CASE Work
  <2>1. Next /\ file' = file /\ lax' = lax
    BY <1>1 DEF Work
  <2>2. Coherent(store') /\ Valued(store')
    BY <2>1, CallCoherent DEF SnapshotInv
  <2>3. ASSUME ~lax'
        PROVE  WellFormed(store')
    <3>1. WellFormed(store)
      BY <2>1, <2>3 DEF SnapshotInv
    <3> QED
      BY <2>1, <3>1, NextInv DEF SnapshotInv, Inv
  <2>4. reply' \in Verdicts
    BY <2>1, VerdictTypes
       DEF Next, Answer, AddNode, AddNodeWithEdges, AddEdgeByKey, DeleteNodeByKey, EditValue
  <2> QED
    BY <2>1, <2>2, <2>3, <2>4 DEF SnapshotInv
<1>2. CASE SaveToFile
  <2>1. ToBytes(store) \in Snapshots
    BY WrittenFields DEF SnapshotInv, Coherent
  <2> QED
    BY <1>2, <2>1 DEF SaveToFile, SnapshotInv, Verdicts
<1>3. CASE LoadFromFile
  <2>0. reply' \in Verdicts
    BY <1>3 DEF LoadFromFile, Verdicts
  <2>1. CASE LoadVerdict(file) = "Ok"
    <3>1. /\ file \in Snapshots
          /\ file' = file
          /\ store' = Wired(file)
          /\ lax' = ~NoneAlone(Wired(file))
      BY <1>3, <2>1 DEF LoadFromFile, SnapshotInv
    <3>2. Sound(store') /\ Valued(store')
      BY <2>1, <3>1, AcceptedSound
    <3>3. ~lax' => WellFormed(store')
      BY <3>1, <3>2 DEF Sound, WellFormed
    <3> QED
      BY <2>0, <3>1, <3>2, <3>3 DEF SnapshotInv, Sound, Coherent
  <2>2. CASE LoadVerdict(file) # "Ok"
    BY <1>3, <2>0, <2>2 DEF LoadFromFile, SnapshotInv
  <2> QED
    BY <2>1, <2>2
<1>4. CASE UNCHANGED snapshotVars
  BY <1>4 DEF snapshotVars, vars, SnapshotInv
<1> QED
  BY <1>1, <1>2, <1>3, <1>4 DEF SnapshotNext

(* The inductive invariant holds throughout every run.                     *)
THEOREM SnapshotInvariance == SnapshotSpec => []SnapshotInv
  BY SnapshotInitInv, SnapshotNextInv, PTL DEF SnapshotSpec

-----------------------------------------------------------------------------
(* The structure can be saved and loaded without a loss at any time, also  *)
(* one that was loaded from a file that breaks the semi-strict rule and    *)
(* worked on.                                                              *)
THEOREM SaveLoadsBack == SnapshotSpec => []RoundTrips
<1>1. SnapshotInv => RoundTrips
  BY RoundTrip DEF SnapshotInv, Coherent, RoundTrips
<1> QED
  BY <1>1, SnapshotInvariance, PTL

(* After any number of loads, of its own snapshots and of files of unknown *)
(* origin, and of calls between them, a structure is well-formed, but for  *)
(* the semi-strict rule and the flag if the loaded file breaks the rule.   *)
THEOREM LoadedIsSafeToWorkOn == SnapshotSpec => []LoadedWorksOn
<1>1. SnapshotInv => LoadedWorksOn
  BY RelaxedWellFormed DEF SnapshotInv, LoadedWorksOn, Relaxed
<1> QED
  BY <1>1, SnapshotInvariance, PTL

(* Whatever file is accepted, the structure made of it is sound.           *)
THEOREM AcceptedSoundly == SnapshotSpec => []AcceptedIsSound
<1>1. SnapshotInv => AcceptedIsSound
  BY AcceptedSound DEF SnapshotInv, AcceptedIsSound
<1> QED
  BY <1>1, SnapshotInvariance, PTL

(* A file has as many records as keys, and saving the structure made of an *)
(* accepted file writes a record with the same lists for each.             *)
LEMMA NothingLost ==
  ASSUME NEW f \in Snapshots, LoadVerdict(f) = "Ok"
  PROVE  SameContent(f, ToBytes(Wired(f)))
<1> DEFINE s == Wired(f)
           g == ToBytes(s)
<1>1. /\ f.mode \in Modes
      /\ NodesDistinct(f)
      /\ RelationsConsistent(f)
      /\ f.root \in KeysIn(f) \cup {NoRoot}
  BY AcceptedMeans
<1>2. /\ s \in Structures
      /\ s.nodes = KeysIn(f)
      /\ s.root = f.root
      /\ s.mode = f.mode
      /\ \A k \in Keys : s.value[k] = IF k \in KeysIn(f) THEN RecordOf(f, k).value ELSE NoValue
      /\ \A x, y \in Keys :
           /\ Child(s, x, y) <=> x \in KeysIn(f) /\ y \in Range(RecordOf(f, x).children)
           /\ Parent(s, x, y) <=> y \in KeysIn(f) /\ x \in Range(RecordOf(f, y).children)
  BY <1>1, WiredFields
<1>3. Valued(s) /\ RootIsNode(s)
  BY AcceptedSound DEF Sound
<1> HIDE DEF s
<1>4. /\ g.root = s.root
      /\ g.mode = s.mode
      /\ Len(g.nodes) = Cardinality(s.nodes)
      /\ Range(g.nodes) = {SerializeNode(s, k) : k \in s.nodes}
  BY <1>2, <1>3, WrittenFields
<1> HIDE DEF g
<1>5. Len(f.nodes) = Cardinality(KeysIn(f))
  <2>1. f.nodes \in Seq(NodeRecords)
    BY DEF Snapshots
  <2>2. PICK n \in Nat : Len(f.nodes) = n /\ DOMAIN f.nodes = 1..n
    BY <2>1
  <2> DEFINE key == [i \in 1..n |-> f.nodes[i].key]
  <2>3. key \in Bijection(1..n, KeysIn(f))
    <3>1. \A i \in 1..n : key[i] \in KeysIn(f)
      BY <2>2 DEF KeysIn, Range
    <3>2. \A i, j \in 1..n : key[i] = key[j] => i = j
      BY <1>1, <2>2 DEF NodesDistinct
    <3>3. \A k \in KeysIn(f) : \E i \in 1..n : key[i] = k
      BY <2>2 DEF KeysIn, Range
    <3>4. key \in [1..n -> KeysIn(f)]
      BY <3>1
    <3> HIDE DEF key
    <3>5. key \in Injection(1..n, KeysIn(f))
      BY <3>2, <3>4 DEF Injection, IsInjective
    <3>6. key \in Surjection(1..n, KeysIn(f))
      BY <3>3, <3>4 DEF Surjection
    <3> QED
      BY <3>5, <3>6 DEF Bijection
  <2>4. IsFiniteSet(1..n) /\ Cardinality(1..n) = n
    BY <2>2, FS_Interval
  <2>5. Cardinality(KeysIn(f)) = n
    <3>1. ExistsBijection(1..n, KeysIn(f))
      BY <2>3 DEF ExistsBijection
    <3> QED
      BY <2>4, <3>1, FS_Bijection
  <2> QED
    BY <2>2, <2>5
<1>6. ASSUME NEW r \in Range(f.nodes)
      PROVE  \E t \in Range(g.nodes) : SameRecord(r, t)
  <2> DEFINE k == r.key
             t == SerializeNode(s, k)
  <2>1. k \in KeysIn(f) /\ RecordOf(f, k) = r
    BY <1>1, RecordFound DEF KeysIn
  <2>2. /\ k \in Keys
        /\ Range(r.children) \subseteq Keys
        /\ Range(r.parents) \subseteq Keys
    BY <1>1, <2>1, RecordsOfFile
  <2>3. /\ t.key = k
        /\ t.value = s.value[k]
        /\ Range(t.parents) = s.parents[k]
        /\ Range(t.children) = s.children[k]
    BY <1>2, <1>3, <2>1, RecordFields
  <2>4. s.parents[k] \subseteq Keys /\ s.children[k] \subseteq Keys
    BY <1>2, <2>2 DEF Structures
  <2>5. \A y \in Keys : y \in s.children[k] <=> y \in Range(r.children)
    BY <1>2, <2>1, <2>2 DEF Child
  <2>6. \A y \in Keys : y \in s.parents[k] <=> y \in Range(r.parents)
    <3>1. \A y \in Keys : y \in s.parents[k] <=>
                            y \in KeysIn(f) /\ k \in Range(RecordOf(f, y).children)
      BY <1>2, <2>2 DEF Parent
    <3>2. \A y \in KeysIn(f) : k \in Range(RecordOf(f, y).children) => y \in Range(r.parents)
      BY <1>1, <2>1, ListsAgree
    <3>3. \A y \in Range(r.parents) : y \in KeysIn(f) /\ k \in Range(RecordOf(f, y).children)
      BY <1>1, <2>1, ListsAgree
    <3> QED
      BY <3>1, <3>2, <3>3
  <2>7. t \in Range(g.nodes)
    BY <1>2, <1>4, <2>1
  <2> HIDE DEF t
  <2>8. Range(t.parents) = Range(r.parents) /\ Range(t.children) = Range(r.children)
    BY <2>2, <2>3, <2>4, <2>5, <2>6
  <2>9. t.value = r.value
    BY <1>2, <2>1, <2>2, <2>3
  <2> QED
    BY <2>3, <2>7, <2>8, <2>9 DEF SameRecord
<1> QED
  BY <1>2, <1>4, <1>5, <1>6 DEF SameContent, g, s

(* Of an accepted file nothing is lost: saving the structure made of it    *)
(* writes the same root, mode and records.                                 *)
THEOREM AcceptedCompletely == SnapshotSpec => []AcceptedIsComplete
<1>1. SnapshotInv => AcceptedIsComplete
  BY NothingLost DEF SnapshotInv, AcceptedIsComplete
<1> QED
  BY <1>1, SnapshotInvariance, PTL

=============================================================================
