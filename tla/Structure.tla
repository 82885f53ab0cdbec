----------------------------- MODULE Structure ------------------------------
(***************************************************************************)
(* One structure under any sequence of calls of its public operations      *)
(* (src/src/structure.rs): what the library's single-threaded user and the *)
(* server's database thread do to it.  Every call is one step: it computes *)
(* its verdict, and only an accepted call changes the structure.  The      *)
(* caller passes nodes it has just created; handles that outlive a         *)
(* deletion are outside this module.                                       *)
(***************************************************************************)
EXTENDS StructureOps

VARIABLES store,   \* the structure
          reply    \* the verdict of the last call

vars == <<store, reply>>

-----------------------------------------------------------------------------
CallKeys == Keys \cup {EmptyKey}

TryNew == \E mode \in Modes \cup {"other"}, root \in CallKeys \cup {NoRoot}, v \in Values :
            /\ NewAccepted(root, mode)
            /\ store = IF root = NoRoot THEN EmptyStructure(mode)
                                        ELSE WithRoot(root, v, mode)

Init == TryNew /\ reply = "Ok"

(* The caller gets the verdict; the structure moves on only when it is Ok. *)
Answer(verdict, next) == /\ reply' = verdict
                         /\ store' = IF verdict = "Ok" THEN next ELSE store

AddNode(k, v) == Answer(AddNodeVerdict(store, k), Insert(store, k, v))

AddNodeWithEdges(k, v, parentKeys, childKeys) ==
  Answer(AddNodeWithEdgesVerdict(store, k, parentKeys, childKeys),
         InsertLinked(store, k, v, Range(parentKeys), Range(childKeys)))

AddEdgeByKey(p, c) == Answer(AddEdgeVerdict(store, p, c), AddChild(store, p, c))

DeleteNodeByKey(k) == Answer(DeleteVerdict(store, k), DeleteNode(store, k))

(* edit_value on the handle find_node_by_key returns.                      *)
EditValue(k, v) == Answer(EditVerdict(store, k), EditNode(store, k, v))

Next == \/ \E k \in CallKeys, v \in Values : AddNode(k, v)
        \/ \E k \in CallKeys, v \in Values, ps, cs \in KeyLists :
              AddNodeWithEdges(k, v, ps, cs)
        \/ \E p, c \in Keys : AddEdgeByKey(p, c)
        \/ \E k \in Keys : DeleteNodeByKey(k)
        \/ \E k \in Keys, v \in Values : EditValue(k, v)

Spec == Init /\ [][Next]_vars

-----------------------------------------------------------------------------
(* Type correctness: the fields hold what the code's types allow.          *)
TypeOK == store \in Structures /\ reply \in Verdicts

(* Every edge is stored twice, in the parent's children and in the child's *)
(* parents, by separate statements; the two always agree, and a deletion,  *)
(* which finds the neighbours in the deleted node's own sets, leaves no    *)
(* link to a key outside the structure.                                    *)
LinksConsistent == Mirrored(store) /\ Inside(store)

(* No sequence of calls produces a cycle.                                  *)
Acyclic == NoCycle(store)

(* What five branches keep beside the graph stays true of it: the root is  *)
(* a node of the structure, and has_first_node says whether there is one.  *)
BookkeepingExact == RootIsNode(store) /\ FlagExact(store)

(* In semi-strict mode a node without any relation is the only node.       *)
SemiStrictRelated == NoneAlone(store)

-----------------------------------------------------------------------------
(* The structure as the graph its callers see.                             *)
Dag == INSTANCE DagStore WITH vertices <- store.nodes,
                              edges    <- EdgesOf(store),
                              stored   <- store.value,
                              root     <- store.root,
                              mode     <- store.mode

(* Each operation accepts a call exactly when the graph that would result  *)
(* is one the abstract store allows.  The code decides it from its links,  *)
(* its flag, the order of its checks and a search from the child for the   *)
(* parent; it looks only at the neighbours of a node it deletes.           *)
VerdictsExact ==
  /\ \A k \in CallKeys : AddNodeVerdict(store, k) = "Ok" <=> Dag!Insertable(k, {}, {})
  /\ \A k \in CallKeys, ps, cs \in KeyLists :
       AddNodeWithEdgesVerdict(store, k, ps, cs) = "Ok" <=>
         /\ IsInjective(ps) /\ IsInjective(cs)
         /\ Dag!Insertable(k, Range(ps), Range(cs))
  /\ \A p, c \in Keys : AddEdgeVerdict(store, p, c) = "Ok" <=> Dag!Connectable(p, c)
  /\ \A k \in Keys : DeleteVerdict(store, k) = "Ok" <=> Dag!Removable(k)

(* Every accepted call has exactly the abstract store's effect and every   *)
(* other call has none.                                                    *)
ImplementsDagStore == Dag!Spec

(* Once a semi-strict structure has held two nodes it never again holds    *)
(* fewer: delete_node_by_key refuses to leave a neighbour alone, even as   *)
(* the last node.                                                          *)
SemiStrictNeverShrinksBelowTwo ==
  [][ (/\ store.mode = "semi-strict"
       /\ \E x, y \in store.nodes : x # y)
      => \E x, y \in store'.nodes : x # y ]_vars

=============================================================================
