------------------------------ MODULE DagStore ------------------------------
(***************************************************************************)
(* What a structure promises its callers, without saying how it is kept: a *)
(* directed acyclic graph of keyed values, changed one accepted call at a  *)
(* time.  A refused call changes nothing, so it is a stuttering step; which *)
(* calls are accepted is said of the graph that would result, never of the *)
(* links or the path search the code consults.  Structure.tla implements   *)
(* this module.                                                            *)
(***************************************************************************)
CONSTANTS Keys, Values, NoRoot, NoValue

VARIABLES vertices, edges, stored, root, mode

vars == <<vertices, edges, stored, root, mode>>

(* Every non-empty set of keys has one no edge of which stays in the set.  *)
Acyclic(E) ==
  \A S \in SUBSET Keys : S # {} => \E x \in S : \A y \in S : <<x, y>> \notin E

Touching(k, E) == {e \in E : e[1] = k \/ e[2] = k}

NoLoner(V, E) == \A k \in V : Touching(k, E) # {}

Init == /\ mode \in {"semi-strict", "un-strict"}
        /\ edges = {}
        /\ \/ /\ vertices = {}
              /\ root = NoRoot
              /\ stored = [k \in Keys |-> NoValue]
           \/ \E r \in Keys, v \in Values :
                /\ vertices = {r}
                /\ root = r
                /\ stored = [k \in Keys |-> IF k = r THEN v ELSE NoValue]

Around(k, P, Q) == (P \X {k}) \cup ({k} \X Q)

Insertable(k, P, Q) == /\ k \in Keys \ vertices
                       /\ P \subseteq vertices
                       /\ Q \subseteq vertices
                       /\ Acyclic(edges \cup Around(k, P, Q))
                       /\ \/ mode = "un-strict"
                          \/ vertices = {}
                          \/ P \cup Q # {}

Insert(k, v, P, Q) == /\ vertices' = vertices \cup {k}
                      /\ stored' = [stored EXCEPT ![k] = v]
                      /\ edges' = edges \cup Around(k, P, Q)
                      /\ UNCHANGED <<root, mode>>
                      /\ Insertable(k, P, Q)

Connectable(p, c) == /\ p \in vertices
                     /\ c \in vertices
                     /\ <<p, c>> \notin edges
                     /\ Acyclic(edges \cup {<<p, c>>})

Connect(p, c) == /\ UNCHANGED <<vertices, stored, root, mode>>
                 /\ edges' = edges \cup {<<p, c>>}
                 /\ Connectable(p, c)

Without(k) == edges \ Touching(k, edges)

(* In semi-strict mode a removal may leave nothing, but never a vertex     *)
(* without an edge, not even as the last one.                              *)
Removable(k) == /\ k \in vertices
                /\ mode = "un-strict" \/ NoLoner(vertices \ {k}, Without(k))

Remove(k) == /\ Removable(k)
             /\ vertices' = vertices \ {k}
             /\ edges' = Without(k)
             /\ stored' = [stored EXCEPT ![k] = NoValue]
             /\ root' = IF root = k THEN NoRoot ELSE root
             /\ UNCHANGED mode

Edit(k, v) == /\ k \in vertices
              /\ stored' = [stored EXCEPT ![k] = v]
              /\ UNCHANGED <<vertices, edges, root, mode>>

(* A call that is refused.                                                 *)
Refuse == UNCHANGED vars

Next == \/ Refuse
        \/ \E k \in Keys \ vertices, v \in Values, P \in SUBSET vertices, Q \in SUBSET vertices :
              Insert(k, v, P, Q)
        \/ \E p, c \in Keys : Connect(p, c)
        \/ \E k \in Keys : Remove(k)
        \/ \E k \in Keys, v \in Values : Edit(k, v)

Spec == Init /\ [][Next]_vars
=============================================================================
