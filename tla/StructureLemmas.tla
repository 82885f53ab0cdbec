-------------------------- MODULE StructureLemmas ---------------------------
(***************************************************************************)
(* What each operation of StructureOps does to a structure, and that an    *)
(* accepted operation keeps a structure well-formed.  The lemmas speak of  *)
(* a structure's links through Child and Parent, so that a proof needs the *)
(* record's fields only where an operation writes them.                    *)
(***************************************************************************)
EXTENDS StructureOps, TLAPS

KeySets == SUBSET Keys
NodeSets(s) == SUBSET s.nodes

(* No key of Q leads to a key of P.                                        *)
Apart(s, P, Q) == \A q \in Q, p \in P : ~HasPath(s, q, p)

Child(s, x, y)  == y \in s.children[x]
Parent(s, x, y) == y \in s.parents[x]

-----------------------------------------------------------------------------
(* The parts of well-formedness, said with Child and Parent.               *)

LEMMA MirroredMeans ==
  ASSUME NEW s
  PROVE  Mirrored(s) <=> \A p, c \in Keys : Child(s, p, c) <=> Parent(s, c, p)
  BY DEF Mirrored, Child, Parent

LEMMA IsolatedMeans ==
  ASSUME NEW s \in Structures, NEW k \in Keys
  PROVE  Isolated(s, k) <=> \A y \in Keys : ~Child(s, k, y) /\ ~Parent(s, k, y)
<1>1. s.children[k] \subseteq Keys /\ s.parents[k] \subseteq Keys
  BY DEF Structures
<1> QED
  BY <1>1 DEF Isolated, Child, Parent

LEMMA InsideMeans ==
  ASSUME NEW s \in Structures
  PROVE  Inside(s) <=> \A x, y \in Keys : Child(s, x, y) \/ Parent(s, x, y)
                                            => x \in s.nodes /\ y \in s.nodes
<1>1. \A x \in Keys : s.children[x] \subseteq Keys /\ s.parents[x] \subseteq Keys
  BY DEF Structures
<1> QED
  BY <1>1 DEF Inside, Isolated, Child, Parent

LEMMA NoCycleMeans ==
  ASSUME NEW s
  PROVE  NoCycle(s) <=> \A S \in SUBSET Keys :
                          S # {} => \E x \in S : \A y \in S : ~Child(s, x, y)
  BY DEF NoCycle, Child

LEMMA SuccessorsMeans ==
  ASSUME NEW s \in Structures, Inside(s), NEW x \in Keys, NEW y
  PROVE  y \in Successors(s, x) <=> y \in Keys /\ Child(s, x, y)
<1>1. s.children[x] \subseteq Keys
  BY DEF Structures
<1> QED
  BY <1>1, InsideMeans DEF Successors, Child

LEMMA NodesAreKeys ==
  ASSUME NEW s \in Structures
  PROVE  s.nodes \subseteq Keys
  BY DEF Structures

-----------------------------------------------------------------------------
(* The fields of each operation's result.                                  *)

LEMMA EmptyFields ==
  ASSUME NEW m \in Modes
  PROVE  LET t == EmptyStructure(m)
         IN  /\ t \in Structures
             /\ t.nodes = {}
             /\ t.root = NoRoot
             /\ t.mode = m
             /\ \A x, y \in Keys : ~Child(t, x, y) /\ ~Parent(t, x, y)
             /\ FlagExact(t)
  BY DEF EmptyStructure, Structures, Child, Parent, FlagExact

LEMMA WithRootFields ==
  ASSUME NEW m \in Modes, NEW r \in Keys, NEW v \in Values
  PROVE  LET t == WithRoot(r, v, m)
         IN  /\ t \in Structures
             /\ t.nodes = {r}
             /\ t.root = r
             /\ t.mode = m
             /\ \A x, y \in Keys : ~Child(t, x, y) /\ ~Parent(t, x, y)
             /\ FlagExact(t)
  BY DEF EmptyStructure, Structures, WithRoot, Child, Parent, FlagExact

LEMMA NewValues ==
  ASSUME NEW m \in Modes, NEW r \in Keys, NEW v \in Values
  PROVE  /\ EmptyStructure(m).value = [k \in Keys |-> NoValue]
         /\ WithRoot(r, v, m).value = [k \in Keys |-> IF k = r THEN v ELSE NoValue]
  BY DEF EmptyStructure, WithRoot

LEMMA InsertFields ==
  ASSUME NEW s \in Structures, NEW k \in Keys, NEW v \in Values
  PROVE  LET t == Insert(s, k, v)
         IN  /\ t \in Structures
             /\ t.nodes = s.nodes \cup {k}
             /\ t.root = s.root
             /\ t.mode = s.mode
             /\ t.value = [s.value EXCEPT ![k] = v]
             /\ t.children = s.children
             /\ t.parents = s.parents
             /\ FlagExact(t)
  BY DEF Insert, Structures, FlagExact

LEMMA LinkNodeFields ==
  ASSUME NEW s \in Structures, NEW k \in Keys, NEW P \in KeySets, NEW Q \in KeySets
  PROVE  LET t == LinkNode(s, k, P, Q)
         IN  /\ t \in Structures
             /\ t.nodes = s.nodes
             /\ t.root = s.root
             /\ t.mode = s.mode
             /\ t.value = s.value
             /\ FlagExact(s) => FlagExact(t)
<1> DEFINE ch == [x \in Keys |-> (s.children[x] \cup IF x \in P \ {k} THEN {k} ELSE {})
                                                \cup IF x = k THEN Q \ {k} ELSE {}]
           pa == [x \in Keys |-> (s.parents[x] \cup IF x \in Q \ {k} THEN {k} ELSE {})
                                               \cup IF x = k THEN P \ {k} ELSE {}]
<1>1. s.children \in [Keys -> SUBSET Keys] /\ s.parents \in [Keys -> SUBSET Keys]
  BY DEF Structures
<1>2. ch \in [Keys -> SUBSET Keys] /\ pa \in [Keys -> SUBSET Keys]
  BY <1>1 DEF KeySets
<1>3. LinkNode(s, k, P, Q) = [s EXCEPT !.children = ch, !.parents = pa]
  BY DEF LinkNode
<1> HIDE DEF ch, pa
<1> QED
  BY <1>2, <1>3 DEF Structures, FlagExact

LEMMA LinkNodeLinks ==
  ASSUME NEW s \in Structures, NEW k \in Keys, NEW P \in KeySets, NEW Q \in KeySets,
         NEW x \in Keys, NEW y \in Keys
  PROVE  LET t == LinkNode(s, k, P, Q)
         IN  /\ Child(t, x, y) <=> \/ Child(s, x, y)
                                   \/ x \in P \ {k} /\ y = k
                                   \/ x = k /\ y \in Q \ {k}
             /\ Parent(t, x, y) <=> \/ Parent(s, x, y)
                                    \/ x \in Q \ {k} /\ y = k
                                    \/ x = k /\ y \in P \ {k}
<1> DEFINE ch == [z \in Keys |-> (s.children[z] \cup IF z \in P \ {k} THEN {k} ELSE {})
                                                \cup IF z = k THEN Q \ {k} ELSE {}]
           pa == [z \in Keys |-> (s.parents[z] \cup IF z \in Q \ {k} THEN {k} ELSE {})
                                               \cup IF z = k THEN P \ {k} ELSE {}]
           t  == LinkNode(s, k, P, Q)
<1>1. /\ y \in ch[x] <=> \/ y \in s.children[x]
                         \/ x \in P \ {k} /\ y = k
                         \/ x = k /\ y \in Q \ {k}
      /\ y \in pa[x] <=> \/ y \in s.parents[x]
                         \/ x \in Q \ {k} /\ y = k
                         \/ x = k /\ y \in P \ {k}
  OBVIOUS
<1>2. t = [s EXCEPT !.children = ch, !.parents = pa]
  BY DEF LinkNode
<1> HIDE DEF ch, pa, t
<1>3. t.children = ch /\ t.parents = pa
  BY <1>2 DEF Structures
<1> QED
  BY <1>1, <1>3 DEF Child, Parent, t

LEMMA InsertLinkedFields ==
  ASSUME NEW s \in Structures, NEW k \in Keys, NEW v \in Values,
         NEW P \in KeySets, NEW Q \in KeySets
  PROVE  LET t == InsertLinked(s, k, v, P, Q)
         IN  /\ t \in Structures
             /\ t.nodes = s.nodes \cup {k}
             /\ t.root = s.root
             /\ t.mode = s.mode
             /\ FlagExact(t)
<1> DEFINE i == Insert(s, k, v)
<1>1. /\ i \in Structures
      /\ i.nodes = s.nodes \cup {k}
      /\ i.root = s.root
      /\ i.mode = s.mode
      /\ FlagExact(i)
  BY InsertFields, ZenonT(30)
<1>2. InsertLinked(s, k, v, P, Q) = LinkNode(i, k, P, Q)
  BY DEF InsertLinked
<1> HIDE DEF i
<1> QED
  BY <1>1, <1>2, LinkNodeFields

LEMMA InsertLinkedValue ==
  ASSUME NEW s \in Structures, NEW k \in Keys, NEW v \in Values,
         NEW P \in KeySets, NEW Q \in KeySets
  PROVE  InsertLinked(s, k, v, P, Q).value = [s.value EXCEPT ![k] = v]
<1> DEFINE i == Insert(s, k, v)
<1>1. i \in Structures /\ i.value = [s.value EXCEPT ![k] = v]
  BY InsertFields
<1>2. InsertLinked(s, k, v, P, Q) = LinkNode(i, k, P, Q)
  BY DEF InsertLinked
<1> HIDE DEF i
<1>3. LinkNode(i, k, P, Q).value = i.value
  BY <1>1, LinkNodeFields
<1> QED
  BY <1>1, <1>2, <1>3

LEMMA InsertLinkedLinks ==
  ASSUME NEW s \in Structures, NEW k \in Keys, NEW v \in Values,
         NEW P \in KeySets, NEW Q \in KeySets, NEW x \in Keys, NEW y \in Keys
  PROVE  LET t == InsertLinked(s, k, v, P, Q)
         IN  /\ Child(t, x, y) <=> \/ Child(s, x, y)
                                   \/ x \in P \ {k} /\ y = k
                                   \/ x = k /\ y \in Q \ {k}
             /\ Parent(t, x, y) <=> \/ Parent(s, x, y)
                                    \/ x \in Q \ {k} /\ y = k
                                    \/ x = k /\ y \in P \ {k}
<1> DEFINE i == Insert(s, k, v)
<1>1. /\ i \in Structures
      /\ i.children = s.children
      /\ i.parents = s.parents
  BY InsertFields, ZenonT(30)
<1>2. /\ Child(i, x, y) <=> Child(s, x, y)
      /\ Parent(i, x, y) <=> Parent(s, x, y)
  BY <1>1 DEF Child, Parent
<1>3. InsertLinked(s, k, v, P, Q) = LinkNode(i, k, P, Q)
  BY DEF InsertLinked
<1> HIDE DEF i
<1> QED
  BY <1>1, <1>2, <1>3, LinkNodeLinks

LEMMA AddChildFields ==
  ASSUME NEW s \in Structures, NEW p \in Keys, NEW c \in Keys, p # c
  PROVE  LET t == AddChild(s, p, c)
         IN  /\ t \in Structures
             /\ t.nodes = s.nodes
             /\ t.root = s.root
             /\ t.mode = s.mode
             /\ t.value = s.value
             /\ FlagExact(s) => FlagExact(t)
<1> DEFINE ch == [s.children EXCEPT ![p] = @ \cup {c}]
           pa == [s.parents EXCEPT ![c] = @ \cup {p}]
           t == AddChild(s, p, c)
<1>1. t = [s EXCEPT !.children = ch, !.parents = pa]
  BY DEF AddChild, Structures
<1>2. ch \in [Keys -> SUBSET Keys] /\ pa \in [Keys -> SUBSET Keys]
  BY DEF Structures
<1> HIDE DEF ch, pa
<1>3. /\ t \in Structures
      /\ t.nodes = s.nodes /\ t.root = s.root /\ t.mode = s.mode
      /\ t.value = s.value /\ t.hasFirst = s.hasFirst
  BY <1>1, <1>2 DEF Structures
<1> QED
  BY <1>3 DEF FlagExact

LEMMA AddChildLinks ==
  ASSUME NEW s \in Structures, NEW p \in Keys, NEW c \in Keys, p # c,
         NEW x \in Keys, NEW y \in Keys
  PROVE  LET t == AddChild(s, p, c)
         IN  /\ Child(t, x, y) <=> Child(s, x, y) \/ (x = p /\ y = c)
             /\ Parent(t, x, y) <=> Parent(s, x, y) \/ (x = c /\ y = p)
  BY DEF AddChild, Structures, Child, Parent

LEMMA UnlinkFields ==
  ASSUME NEW s \in Structures, NEW k \in Keys
  PROVE  LET t == Unlink(s, k)
         IN  /\ t \in Structures
             /\ t.nodes = s.nodes
             /\ t.root = s.root
             /\ t.mode = s.mode
             /\ t.hasFirst = s.hasFirst
             /\ t.value = s.value
<1> DEFINE ch == [x \in Keys |-> IF x = k THEN {}
                                 ELSE IF x \in s.parents[k] THEN s.children[x] \ {k}
                                 ELSE s.children[x]]
           pa == [x \in Keys |-> IF x = k THEN {}
                                 ELSE IF x \in s.children[k] THEN s.parents[x] \ {k}
                                 ELSE s.parents[x]]
<1>1. s.children \in [Keys -> SUBSET Keys] /\ s.parents \in [Keys -> SUBSET Keys]
  BY DEF Structures
<1>2. ch \in [Keys -> SUBSET Keys] /\ pa \in [Keys -> SUBSET Keys]
  BY <1>1
<1>3. Unlink(s, k) = [s EXCEPT !.children = ch, !.parents = pa]
  BY DEF Unlink
<1> HIDE DEF ch, pa
<1> QED
  BY <1>2, <1>3 DEF Structures

LEMMA UnlinkLinks ==
  ASSUME NEW s \in Structures, NEW k \in Keys, NEW x \in Keys, NEW y \in Keys
  PROVE  LET t == Unlink(s, k)
         IN  /\ Child(t, x, y) <=> /\ Child(s, x, y)
                                   /\ x # k
                                   /\ ~(Parent(s, k, x) /\ y = k)
             /\ Parent(t, x, y) <=> /\ Parent(s, x, y)
                                    /\ x # k
                                    /\ ~(Child(s, k, x) /\ y = k)
<1> DEFINE t == Unlink(s, k)
<1>1. /\ t.children[x] = IF x = k THEN {}
                         ELSE IF x \in s.parents[k] THEN s.children[x] \ {k}
                         ELSE s.children[x]
      /\ t.parents[x] = IF x = k THEN {}
                        ELSE IF x \in s.children[k] THEN s.parents[x] \ {k}
                        ELSE s.parents[x]
  BY DEF Unlink, Structures
<1> HIDE DEF t
<1> QED
  BY <1>1 DEF Child, Parent, t

LEMMA DeleteFields ==
  ASSUME NEW s \in Structures, NEW k \in Keys
  PROVE  LET t == DeleteNode(s, k)
         IN  /\ t \in Structures
             /\ t.nodes = s.nodes \ {k}
             /\ t.root = IF s.root = k THEN NoRoot ELSE s.root
             /\ t.mode = s.mode
             /\ t.value = [s.value EXCEPT ![k] = NoValue]
             /\ t.children = Unlink(s, k).children
             /\ t.parents = Unlink(s, k).parents
<1> DEFINE u == Unlink(s, k)
           first == FlagAfterDelete(s, k)
           nd == u.nodes \ {k}
           rt == RootAfterDelete(s, k)
           vl == [u.value EXCEPT ![k] = NoValue]
<1>1. /\ u \in Structures
      /\ u.nodes = s.nodes
      /\ u.root = s.root
      /\ u.mode = s.mode
      /\ u.value = s.value
  BY UnlinkFields
<1>2. DeleteNode(s, k) = [u EXCEPT !.nodes = nd, !.root = rt, !.value = vl, !.hasFirst = first]
  BY DEF DeleteNode
<1>3. /\ nd \in SUBSET Keys
      /\ rt \in Keys \cup {NoRoot}
      /\ vl \in [Keys -> Values \cup {NoValue}]
      /\ first \in BOOLEAN
  BY <1>1 DEF Structures, RootAfterDelete, FlagAfterDelete
<1> HIDE DEF u, first, nd, rt, vl
<1>4. LET t == DeleteNode(s, k)
      IN  /\ t \in Structures
          /\ t.nodes = nd
          /\ t.root = rt
          /\ t.mode = u.mode
          /\ t.value = vl
          /\ t.children = u.children
          /\ t.parents = u.parents
  BY <1>1, <1>2, <1>3 DEF Structures
<1> QED
  BY <1>1, <1>4 DEF nd, rt, vl, u, RootAfterDelete

LEMMA DeleteLinks ==
  ASSUME NEW s \in Structures, NEW k \in Keys, NEW x \in Keys, NEW y \in Keys
  PROVE  LET t == DeleteNode(s, k)
         IN  /\ Child(t, x, y) <=> /\ Child(s, x, y)
                                   /\ x # k
                                   /\ ~(Parent(s, k, x) /\ y = k)
             /\ Parent(t, x, y) <=> /\ Parent(s, x, y)
                                    /\ x # k
                                    /\ ~(Child(s, k, x) /\ y = k)
<1>1. /\ DeleteNode(s, k).children = Unlink(s, k).children
      /\ DeleteNode(s, k).parents = Unlink(s, k).parents
  BY DeleteFields, ZenonT(30)
<1>2. /\ Child(DeleteNode(s, k), x, y) <=> Child(Unlink(s, k), x, y)
      /\ Parent(DeleteNode(s, k), x, y) <=> Parent(Unlink(s, k), x, y)
  BY <1>1 DEF Child, Parent
<1> QED
  BY <1>2, UnlinkLinks

LEMMA DeleteFlag ==
  ASSUME NEW s \in Structures, NEW k \in s.nodes, FlagExact(s), NoneAlone(s)
  PROVE  FlagExact(DeleteNode(s, k))
<1> DEFINE u == Unlink(s, k)
           alone == s.mode = "semi-strict" /\ Isolated(s, k)
           first == s.nodes # {k} /\ ~alone
<1>1. u \in Structures /\ u.nodes = s.nodes /\ u.hasFirst = s.hasFirst
  BY NodesAreKeys, UnlinkFields
<1>2. s.hasFirst
  BY DEF FlagExact
<1>3. first <=> s.nodes \ {k} # {}
  BY DEF NoneAlone
<1>4. DeleteNode(s, k) = [u EXCEPT !.nodes    = @ \ {k},
                                   !.root     = RootAfterDelete(s, k),
                                   !.value[k] = NoValue,
                                   !.hasFirst = first]
  BY <1>2 DEF DeleteNode, FlagAfterDelete
<1> HIDE DEF u, alone
<1>5. DeleteNode(s, k).nodes = s.nodes \ {k}
  BY <1>1, <1>4 DEF Structures
<1>6. DeleteNode(s, k).hasFirst <=> first
  BY <1>1, <1>2, <1>4 DEF Structures
<1> QED
  BY <1>3, <1>5, <1>6 DEF FlagExact

LEMMA EditFields ==
  ASSUME NEW s \in Structures, NEW k \in Keys, NEW v \in Values
  PROVE  LET t == EditNode(s, k, v)
         IN  /\ t \in Structures
             /\ t.nodes = s.nodes
             /\ t.root = s.root
             /\ t.mode = s.mode
             /\ t.value = [s.value EXCEPT ![k] = v]
             /\ t.children = s.children
             /\ t.parents = s.parents
             /\ FlagExact(s) => FlagExact(t)
  BY DEF EditNode, Structures, FlagExact

-----------------------------------------------------------------------------
(* Paths.                                                                  *)

LEMMA PathRefl ==
  ASSUME NEW s, NEW a \in Keys
  PROVE  HasPath(s, a, a)
  BY DEF HasPath

LEMMA PathStep ==
  ASSUME NEW s, NEW a \in Keys, NEW x \in Keys, NEW y \in Successors(s, x),
         HasPath(s, a, x)
  PROVE  HasPath(s, a, y)
  BY DEF HasPath, Closed

LEMMA PathStaysInClosed ==
  ASSUME NEW s, NEW C, C \subseteq Keys, Closed(s, C),
         NEW a \in C, NEW b, HasPath(s, a, b)
  PROVE  b \in C
  BY DEF HasPath

(* What lies below the keys of Q is closed, holds Q, and stays inside.     *)
LEMMA BelowClosed ==
  ASSUME NEW s \in Structures, Inside(s), NEW Q, Q \subseteq s.nodes
  PROVE  LET C == {x \in Keys : \E q \in Q : HasPath(s, q, x)}
         IN  /\ Q \subseteq C
             /\ C \subseteq s.nodes
             /\ \A x \in C, y \in Keys : Child(s, x, y) => y \in C
<1> DEFINE C == {x \in Keys : \E q \in Q : HasPath(s, q, x)}
<1>0. s.nodes \subseteq Keys
  BY NodesAreKeys
<1>1. Q \subseteq C
  BY <1>0, PathRefl
<1>2. Closed(s, s.nodes)
  BY <1>0, SuccessorsMeans, InsideMeans DEF Closed
<1>3. C \subseteq s.nodes
  BY <1>0, <1>2, PathStaysInClosed
<1>4. ASSUME NEW x \in C, NEW y \in Keys, Child(s, x, y)
      PROVE  y \in C
  <2>1. PICK q \in Q : HasPath(s, q, x)
    OBVIOUS
  <2>2. y \in Successors(s, x)
    BY <1>4, SuccessorsMeans
  <2> QED
    BY <1>0, <2>1, <2>2, PathStep
<1> QED
  BY <1>1, <1>3, <1>4

(* On a path that has not arrived, some next step still leads to the end.  *)
LEMMA PathGoesOn ==
  ASSUME NEW s \in Structures, Inside(s), NEW a \in Keys, NEW b \in Keys, a # b,
         HasPath(s, a, b)
  PROVE  \E y \in Keys : Child(s, a, y) /\ HasPath(s, y, b)
<1> DEFINE D == {a} \cup {z \in Keys : \E y \in Keys : Child(s, a, y) /\ HasPath(s, y, z)}
<1>1. Closed(s, D)
  <2>1. ASSUME NEW z \in D, NEW w \in Successors(s, z)
        PROVE  w \in D
    <3>1. w \in Keys /\ Child(s, z, w)
      BY SuccessorsMeans
    <3>2. CASE z = a
      BY <3>1, <3>2, PathRefl
    <3>3. CASE z # a
      <4>1. PICK y \in Keys : Child(s, a, y) /\ HasPath(s, y, z)
        BY <3>3
      <4> QED
        BY <3>1, <3>3, <4>1, PathStep
    <3> QED
      BY <3>2, <3>3
  <2> QED
    BY <2>1 DEF Closed
<1>2. b \in D
  BY <1>1, PathStaysInClosed
<1> QED
  BY <1>2

-----------------------------------------------------------------------------
(* Where a path search justifies an edge: a graph without cycles stays so  *)
(* exactly when nothing below the new edge's end leads to its start.       *)

LEMMA EdgeBetween ==
  ASSUME NEW s \in Structures, Inside(s), NoCycle(s),
         NEW p \in s.nodes, NEW c \in s.nodes, p # c, ~HasPath(s, c, p)
  PROVE  \A S \in SUBSET Keys : S # {} =>
           \E x \in S : \A y \in S : ~(Child(s, x, y) \/ (x = p /\ y = c))
<1> DEFINE Q == {c}
           C == {x \in Keys : \E q \in Q : HasPath(s, q, x)}
<1>1. Q \subseteq s.nodes /\ c \in Q
  OBVIOUS
<1>2. p \notin C
  OBVIOUS
<1> HIDE DEF Q
<1>3. /\ c \in C
      /\ \A x \in C, y \in Keys : Child(s, x, y) => y \in C
  BY <1>1, BelowClosed
<1>4. \A S \in SUBSET Keys : S # {} => \E x \in S : \A y \in S : ~Child(s, x, y)
  BY NoCycleMeans
<1> HIDE DEF C
<1>5. SUFFICES ASSUME NEW S \in SUBSET Keys, S # {}
               PROVE  \E x \in S : \A y \in S : ~(Child(s, x, y) \/ (x = p /\ y = c))
  OBVIOUS
<1>6. CASE S \cap C # {}
  <2>1. PICK x \in S \cap C : \A y \in S \cap C : ~Child(s, x, y)
    <3>1. S \cap C \in SUBSET Keys
      OBVIOUS
    <3> QED
      BY <1>4, <1>6, <3>1
  <2> QED
    BY <1>2, <1>3, <2>1
<1>7. CASE S \cap C = {}
  BY <1>3, <1>4, <1>5, <1>7
<1> QED
  BY <1>6, <1>7

LEMMA NodeBetween ==
  ASSUME NEW s \in Structures, Inside(s), NoCycle(s), NEW k \in Keys, k \notin s.nodes,
         NEW P \in NodeSets(s), NEW Q \in NodeSets(s), Apart(s, P, Q)
  PROVE  \A S \in SUBSET Keys : S # {} =>
           \E x \in S : \A y \in S : ~(\/ Child(s, x, y)
                                       \/ x \in P /\ y = k
                                       \/ x = k /\ y \in Q)
<1> DEFINE C == {x \in Keys : \E q \in Q : HasPath(s, q, x)}
<1>0. P \subseteq s.nodes /\ Q \subseteq s.nodes
  BY DEF NodeSets
<1>1. /\ Q \subseteq C
      /\ C \subseteq s.nodes
      /\ \A x \in C, y \in Keys : Child(s, x, y) => y \in C
  BY <1>0, BelowClosed
<1>2. P \cap C = {}
  BY DEF Apart
<1>3. \A S \in SUBSET Keys : S # {} => \E x \in S : \A y \in S : ~Child(s, x, y)
  BY NoCycleMeans
<1>4. \A x, y \in Keys : Child(s, x, y) => x \in s.nodes /\ y \in s.nodes
  BY InsideMeans
<1> HIDE DEF C
<1>5. SUFFICES ASSUME NEW S \in SUBSET Keys, S # {}
               PROVE  \E x \in S : \A y \in S : ~(\/ Child(s, x, y)
                                                  \/ x \in P /\ y = k
                                                  \/ x = k /\ y \in Q)
  OBVIOUS
<1>6. CASE S \cap C # {}
  <2>1. PICK x \in S \cap C : \A y \in S \cap C : ~Child(s, x, y)
    <3>1. S \cap C \in SUBSET Keys
      OBVIOUS
    <3> QED
      BY <1>3, <1>6, <3>1
  <2> QED
    BY <1>1, <1>2, <2>1
<1>7. CASE S \cap C = {} /\ k \in S
  BY <1>0, <1>1, <1>2, <1>4, <1>7
<1>8. CASE S \cap C = {} /\ k \notin S
  BY <1>3, <1>5, <1>8
<1> QED
  BY <1>6, <1>7, <1>8

(* The keys on the paths from a to b: each but b has a child among them.   *)
LEMMA PathKeys ==
  ASSUME NEW s \in Structures, Inside(s), NEW a \in Keys, NEW b \in Keys,
         HasPath(s, a, b)
  PROVE  \E S \in SUBSET Keys :
           /\ a \in S
           /\ b \in S
           /\ \A x \in S : x # b => \E y \in S : Child(s, x, y)
<1> DEFINE S == {x \in Keys : HasPath(s, a, x) /\ HasPath(s, x, b)}
<1>1. a \in S /\ b \in S
  BY PathRefl
<1>2. ASSUME NEW x \in S, x # b
      PROVE  \E y \in S : Child(s, x, y)
  <2>1. PICK y \in Keys : Child(s, x, y) /\ HasPath(s, y, b)
    BY <1>2, PathGoesOn
  <2>2. HasPath(s, a, y)
    BY <2>1, PathStep, SuccessorsMeans
  <2> QED
    BY <2>1, <2>2
<1>3. S \in SUBSET Keys
  OBVIOUS
<1> HIDE DEF S
<1> QED
  BY <1>1, <1>2, <1>3

-----------------------------------------------------------------------------
(* The constructors and every accepted operation give a well-formed        *)
(* structure.                                                              *)

LEMMA EmptyWellFormed ==
  ASSUME NEW m \in Modes
  PROVE  WellFormed(EmptyStructure(m))
<1> DEFINE t == EmptyStructure(m)
<1>1. /\ t \in Structures
      /\ t.nodes = {}
      /\ t.root = NoRoot
      /\ \A x, y \in Keys : ~Child(t, x, y) /\ ~Parent(t, x, y)
      /\ FlagExact(t)
  BY EmptyFields
<1> HIDE DEF t
<1>2. NoCycle(t)
  BY <1>1, NoCycleMeans
<1>3. Mirrored(t) /\ Inside(t)
  BY <1>1, MirroredMeans, InsideMeans
<1>4. RootIsNode(t) /\ NoneAlone(t)
  BY <1>1 DEF RootIsNode, NoneAlone
<1> QED
  BY <1>1, <1>2, <1>3, <1>4 DEF WellFormed, t

LEMMA WithRootWellFormed ==
  ASSUME NEW m \in Modes, NEW r \in Keys, NEW v \in Values
  PROVE  WellFormed(WithRoot(r, v, m))
<1> DEFINE t == WithRoot(r, v, m)
<1>1. /\ t \in Structures
      /\ t.nodes = {r}
      /\ t.root = r
      /\ \A x, y \in Keys : ~Child(t, x, y) /\ ~Parent(t, x, y)
      /\ FlagExact(t)
  BY WithRootFields
<1> HIDE DEF t
<1>2. NoCycle(t)
  BY <1>1, NoCycleMeans
<1>3. Mirrored(t) /\ Inside(t)
  BY <1>1, MirroredMeans, InsideMeans
<1>4. RootIsNode(t) /\ NoneAlone(t)
  BY <1>1 DEF RootIsNode, NoneAlone
<1> QED
  BY <1>1, <1>2, <1>3, <1>4 DEF WellFormed, t

(* A node may be put between parents and children of a structure when no   *)
(* child leads to a parent.                                                *)
LEMMA InsertLinkedWellFormed ==
  ASSUME NEW s, WellFormed(s), NEW k \in Keys, k \notin s.nodes, NEW v \in Values,
         NEW P \in NodeSets(s), NEW Q \in NodeSets(s), Apart(s, P, Q),
         s.mode = "semi-strict" => s.nodes = {} \/ P \cup Q # {}
  PROVE  WellFormed(InsertLinked(s, k, v, P, Q))
<1> DEFINE t == InsertLinked(s, k, v, P, Q)
<1>1. /\ s \in Structures
      /\ s.nodes \subseteq Keys
      /\ P \in KeySets
      /\ Q \in KeySets
      /\ P \subseteq s.nodes
      /\ Q \subseteq s.nodes
  BY NodesAreKeys DEF WellFormed, KeySets, NodeSets
<1>2. /\ t \in Structures
      /\ t.nodes = s.nodes \cup {k}
      /\ t.root = s.root
      /\ t.mode = s.mode
      /\ FlagExact(t)
  BY <1>1, InsertLinkedFields
<1>3. \A x, y \in Keys :
        /\ Child(t, x, y) <=> \/ Child(s, x, y)
                              \/ x \in P /\ y = k
                              \/ x = k /\ y \in Q
        /\ Parent(t, x, y) <=> \/ Parent(s, x, y)
                               \/ x \in Q /\ y = k
                               \/ x = k /\ y \in P
  BY <1>1, InsertLinkedLinks
<1>4. \A x, y \in Keys : /\ Child(s, x, y) <=> Parent(s, y, x)
                         /\ Child(s, x, y) => x \in s.nodes /\ y \in s.nodes
  BY <1>1, MirroredMeans, InsideMeans DEF WellFormed
<1> HIDE DEF t
<1>5. Mirrored(t)
  BY <1>3, <1>4, MirroredMeans
<1>6. Inside(t)
  BY <1>1, <1>2, <1>3, <1>4, InsideMeans
<1>7. NoCycle(t)
  <2>1. \A S \in SUBSET Keys : S # {} =>
          \E x \in S : \A y \in S : ~(\/ Child(s, x, y)
                                      \/ x \in P /\ y = k
                                      \/ x = k /\ y \in Q)
    BY <1>1, NodeBetween DEF WellFormed
  <2>2. \A S \in SUBSET Keys : S # {} => \E x \in S : \A y \in S : ~Child(t, x, y)
    BY <1>3, <2>1
  <2> QED
    BY <2>2, NoCycleMeans
<1>8. RootIsNode(t)
  BY <1>2 DEF WellFormed, RootIsNode
<1>9. NoneAlone(t)
  <2>1. SUFFICES ASSUME s.mode = "semi-strict", NEW x \in t.nodes, Isolated(t, x)
                 PROVE  t.nodes = {x}
    BY <1>2 DEF NoneAlone
  <2>2. x \in Keys /\ \A y \in Keys : ~Child(t, x, y) /\ ~Parent(t, x, y)
    BY <1>1, <1>2, <2>1, IsolatedMeans
  <2>3. CASE s.nodes = {}
    BY <1>2, <2>3
  <2>4. CASE s.nodes # {}
    <3>1. P \cup Q # {}
      BY <2>1, <2>4
    <3>2. x # k
      BY <1>1, <1>3, <2>2, <3>1
    <3>3. x \in s.nodes /\ Isolated(s, x)
      BY <1>1, <1>2, <1>3, <2>2, <3>2, IsolatedMeans
    <3>4. s.nodes = {x}
      BY <2>1, <3>3 DEF WellFormed, NoneAlone
    <3>5. x \in P \cup Q
      BY <1>1, <3>1, <3>4
    <3> QED
      BY <1>3, <2>2, <3>5
  <2> QED
    BY <2>3, <2>4
<1> QED
  BY <1>2, <1>5, <1>6, <1>7, <1>8, <1>9 DEF WellFormed, t

(* An edge may be added when the child does not already lead to the parent. *)
LEMMA AddChildWellFormed ==
  ASSUME NEW s, WellFormed(s), NEW p \in s.nodes, NEW c \in s.nodes, p # c,
         ~HasPath(s, c, p)
  PROVE  WellFormed(AddChild(s, p, c))
<1> DEFINE t == AddChild(s, p, c)
<1>1. s \in Structures /\ p \in Keys /\ c \in Keys
  BY NodesAreKeys DEF WellFormed
<1>2. /\ t \in Structures
      /\ t.nodes = s.nodes
      /\ t.root = s.root
      /\ t.mode = s.mode
      /\ FlagExact(t)
  BY <1>1, AddChildFields DEF WellFormed
<1>3. \A x, y \in Keys :
        /\ Child(t, x, y) <=> Child(s, x, y) \/ (x = p /\ y = c)
        /\ Parent(t, x, y) <=> Parent(s, x, y) \/ (x = c /\ y = p)
  BY <1>1, AddChildLinks
<1>4. \A x, y \in Keys : /\ Child(s, x, y) <=> Parent(s, y, x)
                         /\ Child(s, x, y) => x \in s.nodes /\ y \in s.nodes
  BY <1>1, MirroredMeans, InsideMeans DEF WellFormed
<1> HIDE DEF t
<1>5. Mirrored(t)
  BY <1>3, <1>4, MirroredMeans
<1>6. Inside(t)
  BY <1>2, <1>3, <1>4, InsideMeans
<1>7. NoCycle(t)
  <2>1. \A S \in SUBSET Keys : S # {} =>
          \E x \in S : \A y \in S : ~(Child(s, x, y) \/ (x = p /\ y = c))
    BY EdgeBetween DEF WellFormed
  <2>2. \A S \in SUBSET Keys : S # {} => \E x \in S : \A y \in S : ~Child(t, x, y)
    BY <1>3, <2>1
  <2> QED
    BY <2>2, NoCycleMeans
<1>8. RootIsNode(t)
  BY <1>2 DEF WellFormed, RootIsNode
<1>9. NoneAlone(t)
  <2>1. SUFFICES ASSUME s.mode = "semi-strict", NEW x \in s.nodes, Isolated(t, x)
                 PROVE  s.nodes = {x}
    BY <1>2 DEF NoneAlone
  <2>2. x \in Keys
    BY <1>1, NodesAreKeys
  <2>3. Isolated(s, x)
    BY <1>1, <1>2, <1>3, <2>1, <2>2, IsolatedMeans
  <2> QED
    BY <2>1, <2>3 DEF WellFormed, NoneAlone
<1> QED
  BY <1>2, <1>5, <1>6, <1>7, <1>8, <1>9 DEF WellFormed, t

LEMMA DeleteWellFormed ==
  ASSUME NEW s, WellFormed(s), NEW k \in Keys, DeleteVerdict(s, k) = "Ok"
  PROVE  WellFormed(DeleteNode(s, k))
<1> DEFINE t == DeleteNode(s, k)
<1>1. s \in Structures /\ k \in s.nodes
  BY DEF WellFormed, DeleteVerdict
<1>2. /\ t \in Structures
      /\ t.nodes = s.nodes \ {k}
      /\ t.root = IF s.root = k THEN NoRoot ELSE s.root
      /\ t.mode = s.mode
  BY <1>1, DeleteFields, ZenonT(30)
<1>3. \A x, y \in Keys :
        /\ Child(t, x, y) <=> Child(s, x, y) /\ x # k /\ ~(Parent(s, k, x) /\ y = k)
        /\ Parent(t, x, y) <=> Parent(s, x, y) /\ x # k /\ ~(Child(s, k, x) /\ y = k)
  BY <1>1, DeleteLinks
<1>4. \A x, y \in Keys : /\ Child(s, x, y) <=> Parent(s, y, x)
                         /\ Child(s, x, y) => x \in s.nodes /\ y \in s.nodes
  BY <1>1, MirroredMeans, InsideMeans DEF WellFormed
<1>5. FlagExact(t)
  BY <1>1, DeleteFlag DEF WellFormed
<1> HIDE DEF t
<1>6. Mirrored(t)
  BY <1>3, <1>4, MirroredMeans
<1>7. Inside(t)
  BY <1>2, <1>3, <1>4, InsideMeans
<1>8. NoCycle(t)
  <2>1. \A S \in SUBSET Keys : S # {} => \E x \in S : \A y \in S : ~Child(s, x, y)
    BY NoCycleMeans DEF WellFormed
  <2>2. \A S \in SUBSET Keys : S # {} => \E x \in S : \A y \in S : ~Child(t, x, y)
    BY <1>3, <2>1
  <2> QED
    BY <2>2, NoCycleMeans
<1>9. RootIsNode(t)
  BY <1>2 DEF WellFormed, RootIsNode
<1>10. NoneAlone(t)
  <2>1. SUFFICES ASSUME s.mode = "semi-strict", NEW x \in t.nodes, Isolated(t, x)
                 PROVE  t.nodes = {x}
    BY <1>2 DEF NoneAlone
  <2>2. /\ x \in s.nodes
        /\ x # k
        /\ x \in Keys
        /\ \A y \in Keys : ~Child(t, x, y) /\ ~Parent(t, x, y)
    BY <1>1, <1>2, <2>1, IsolatedMeans, NodesAreKeys
  <2>3. ~Isolated(s, x) /\ ~Isolated(s, k)
    BY <1>1, <2>1, <2>2 DEF WellFormed, NoneAlone
  <2>4. Child(s, k, x) \/ Parent(s, k, x)
    BY <1>1, <1>3, <1>4, <2>2, <2>3, IsolatedMeans
  <2>5. SemiStrictCheckForOne(s, x, k)
    BY <1>1, <2>1, <2>3, <2>4 DEF DeleteVerdict, Child, Parent
  <2>6. PICK y \in Keys : y # k /\ (Child(s, x, y) \/ Parent(s, x, y))
    BY <1>1, <2>5, NodesAreKeys DEF SemiStrictCheckForOne, Child, Parent
  <2> QED
    BY <1>3, <2>2, <2>6
<1> QED
  BY <1>2, <1>5, <1>6, <1>7, <1>8, <1>9, <1>10 DEF WellFormed, t

LEMMA EditWellFormed ==
  ASSUME NEW s, WellFormed(s), NEW k \in Keys, NEW v \in Values
  PROVE  WellFormed(EditNode(s, k, v))
<1> DEFINE t == EditNode(s, k, v)
<1>1. /\ t \in Structures
      /\ t.nodes = s.nodes
      /\ t.root = s.root
      /\ t.mode = s.mode
      /\ t.children = s.children
      /\ t.parents = s.parents
      /\ FlagExact(t)
  BY EditFields DEF WellFormed
<1> HIDE DEF t
<1>2. Mirrored(t) /\ Inside(t) /\ NoCycle(t) /\ RootIsNode(t) /\ NoneAlone(t)
  BY <1>1 DEF WellFormed, Mirrored, Inside, NoCycle, RootIsNode, NoneAlone, Isolated
<1> QED
  BY <1>1, <1>2 DEF WellFormed, t

-----------------------------------------------------------------------------
(* Verdicts, and lists of keys.                                            *)

LEMMA ModeCases ==
  ASSUME NEW s \in Structures
  PROVE  s.mode = "semi-strict" \/ s.mode = "un-strict"
  BY DEF Structures, Modes

LEMMA VerdictTypes ==
  ASSUME NEW s, NEW k, NEW p, NEW c, NEW ps, NEW cs
  PROVE  /\ AddNodeVerdict(s, k) \in Verdicts
         /\ AddNodeWithEdgesVerdict(s, k, ps, cs) \in Verdicts
         /\ AddEdgeVerdict(s, p, c) \in Verdicts
         /\ DeleteVerdict(s, k) \in Verdicts
         /\ EditVerdict(s, k) \in Verdicts
<1>1. AddNodeVerdict(s, k) \in Verdicts
  BY DEF AddNodeVerdict, Verdicts
<1>2. AddNodeWithEdgesVerdict(s, k, ps, cs) \in Verdicts
  BY <1>1 DEF AddNodeWithEdgesVerdict, Verdicts
<1> QED
  BY <1>1, <1>2 DEF AddEdgeVerdict, DeleteVerdict, EditVerdict, Verdicts

(* The range of a list of keys, and when it is empty.                      *)
LEMMA ListRange ==
  ASSUME NEW ks \in KeyLists
  PROVE  /\ Range(ks) \subseteq Keys
         /\ Range(ks) = {} <=> ks = <<>>
<1>1. ks \in Seq(Keys)
  BY KeyListsAssumption
<1>2. Range(ks) = {ks[i] : i \in 1..Len(ks)}
  BY <1>1 DEF Range
<1>3. Range(ks) \subseteq Keys
  BY <1>1, <1>2
<1>4. ks = <<>> => Range(ks) = {}
  BY <1>2
<1>5. ks # <<>> => ks[1] \in Range(ks)
  BY <1>1, <1>2
<1> QED
  BY <1>3, <1>4, <1>5

(* add_node makes the structure that add_node_with_edges makes of empty    *)
(* lists.                                                                  *)
LEMMA InsertIsUnlinked ==
  ASSUME NEW s \in Structures, NEW k \in Keys, NEW v \in Values
  PROVE  InsertLinked(s, k, v, {}, {}) = Insert(s, k, v)
<1> DEFINE i == Insert(s, k, v)
           ch == [x \in Keys |-> (i.children[x] \cup IF x \in {} \ {k} THEN {k} ELSE {})
                                                \cup IF x = k THEN {} \ {k} ELSE {}]
           pa == [x \in Keys |-> (i.parents[x] \cup IF x \in {} \ {k} THEN {k} ELSE {})
                                               \cup IF x = k THEN {} \ {k} ELSE {}]
<1>1. i \in Structures
  BY InsertFields
<1>2. InsertLinked(s, k, v, {}, {}) = [i EXCEPT !.children = ch, !.parents = pa]
  BY DEF InsertLinked, LinkNode
<1> HIDE DEF i
<1>3. i.children \in [Keys -> SUBSET Keys] /\ i.parents \in [Keys -> SUBSET Keys]
  BY <1>1 DEF Structures
<1>4. ch = i.children /\ pa = i.parents
  BY <1>3
<1> HIDE DEF ch, pa
<1> QED
  BY <1>1, <1>2, <1>4 DEF Structures, i

-----------------------------------------------------------------------------
(* What an accepted call has established.                                  *)

LEMMA AddNodeOk ==
  ASSUME NEW s, WellFormed(s), NEW k \in Keys \cup {EmptyKey}
  PROVE  AddNodeVerdict(s, k) = "Ok" <=>
           /\ k \in Keys
           /\ k \notin s.nodes
           /\ s.mode = "semi-strict" => s.nodes = {}
<1>1. s.hasFirst <=> s.nodes # {}
  BY DEF WellFormed, FlagExact
<1>2. s.nodes \subseteq Keys
  BY NodesAreKeys DEF WellFormed
<1>3. SemiStrictTest(s, {}, {}) <=> ~s.hasFirst
  BY DEF SemiStrictTest
<1> QED
  BY <1>1, <1>2, <1>3, SentinelsAssumption DEF AddNodeVerdict

LEMMA AddNodeWithEdgesOk ==
  ASSUME NEW s, WellFormed(s), NEW k \in Keys \cup {EmptyKey}, NEW ps \in KeyLists, NEW cs \in KeyLists
  PROVE  AddNodeWithEdgesVerdict(s, k, ps, cs) = "Ok" <=>
           /\ IsInjective(ps) /\ IsInjective(cs)
           /\ k \in Keys
           /\ k \notin s.nodes
           /\ Range(ps) \in NodeSets(s)
           /\ Range(cs) \in NodeSets(s)
           /\ Apart(s, Range(ps), Range(cs))
           /\ s.mode = "semi-strict" => s.nodes = {} \/ Range(ps) \cup Range(cs) # {}
<1>1. s.nodes \subseteq Keys
  BY NodesAreKeys DEF WellFormed
<1>2. CASE ps = <<>> /\ cs = <<>>
  <2>1. Range(ps) = {} /\ Range(cs) = {}
    BY <1>2, ListRange
  <2>2. IsInjective(ps) /\ IsInjective(cs)
    BY <1>2 DEF IsInjective
  <2>3. AddNodeWithEdgesVerdict(s, k, ps, cs) = "Ok" <=> AddNodeVerdict(s, k) = "Ok"
    BY <1>2 DEF AddNodeWithEdgesVerdict, AddNodeVerdict
  <2> QED
    BY <2>1, <2>2, <2>3, AddNodeOk DEF NodeSets, Apart
<1>3. CASE ~(ps = <<>> /\ cs = <<>>)
  <2>1. Range(ps) \cup Range(cs) # {}
    BY <1>3, ListRange
  <2> QED
    BY <1>1, <1>3, <2>1, SentinelsAssumption
       DEF AddNodeWithEdgesVerdict, NodeSets, Apart
<1> QED
  BY <1>2, <1>3

LEMMA AddEdgeOk ==
  ASSUME NEW s, NEW p \in Keys, NEW c \in Keys
  PROVE  AddEdgeVerdict(s, p, c) = "Ok" <=>
           /\ p # c
           /\ p \in s.nodes
           /\ c \in s.nodes
           /\ ~Child(s, p, c)
           /\ ~HasPath(s, c, p)
  BY DEF AddEdgeVerdict, Child

-----------------------------------------------------------------------------
(* The graph a structure stands for, and when adding to it stays acyclic.  *)

OfGraph(s) == INSTANCE DagStore WITH vertices <- s.nodes,
                                     edges    <- EdgesOf(s),
                                     stored   <- s.value,
                                     root     <- s.root,
                                     mode     <- s.mode

LEMMA EdgesMean ==
  ASSUME NEW s, NEW x \in Keys, NEW y \in Keys
  PROVE  <<x, y>> \in EdgesOf(s) <=> Child(s, x, y)
  BY DEF EdgesOf, Child

LEMMA EdgeAcyclic ==
  ASSUME NEW s, WellFormed(s), NEW p \in s.nodes, NEW c \in s.nodes, p # c
  PROVE  OfGraph(s)!Acyclic(EdgesOf(s) \cup {<<p, c>>}) <=> ~HasPath(s, c, p)
<1> DEFINE E == EdgesOf(s) \cup {<<p, c>>}
<1>1. s \in Structures /\ p \in Keys /\ c \in Keys /\ Inside(s) /\ NoCycle(s)
  BY NodesAreKeys DEF WellFormed
<1>2. \A x, y \in Keys : <<x, y>> \in E <=> Child(s, x, y) \/ (x = p /\ y = c)
  BY EdgesMean
<1> HIDE DEF E
<1>3. ASSUME ~HasPath(s, c, p)
      PROVE  OfGraph(s)!Acyclic(E)
  <2>1. \A S \in SUBSET Keys : S # {} =>
          \E x \in S : \A y \in S : ~(Child(s, x, y) \/ (x = p /\ y = c))
    BY <1>1, <1>3, EdgeBetween
  <2> QED
    BY <1>2, <2>1 DEF OfGraph!Acyclic
<1>4. ASSUME HasPath(s, c, p)
      PROVE  ~OfGraph(s)!Acyclic(E)
  <2>1. PICK S \in SUBSET Keys : /\ c \in S
                                 /\ p \in S
                                 /\ \A x \in S : x # p => \E y \in S : Child(s, x, y)
    BY <1>1, <1>4, PathKeys
  <2>2. \A x \in S : \E y \in S : <<x, y>> \in E
    BY <1>2, <2>1
  <2> QED
    BY <2>1, <2>2 DEF OfGraph!Acyclic
<1> QED
  BY <1>3, <1>4 DEF E

LEMMA NodeAcyclic ==
  ASSUME NEW s, WellFormed(s), NEW k \in Keys, k \notin s.nodes,
         NEW P \in NodeSets(s), NEW Q \in NodeSets(s)
  PROVE  OfGraph(s)!Acyclic(EdgesOf(s) \cup OfGraph(s)!Around(k, P, Q)) <=> Apart(s, P, Q)
<1> DEFINE E == EdgesOf(s) \cup OfGraph(s)!Around(k, P, Q)
<1>1. /\ s \in Structures
      /\ s.nodes \subseteq Keys
      /\ Inside(s)
      /\ NoCycle(s)
      /\ P \subseteq s.nodes
      /\ Q \subseteq s.nodes
  BY NodesAreKeys DEF WellFormed, NodeSets
<1>2. \A x, y \in Keys : <<x, y>> \in E <=> \/ Child(s, x, y)
                                            \/ x \in P /\ y = k
                                            \/ x = k /\ y \in Q
  BY EdgesMean DEF OfGraph!Around
<1> HIDE DEF E
<1>3. ASSUME Apart(s, P, Q)
      PROVE  OfGraph(s)!Acyclic(E)
  <2>1. \A S \in SUBSET Keys : S # {} =>
          \E x \in S : \A y \in S : ~(\/ Child(s, x, y)
                                      \/ x \in P /\ y = k
                                      \/ x = k /\ y \in Q)
    BY <1>1, <1>3, NodeBetween
  <2> QED
    BY <1>2, <2>1 DEF OfGraph!Acyclic
<1>4. ASSUME NEW q \in Q, NEW p \in P, HasPath(s, q, p)
      PROVE  ~OfGraph(s)!Acyclic(E)
  <2>1. p \in Keys /\ q \in Keys
    BY <1>1
  <2>2. PICK S \in SUBSET Keys : /\ q \in S
                                 /\ p \in S
                                 /\ \A x \in S : x # p => \E y \in S : Child(s, x, y)
    BY <1>1, <1>4, <2>1, PathKeys
  <2> DEFINE T == S \cup {k}
  <2>3. T \in SUBSET Keys /\ T # {}
    OBVIOUS
  <2>4. \A x \in T : \E y \in T : <<x, y>> \in E
    BY <1>2, <2>2
  <2> QED
    BY <2>3, <2>4 DEF OfGraph!Acyclic
<1> QED
  BY <1>3, <1>4 DEF E, Apart

-----------------------------------------------------------------------------
(* Verdicts.                                                               *)

LEMMA InsertableMeans ==
  ASSUME NEW s, WellFormed(s), NEW k, NEW P, NEW Q
  PROVE  OfGraph(s)!Insertable(k, P, Q) <=>
           /\ k \in Keys
           /\ k \notin s.nodes
           /\ P \in NodeSets(s)
           /\ Q \in NodeSets(s)
           /\ Apart(s, P, Q)
           /\ s.mode = "semi-strict" => s.nodes = {} \/ P \cup Q # {}
<1>1. s.mode = "semi-strict" \/ s.mode = "un-strict"
  BY ModeCases DEF WellFormed
<1>2. CASE ~(k \in Keys /\ k \notin s.nodes /\ P \in NodeSets(s) /\ Q \in NodeSets(s))
  BY <1>2 DEF OfGraph!Insertable, NodeSets
<1>3. CASE k \in Keys /\ k \notin s.nodes /\ P \in NodeSets(s) /\ Q \in NodeSets(s)
  <2>1. OfGraph(s)!Acyclic(EdgesOf(s) \cup OfGraph(s)!Around(k, P, Q)) <=> Apart(s, P, Q)
    BY <1>3, NodeAcyclic
  <2>2. P \subseteq s.nodes /\ Q \subseteq s.nodes
    BY <1>3 DEF NodeSets
  <2> QED
    BY <1>1, <1>3, <2>1, <2>2 DEF OfGraph!Insertable
<1> QED
  BY <1>2, <1>3

LEMMA ConnectableMeans ==
  ASSUME NEW s, WellFormed(s), NEW p \in Keys, NEW c \in Keys
  PROVE  OfGraph(s)!Connectable(p, c) <=> AddEdgeVerdict(s, p, c) = "Ok"
<1>1. CASE p = c
  <2> DEFINE E == EdgesOf(s) \cup {<<p, c>>}
             S == {p}
  <2>1. ~OfGraph(s)!Acyclic(E)
    <3>1. S \in SUBSET Keys /\ S # {} /\ \A x \in S : <<x, x>> \in E
      BY <1>1
    <3> HIDE DEF S, E
    <3> QED
      BY <3>1 DEF OfGraph!Acyclic
  <2> QED
    BY <1>1, <2>1, AddEdgeOk DEF OfGraph!Connectable
<1>2. CASE p # c /\ p \in s.nodes /\ c \in s.nodes
  <2>1. OfGraph(s)!Acyclic(EdgesOf(s) \cup {<<p, c>>}) <=> ~HasPath(s, c, p)
    BY <1>2, EdgeAcyclic
  <2> QED
    BY <1>2, <2>1, AddEdgeOk, EdgesMean DEF OfGraph!Connectable
<1>3. CASE p # c /\ ~(p \in s.nodes /\ c \in s.nodes)
  BY <1>3, AddEdgeOk DEF OfGraph!Connectable
<1> QED
  BY <1>1, <1>2, <1>3

(* An edge that touches a key, seen from that key's links.                 *)
LEMMA TouchingMeans ==
  ASSUME NEW s, WellFormed(s), NEW k \in Keys, NEW x \in Keys, x # k
  PROVE  OfGraph(s)!Touching(x, OfGraph(s)!Without(k)) # {} <=>
           \E y \in Keys : y # k /\ (Child(s, x, y) \/ Parent(s, x, y))
<1>1. \A a, b \in Keys : Child(s, a, b) <=> Parent(s, b, a)
  BY MirroredMeans DEF WellFormed
<1>2. ASSUME NEW y \in Keys, y # k, Child(s, x, y) \/ Parent(s, x, y)
      PROVE  OfGraph(s)!Touching(x, OfGraph(s)!Without(k)) # {}
  <2>1. <<x, y>> \in EdgesOf(s) \/ <<y, x>> \in EdgesOf(s)
    BY <1>1, <1>2, EdgesMean
  <2>2. <<x, y>> \in OfGraph(s)!Touching(x, OfGraph(s)!Without(k)) \/ <<y, x>> \in OfGraph(s)!Touching(x, OfGraph(s)!Without(k))
    BY <1>2, <2>1 DEF OfGraph!Touching, OfGraph!Without
  <2> QED
    BY <2>2
<1>3. ASSUME NEW e \in OfGraph(s)!Touching(x, OfGraph(s)!Without(k))
      PROVE  \E y \in Keys : y # k /\ (Child(s, x, y) \/ Parent(s, x, y))
  <2>1. /\ e \in EdgesOf(s)
        /\ e[1] # k
        /\ e[2] # k
        /\ e[1] = x \/ e[2] = x
    BY DEF OfGraph!Touching, OfGraph!Without
  <2>2. e[1] \in Keys /\ e[2] \in Keys /\ Child(s, e[1], e[2])
    BY <2>1 DEF EdgesOf, Child
  <2> QED
    BY <1>1, <2>1, <2>2
<1> QED
  BY <1>2, <1>3

LEMMA RemovableMeans ==
  ASSUME NEW s, WellFormed(s), NEW k \in Keys
  PROVE  OfGraph(s)!Removable(k) <=> DeleteVerdict(s, k) = "Ok"
<1> DEFINE Kept(x) == \E y \in Keys : y # k /\ (Child(s, x, y) \/ Parent(s, x, y))
<1>1. /\ s \in Structures
      /\ s.nodes \subseteq Keys
      /\ s.mode = "semi-strict" \/ s.mode = "un-strict"
      /\ s.hasFirst <=> s.nodes # {}
  BY NodesAreKeys, ModeCases DEF WellFormed, FlagExact
<1>2. \A x, y \in Keys : /\ Child(s, x, y) <=> Parent(s, y, x)
                         /\ Child(s, x, y) => x \in s.nodes /\ y \in s.nodes
  BY <1>1, MirroredMeans, InsideMeans DEF WellFormed
<1>3. \A x \in Keys : Kept(x) <=> SemiStrictCheckForOne(s, x, k)
  BY <1>1, <1>2, NodesAreKeys DEF SemiStrictCheckForOne, Child, Parent
<1>4. OfGraph(s)!Removable(k) <=> /\ k \in s.nodes
                           /\ \/ s.mode = "un-strict"
                              \/ \A x \in s.nodes \ {k} : Kept(x)
  BY <1>1, TouchingMeans DEF OfGraph!Removable, OfGraph!NoLoner
<1>5. CASE k \notin s.nodes \/ s.mode = "un-strict"
  BY <1>1, <1>4, <1>5 DEF DeleteVerdict
<1>6. CASE k \in s.nodes /\ s.mode = "semi-strict" /\ Isolated(s, k)
  <2>1. s.nodes = {k}
    BY <1>6 DEF WellFormed, NoneAlone
  <2>2. DeleteVerdict(s, k) = "Ok"
    BY <1>1, <1>6 DEF DeleteVerdict
  <2> QED
    BY <1>4, <1>6, <2>1, <2>2
<1>7. CASE k \in s.nodes /\ s.mode = "semi-strict" /\ ~Isolated(s, k)
  <2>1. DeleteVerdict(s, k) = "Ok" <=>
          \A n \in Keys : Child(s, k, n) \/ Parent(s, k, n) => Kept(n)
    <3>1. s.parents[k] \cup s.children[k] \subseteq Keys
      BY <1>1 DEF Structures
    <3>2. DeleteVerdict(s, k) = "Ok" <=>
            \A n \in s.parents[k] \cup s.children[k] : SemiStrictCheckForOne(s, n, k)
      BY <1>7 DEF DeleteVerdict
    <3> QED
      BY <1>3, <3>1, <3>2 DEF Child, Parent
  <2>2. ASSUME NEW x \in s.nodes \ {k}, ~Child(s, k, x), ~Parent(s, k, x)
        PROVE  Kept(x)
    <3>1. x \in Keys /\ ~Isolated(s, x)
      BY <1>1, <1>7, <2>2 DEF WellFormed, NoneAlone
    <3>2. PICK y \in Keys : Child(s, x, y) \/ Parent(s, x, y)
      BY <1>1, <3>1, IsolatedMeans
    <3>3. y # k
      BY <1>1, <1>2, <2>2, <3>1, <3>2
    <3> QED
      BY <3>2, <3>3
  <2>3. \A n \in Keys : Child(s, k, n) \/ Parent(s, k, n) => n \in s.nodes
    BY <1>1, <1>2
  <2>4. ~Child(s, k, k) /\ ~Parent(s, k, k)
    <3>1. {k} \in SUBSET Keys /\ {k} # {}
      OBVIOUS
    <3>2. ~Child(s, k, k)
      BY <3>1, NoCycleMeans DEF WellFormed
    <3> QED
      BY <1>2, <3>2
  <2>5. (\A n \in Keys : Child(s, k, n) \/ Parent(s, k, n) => Kept(n))
          <=> \A x \in s.nodes \ {k} : Kept(x)
    BY <1>1, <2>2, <2>3, <2>4
  <2> HIDE DEF Kept
  <2> QED
    BY <1>4, <1>7, <2>1, <2>5
<1> QED
  BY <1>1, <1>5, <1>6, <1>7

-----------------------------------------------------------------------------
(* The effect of each operation on the graph.                              *)

LEMMA InsertLinkedEdges ==
  ASSUME NEW s, WellFormed(s), NEW k \in Keys, k \notin s.nodes, NEW v \in Values,
         NEW P \in NodeSets(s), NEW Q \in NodeSets(s)
  PROVE  EdgesOf(InsertLinked(s, k, v, P, Q)) = EdgesOf(s) \cup OfGraph(s)!Around(k, P, Q)
<1> DEFINE t == InsertLinked(s, k, v, P, Q)
<1>1. /\ s \in Structures
      /\ P \in KeySets
      /\ Q \in KeySets
      /\ k \notin P
      /\ k \notin Q
      /\ P \subseteq Keys
      /\ Q \subseteq Keys
  BY NodesAreKeys DEF WellFormed, NodeSets, KeySets
<1>2. \A x, y \in Keys : Child(t, x, y) <=> \/ Child(s, x, y)
                                            \/ x \in P /\ y = k
                                            \/ x = k /\ y \in Q
  BY <1>1, InsertLinkedLinks
<1> HIDE DEF t
<1>3. \A x, y \in Keys : <<x, y>> \in EdgesOf(t)
                           <=> <<x, y>> \in EdgesOf(s) \cup OfGraph(s)!Around(k, P, Q)
  BY <1>2, EdgesMean DEF OfGraph!Around
<1>4. /\ EdgesOf(t) \subseteq Keys \X Keys
      /\ EdgesOf(s) \cup OfGraph(s)!Around(k, P, Q) \subseteq Keys \X Keys
  BY <1>1 DEF EdgesOf, OfGraph!Around
<1> QED
  BY <1>3, <1>4 DEF t

LEMMA AddChildEdges ==
  ASSUME NEW s, WellFormed(s), NEW p \in Keys, NEW c \in Keys, p # c
  PROVE  EdgesOf(AddChild(s, p, c)) = EdgesOf(s) \cup {<<p, c>>}
<1> DEFINE t == AddChild(s, p, c)
<1>1. \A x, y \in Keys : Child(t, x, y) <=> Child(s, x, y) \/ (x = p /\ y = c)
  BY AddChildLinks DEF WellFormed
<1> HIDE DEF t
<1>2. \A x, y \in Keys : <<x, y>> \in EdgesOf(t) <=> <<x, y>> \in EdgesOf(s) \cup {<<p, c>>}
  BY <1>1, EdgesMean
<1>3. /\ EdgesOf(t) \subseteq Keys \X Keys
      /\ EdgesOf(s) \cup {<<p, c>>} \subseteq Keys \X Keys
  BY DEF EdgesOf
<1> QED
  BY <1>2, <1>3 DEF t

LEMMA DeleteEdges ==
  ASSUME NEW s, WellFormed(s), NEW k \in Keys
  PROVE  EdgesOf(DeleteNode(s, k)) = OfGraph(s)!Without(k)
<1> DEFINE t == DeleteNode(s, k)
<1>1. \A x, y \in Keys :
        Child(t, x, y) <=> Child(s, x, y) /\ x # k /\ ~(Parent(s, k, x) /\ y = k)
  BY DeleteLinks DEF WellFormed
<1>2. \A x, y \in Keys : Child(s, x, y) <=> Parent(s, y, x)
  BY MirroredMeans DEF WellFormed
<1> HIDE DEF t
<1>3. \A x, y \in Keys : <<x, y>> \in EdgesOf(t) <=> <<x, y>> \in EdgesOf(s) /\ x # k /\ y # k
  BY <1>1, <1>2, EdgesMean
<1>4. \A x, y \in Keys : <<x, y>> \in OfGraph(s)!Without(k)
                           <=> <<x, y>> \in EdgesOf(s) /\ x # k /\ y # k
  BY DEF OfGraph!Without, OfGraph!Touching
<1>5. EdgesOf(t) \subseteq Keys \X Keys /\ OfGraph(s)!Without(k) \subseteq Keys \X Keys
  BY DEF EdgesOf, OfGraph!Without
<1> QED
  BY <1>3, <1>4, <1>5 DEF t

=============================================================================
