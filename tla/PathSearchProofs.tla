-------------------------- MODULE PathSearchProofs --------------------------
(***************************************************************************)
(* What the depth-first search computes, for every set of keys, every      *)
(* graph on it and every order of pushing.                                 *)
(***************************************************************************)
EXTENDS PathSearch, FiniteSetTheorems, SequenceTheorems, TLAPS

-----------------------------------------------------------------------------
LEMMA SuccessorsAreKeys ==
  ASSUME NEW g \in Linkings, NEW x \in Keys
  PROVE  Successors(g, x) \subseteq Keys
  BY DEF Successors, Linkings

(* A path stays a path when one more step is taken.                        *)
LEMMA PathStep ==
  ASSUME NEW g \in Linkings, NEW a \in Keys, NEW b \in Keys, HasPath(g, a, b),
         NEW c \in Successors(g, b)
  PROVE  HasPath(g, a, c)
  BY DEF HasPath, Closed

LEMMA PathToSelf ==
  ASSUME NEW g, NEW a \in Keys
  PROVE  HasPath(g, a, a)
  BY DEF HasPath

LEMMA OrderLength ==
  ASSUME NEW S \in SUBSET Keys
  PROVE  Cardinality(S) \in Nat
  BY FiniteKeys, FS_Subset, FS_CardinalityType

LEMMA OrderIsSeq ==
  ASSUME NEW S \in SUBSET Keys, NEW o \in Orders(S)
  PROVE  o \in Seq(Keys) /\ Range(o) = S
<1>1. Cardinality(S) \in Nat
  BY OrderLength
<1>2. o \in [1..Cardinality(S) -> S] /\ Range(o) = S
  BY DEF Orders
<1>3. o \in [1..Cardinality(S) -> Keys]
  BY <1>2
<1> QED
  BY <1>1, <1>2, <1>3, SeqDef

LEMMA Concatenated ==
  ASSUME NEW p \in Seq(Keys), NEW q \in Seq(Keys)
  PROVE  p \o q \in Seq(Keys) /\ Range(p \o q) = Range(p) \cup Range(q)
  BY ConcatProperties, RangeConcatenation

LEMMA PoppedAndRest ==
  ASSUME pending \in Seq(Keys), pending # <<>>
  PROVE  /\ Popped \in Keys
         /\ Rest \in Seq(Keys)
         /\ Len(Rest) = Len(pending) - 1
         /\ Range(pending) = Range(Rest) \cup {Popped}
<1>1. PICK n \in Nat \ {0} : n = Len(pending)
  OBVIOUS
<1>2. DOMAIN pending = 1..n
  BY <1>1
<1>3. /\ Rest \in Seq(Keys)
      /\ DOMAIN Rest = 1..n - 1
      /\ Len(Rest) = n - 1
      /\ \A i \in 1..n - 1 : Rest[i] = pending[i]
  BY <1>1 DEF Rest
<1>4. 1..n = (1..n - 1) \cup {n}
  BY <1>1
<1>5. Popped \in Keys /\ Popped = pending[n]
  BY <1>1 DEF Popped
<1> QED
  BY <1>1, <1>2, <1>3, <1>4, <1>5 DEF Range

-----------------------------------------------------------------------------
Seen == visited \cup Range(pending)

(* The inductive invariant: what has been seen is reachable, what has been *)
(* expanded is closed but for the worklist, and the target is not in it.   *)
Inv == /\ TypeOK
       /\ \A k \in Seen : HasPath(graph, start, k)
       /\ FrontierKept
       /\ target \notin visited
       /\ answer = "found" => HasPath(graph, start, target)
       /\ answer = "absent" => pending = <<>>

LEMMA InvInit == Init => Inv
<1>1. ASSUME Init PROVE Inv
  <2>1. Range(pending) = {start} /\ pending \in Seq(Keys)
    BY <1>1 DEF Init, Range
  <2>2. TypeOK
    BY <1>1, <2>1 DEF Init, TypeOK
  <2>3. HasPath(graph, start, start)
    BY <2>2, PathToSelf DEF TypeOK
  <2> QED
    BY <1>1, <2>1, <2>2, <2>3 DEF Init, Inv, Seen, FrontierKept
<1> QED
  BY <1>1

LEMMA FindKeeps == ASSUME Inv, Find PROVE Inv'
<1>1. TypeOK /\ pending \in Seq(Keys) /\ pending # <<>>
  BY DEF Inv, TypeOK, Find, Popping
<1>2. Rest \in Seq(Keys) /\ Range(pending) = Range(Rest) \cup {Popped}
  BY <1>1, PoppedAndRest
<1>3. TypeOK'
  BY <1>1, <1>2 DEF TypeOK, Find
<1>4. HasPath(graph, start, target) /\ Seen' \subseteq Seen
  BY <1>2 DEF Inv, Find, Seen
<1> QED
  BY <1>3, <1>4 DEF Inv, Find, FrontierKept

LEMMA SkipKeeps == ASSUME Inv, Skip PROVE Inv'
<1>1. TypeOK /\ pending \in Seq(Keys) /\ pending # <<>>
  BY DEF Inv, TypeOK, Skip, Popping
<1>2. Rest \in Seq(Keys) /\ Range(pending) = Range(Rest) \cup {Popped}
  BY <1>1, PoppedAndRest
<1>3. TypeOK'
  BY <1>1, <1>2 DEF TypeOK, Skip
<1>4. Seen' = Seen
  BY <1>2 DEF Skip, Seen
<1>5. FrontierKept'
  BY <1>4 DEF Inv, FrontierKept, Skip, Seen
<1> QED
  BY <1>3, <1>4, <1>5 DEF Inv, Skip, Popping

LEMMA ExpandKeeps == ASSUME Inv, Expand PROVE Inv'
<1> DEFINE S == Successors(graph, Popped)
<1>1. TypeOK /\ pending \in Seq(Keys) /\ pending # <<>>
  BY DEF Inv, TypeOK, Expand, Popping
<1>2. /\ Popped \in Keys
      /\ Rest \in Seq(Keys)
      /\ Range(pending) = Range(Rest) \cup {Popped}
  BY <1>1, PoppedAndRest
<1>3. S \in SUBSET Keys
  BY <1>1, <1>2, SuccessorsAreKeys DEF TypeOK
<1>4. PICK order \in Orders(S) : pending' = Rest \o order
  BY DEF Expand
<1>5. pending' \in Seq(Keys) /\ Range(pending') = Range(Rest) \cup S
  BY <1>2, <1>3, <1>4, OrderIsSeq, Concatenated
<1>6. TypeOK'
  BY <1>1, <1>2, <1>5 DEF TypeOK, Expand
<1>7. Seen' = Seen \cup S
  BY <1>2, <1>5 DEF Expand, Seen
<1>8. \A k \in S : HasPath(graph, start, k)
  <2>1. HasPath(graph, start, Popped)
    BY <1>2 DEF Inv, Seen
  <2> QED
    BY <1>1, <1>2, <2>1, PathStep DEF TypeOK
<1>9. FrontierKept'
  <2>1. answer = "searching" /\ answer' = answer
    BY DEF Expand, Popping
  <2>2. start \in Seen /\ \A k \in visited : Successors(graph, k) \subseteq Seen
    BY <2>1 DEF Inv, FrontierKept, Seen
  <2>3. visited' = visited \cup {Popped} /\ graph' = graph /\ start' = start
    BY DEF Expand
  <2>4. \A k \in visited' : Successors(graph, k) \subseteq Seen'
    BY <1>7, <2>2, <2>3
  <2> QED
    BY <1>7, <2>2, <2>3, <2>4 DEF FrontierKept, Seen
<1>10. target \notin visited'
  BY DEF Inv, Expand
<1>11. \A k \in Seen' : HasPath(graph, start, k)
  BY <1>7, <1>8 DEF Inv
<1> QED
  BY <1>6, <1>9, <1>10, <1>11 DEF Inv, Expand, Popping

LEMMA ExhaustKeeps == ASSUME Inv, Exhaust PROVE Inv'
<1>1. TypeOK'
  BY DEF Inv, TypeOK, Exhaust
<1>2. Seen' = Seen /\ FrontierKept'
  BY DEF Inv, FrontierKept, Exhaust, Seen
<1> QED
  BY <1>1, <1>2 DEF Inv, Exhaust

THEOREM Invariance == Spec => []Inv
<1>1. Inv /\ [Next]_vars => Inv'
  <2>1. ASSUME Inv, UNCHANGED vars PROVE Inv'
    BY <2>1 DEF Inv, vars, TypeOK, Seen, FrontierKept
  <2> QED
    BY <2>1, FindKeeps, SkipKeeps, ExpandKeeps, ExhaustKeeps DEF Next
<1> QED
  BY <1>1, InvInit, PTL DEF Spec

-----------------------------------------------------------------------------
(* No order of pushing loses a key that can be reached.                    *)
THEOREM Frontier == Spec => []FrontierKept
<1>1. Inv => FrontierKept
  BY DEF Inv
<1> QED
  BY <1>1, Invariance, PTL

(* When has_path returns, its answer is the one the cycle checks ask for:  *)
(* the visited keys are then a closed set without the target.              *)
THEOREM Exact == Spec => []SearchExact
<1>1. ASSUME Inv PROVE SearchExact
  <2>1. ASSUME answer = "absent" PROVE ~HasPath(graph, start, target)
    <3>1. Range(pending) = {}
      BY <1>1, <2>1 DEF Inv, Range
    <3>2. start \in visited /\ Closed(graph, visited)
      BY <1>1, <2>1, <3>1 DEF Inv, FrontierKept, Closed
    <3>3. visited \in SUBSET Keys /\ target \notin visited
      BY <1>1 DEF Inv, TypeOK
    <3> QED
      BY <3>2, <3>3 DEF HasPath
  <2> QED
    BY <1>1, <2>1 DEF Inv, SearchExact
<1> QED
  BY <1>1, Invariance, PTL

-----------------------------------------------------------------------------
LEMMA LinksFinite ==
  ASSUME NEW V \in SUBSET Keys
  PROVE  IsFiniteSet(LinksFrom(V)) /\ Cardinality(LinksFrom(V)) \in Nat
<1>1. IsFiniteSet(V) /\ IsFiniteSet(V \X Keys)
  BY FiniteKeys, FS_Subset, FS_Product
<1>2. LinksFrom(V) \in SUBSET (V \X Keys)
  BY DEF LinksFrom
<1> QED
  BY <1>1, <1>2, FS_Subset, FS_CardinalityType

(* Expanding a key for the first time adds one link per child.             *)
LEMMA LinksGrow ==
  ASSUME TypeOK, NEW V \in SUBSET Keys, NEW x \in Keys \ V
  PROVE  Cardinality(LinksFrom(V \cup {x}))
           = Cardinality(LinksFrom(V)) + Cardinality(Successors(graph, x))
<1> DEFINE S == Successors(graph, x)
           N == {x} \X S
<1>1. S \in SUBSET Keys
  BY SuccessorsAreKeys DEF TypeOK
<1>2. LinksFrom(V \cup {x}) = LinksFrom(V) \cup N /\ LinksFrom(V) \cap N = {}
  BY <1>1 DEF LinksFrom
<1>3. IsFiniteSet(S) /\ Cardinality(S) \in Nat
  BY <1>1, FiniteKeys, FS_Subset, FS_CardinalityType
<1>4. IsFiniteSet({x}) /\ Cardinality({x}) = 1
  BY FS_Singleton
<1> HIDE DEF S
<1>5. IsFiniteSet(N) /\ Cardinality(N) = 1 * Cardinality(S)
  BY <1>3, <1>4, FS_Product
<1> HIDE DEF N
<1>6. IsFiniteSet(LinksFrom(V)) /\ Cardinality(LinksFrom(V)) \in Nat
  BY LinksFinite
<1>7. Cardinality(LinksFrom(V) \cup N)
        = Cardinality(LinksFrom(V)) + Cardinality(N) - Cardinality({})
  BY <1>2, <1>5, <1>6, FS_Union
<1> QED
  <2>1. Cardinality(LinksFrom(V \cup {x})) = Cardinality(LinksFrom(V) \cup N)
    BY <1>2
  <2>2. Cardinality({}) = 0
    BY FS_EmptySet
  <2>3. Cardinality(LinksFrom(V \cup {x}))
          = Cardinality(LinksFrom(V)) + Cardinality(S)
    BY <1>3, <1>5, <1>6, <1>7, <2>1, <2>2
  <2> QED
    BY <2>3 DEF S

(* However often a key is pushed, the worklist stays within the links.     *)
THEOREM Bounded == Spec => []WorklistBounded
<1>1. Init => WorklistBounded
  <2>1. ASSUME Init PROVE WorklistBounded
    <3>1. Len(pending) = 1 /\ visited = {}
      BY <2>1 DEF Init
    <3>2. Cardinality(LinksFrom(visited)) \in Nat
      BY <3>1, LinksFinite
    <3> QED
      BY <3>1, <3>2 DEF WorklistBounded
  <2> QED
    BY <2>1
<1>2. ASSUME Inv, WorklistBounded, Next PROVE WorklistBounded'
  <2>0. /\ TypeOK
        /\ Cardinality(LinksFrom(visited)) \in Nat
        /\ Len(pending) \in Nat
    BY <1>2, LinksFinite DEF Inv, TypeOK
  <2>1. ASSUME Popping PROVE Rest \in Seq(Keys) /\ Len(Rest) = Len(pending) - 1
    BY <2>0, <2>1, PoppedAndRest DEF Popping, TypeOK
  <2>2. ASSUME visited' = visited, graph' = graph
        PROVE  LinksFrom(visited)' = LinksFrom(visited)
    BY <2>2 DEF LinksFrom
  <2>3. CASE Find
    BY <1>2, <2>0, <2>1, <2>2, <2>3 DEF Find, WorklistBounded
  <2>4. CASE Skip
    BY <1>2, <2>0, <2>1, <2>2, <2>4 DEF Skip, WorklistBounded
  <2>5. CASE Expand
    <3> DEFINE S == Successors(graph, Popped)
    <3>1. Popped \in Keys \ visited
      BY <2>0, <2>5, PoppedAndRest DEF Expand, Popping, TypeOK
    <3>2. S \in SUBSET Keys
      BY <2>0, <3>1, SuccessorsAreKeys DEF TypeOK
    <3>3. PICK order \in Orders(S) : pending' = Rest \o order
      BY <2>5 DEF Expand
    <3>4. Len(order) = Cardinality(S) /\ Cardinality(S) \in Nat
      BY <3>2, <3>3, OrderLength DEF Orders
    <3>5. Len(pending') = Len(pending) - 1 + Cardinality(S)
      BY <2>1, <2>5, <3>2, <3>3, <3>4, OrderIsSeq, ConcatProperties DEF Expand
    <3>6. LinksFrom(visited)' = LinksFrom(visited \cup {Popped})
      BY <2>5 DEF Expand, LinksFrom
    <3>7. Cardinality(LinksFrom(visited \cup {Popped}))
            = Cardinality(LinksFrom(visited)) + Cardinality(S)
      BY <2>0, <3>1, LinksGrow DEF TypeOK
    <3> QED
      BY <1>2, <2>0, <3>4, <3>5, <3>6, <3>7 DEF WorklistBounded
  <2>6. CASE Exhaust
    BY <1>2, <2>2, <2>6 DEF Exhaust, WorklistBounded
  <2> QED
    BY <1>2, <2>3, <2>4, <2>5, <2>6 DEF Next
<1>3. WorklistBounded /\ UNCHANGED vars => WorklistBounded'
  BY DEF vars, WorklistBounded, LinksFrom
<1> QED
  BY <1>1, <1>2, <1>3, Invariance, PTL DEF Spec

=============================================================================
