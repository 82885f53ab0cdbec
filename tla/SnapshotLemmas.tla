--------------------------- MODULE SnapshotLemmas ---------------------------
(***************************************************************************)
(* What writing a structure and reading a file do, for every structure and *)
(* every file: an accepted file gives a sound structure and loses nothing, *)
(* and what is written of a sound structure is accepted and gives the same *)
(* structure again.                                                        *)
(***************************************************************************)
EXTENDS SnapshotOps, StructureLemmas, FiniteSetTheorems, WellFoundedInduction

(* Exactly the nodes have values.                                          *)
Valued(s) == \A k \in Keys : s.value[k] \in Values <=> k \in s.nodes

(* What the graph of a structure is, whatever its mode and its flag: all   *)
(* that is left of WellFormed to a file that breaks the semi-strict rule.  *)
Coherent(s) == /\ s \in Structures
               /\ Mirrored(s)
               /\ Inside(s)
               /\ NoCycle(s)
               /\ RootIsNode(s)

Relaxed(s) == [s EXCEPT !.mode = "un-strict", !.hasFirst = s.nodes # {}]

-----------------------------------------------------------------------------
(* Sets, sequences and numbers.                                            *)

LEMMA NatMin ==
  ASSUME NEW T, T \subseteq Nat, T # {}
  PROVE  \E x \in T : \A y \in T : x <= y
<1>1. PICK x \in T : \A y \in T : ~(<<y, x>> \in OpToRel(<, Nat))
  BY NatLessThanWellFounded, WFMin
<1>2. \A y \in T : ~(y < x)
  BY <1>1 DEF OpToRel
<1> QED
  BY <1>2

LEMMA SortedSeq ==
  ASSUME NEW S, IsFiniteSet(S)
  PROVE  /\ Cardinality(S) \in Nat
         /\ Sorted(S) \in [1..Cardinality(S) -> S]
         /\ Sorted(S) \in Seq(S)
         /\ Len(Sorted(S)) = Cardinality(S)
         /\ DOMAIN Sorted(S) = 1..Cardinality(S)
         /\ Range(Sorted(S)) = S
         /\ IsInjective(Sorted(S))
<1> DEFINE n == Cardinality(S)
           o == Sorted(S)
<1>1. n \in Nat /\ Bijection(1..n, S) # {}
  BY FS_CardinalityType DEF ExistsBijection
<1>2. PICK b \in Bijection(1..n, S) : TRUE
  BY <1>1
<1>3. b \in [1..n -> S] /\ Range(b) = S
  BY <1>2 DEF Bijection, Injection, Surjection, Range
<1>4. b \in Listings(S)
  BY <1>3 DEF Listings
<1>5. o \in Listings(S)
  BY <1>4 DEF Sorted
<1>6. o \in [1..n -> S] /\ Range(o) = S
  BY <1>5 DEF Listings
<1> HIDE DEF o
<1>7. o \in Surjection(1..n, S)
  BY <1>6 DEF Surjection, Range
<1>8. IsFiniteSet(1..n) /\ Cardinality(1..n) = n
  BY <1>1, FS_Interval
<1>9. o \in Injection(1..n, S)
  BY <1>7, <1>8, FS_SurjSameCardinalityImpliesInj
<1>10. IsInjective(o)
  BY <1>9 DEF Injection, IsInjective
<1>11. o \in Seq(S) /\ Len(o) = n
  BY <1>1, <1>6
<1> QED
  BY <1>1, <1>6, <1>10, <1>11 DEF o

LEMMA FiniteKeySets ==
  ASSUME NEW S, S \subseteq Keys
  PROVE  IsFiniteSet(S)
  BY FiniteKeys, FS_Subset

-----------------------------------------------------------------------------
(* A load searches a path back from every child; a structure has no cycle  *)
(* exactly when none is found.  Among the nodes of a cycle one from which  *)
(* fewest keys can be reached would have a child from which fewer can.     *)

LEMMA CycleFound ==
  ASSUME NEW s \in Structures, Inside(s), ~ContainsCycle(s)
  PROVE  NoCycle(s)
<1> DEFINE Below(x) == {z \in Keys : HasPath(s, x, z)}
<1>1. SUFFICES ASSUME NEW S \in SUBSET Keys, S # {},
                      \A x \in S : S \cap s.children[x] # {}
               PROVE  FALSE
  BY DEF NoCycle
<1>2. \A x \in S : IsFiniteSet(Below(x)) /\ Cardinality(Below(x)) \in Nat
  <2>1. SUFFICES ASSUME NEW x \in S
                 PROVE  IsFiniteSet(Below(x)) /\ Cardinality(Below(x)) \in Nat
    OBVIOUS
  <2>2. Below(x) \subseteq Keys
    OBVIOUS
  <2> HIDE DEF Below
  <2> QED
    BY <2>2, FiniteKeySets, FS_CardinalityType
<1> DEFINE T == {Cardinality(Below(x)) : x \in S}
<1>3. PICK m \in T : \A n \in T : m <= n
  <2>1. T \subseteq Nat /\ T # {}
    BY <1>1, <1>2
  <2> HIDE DEF T
  <2> QED
    BY <2>1, NatMin
<1>4. PICK x \in S : m = Cardinality(Below(x))
  OBVIOUS
<1>5. PICK y \in S : y \in s.children[x]
  BY <1>1
<1>6. x \in s.nodes /\ y \in s.nodes
  BY <1>5, InsideMeans DEF Child
<1>7. ~HasPath(s, y, x)
  BY <1>5, <1>6 DEF ContainsCycle
<1>8. y \in Successors(s, x)
  BY <1>5, <1>6 DEF Successors
<1>9. Below(y) \subseteq Below(x) \ {x}
  BY <1>7, <1>8 DEF HasPath, Closed
<1>10. x \in Below(x)
  BY PathRefl
<1>11. Cardinality(Below(y)) < Cardinality(Below(x))
  <2>1. /\ IsFiniteSet(Below(x))
        /\ Cardinality(Below(x)) \in Nat
        /\ Cardinality(Below(y)) \in Nat
    BY <1>2
  <2> HIDE DEF Below
  <2>2. /\ IsFiniteSet(Below(x) \ {x})
        /\ Cardinality(Below(x) \ {x}) = Cardinality(Below(x)) - 1
    BY <1>10, <2>1, FS_RemoveElement
  <2>3. Cardinality(Below(y)) <= Cardinality(Below(x) \ {x})
    BY <1>9, <2>2, FS_Subset
  <2> QED
    BY <2>1, <2>2, <2>3
<1>12. m \in Nat /\ Cardinality(Below(y)) \in Nat
  BY <1>2, <1>4
<1>13. Cardinality(Below(y)) \in T
  OBVIOUS
<1> HIDE DEF Below, T
<1> QED
  BY <1>3, <1>4, <1>11, <1>12, <1>13

LEMMA NoCycleFound ==
  ASSUME NEW s \in Structures, Inside(s), NoCycle(s)
  PROVE  ~ContainsCycle(s)
<1>1. SUFFICES ASSUME NEW p \in s.nodes, NEW c \in s.children[p], HasPath(s, c, p)
               PROVE  FALSE
  BY DEF ContainsCycle
<1>2. p \in Keys /\ c \in Keys
  BY NodesAreKeys DEF Structures
<1>3. PICK S \in SUBSET Keys : /\ c \in S
                               /\ p \in S
                               /\ \A x \in S : x # p => \E y \in S : Child(s, x, y)
  BY <1>1, <1>2, PathKeys
<1>4. \A x \in S : \E y \in S : Child(s, x, y)
  BY <1>1, <1>3 DEF Child
<1> QED
  BY <1>3, <1>4, NoCycleMeans

-----------------------------------------------------------------------------
(* Reading.                                                                *)

LEMMA RecordFound ==
  ASSUME NEW f, NodesDistinct(f), NEW r \in Range(f.nodes)
  PROVE  RecordOf(f, r.key) = r
<1>1. PICK i \in DOMAIN f.nodes : r = f.nodes[i]
  BY DEF Range
<1>2. RecordOf(f, r.key) \in Range(f.nodes) /\ RecordOf(f, r.key).key = r.key
  BY DEF RecordOf
<1>3. PICK j \in DOMAIN f.nodes : RecordOf(f, r.key) = f.nodes[j]
  BY <1>2 DEF Range
<1> QED
  BY <1>1, <1>2, <1>3 DEF NodesDistinct

LEMMA RecordsOfFile ==
  ASSUME NEW f \in Snapshots, NodesDistinct(f), NEW k \in KeysIn(f)
  PROVE  /\ k \in Keys
         /\ RecordOf(f, k) \in Range(f.nodes)
         /\ RecordOf(f, k) \in NodeRecords
         /\ RecordOf(f, k).key = k
         /\ Range(RecordOf(f, k).children) \subseteq Keys
         /\ Range(RecordOf(f, k).parents) \subseteq Keys
<1>1. PICK r \in Range(f.nodes) : r.key = k
  BY DEF KeysIn
<1>2. RecordOf(f, k) = r
  BY <1>1, RecordFound
<1>3. f.nodes \in Seq(NodeRecords)
  BY DEF Snapshots
<1>4. r \in NodeRecords
  BY <1>3 DEF Range
<1>5. k \in Keys
  BY <1>1, <1>4 DEF NodeRecords, NodesDistinct
<1>6. r.children \in Seq(Keys) /\ r.parents \in Seq(Keys)
  BY <1>4 DEF NodeRecords
<1>7. Range(r.children) \subseteq Keys /\ Range(r.parents) \subseteq Keys
  BY <1>6 DEF Range
<1> QED
  BY <1>1, <1>2, <1>4, <1>5, <1>7

LEMMA WiredFields ==
  ASSUME NEW f \in Snapshots, f.mode \in Modes, NodesDistinct(f),
         f.root \in KeysIn(f) \cup {NoRoot}
  PROVE  LET s == Wired(f)
         IN  /\ s \in Structures
             /\ s.nodes = KeysIn(f)
             /\ s.root = f.root
             /\ s.mode = f.mode
             /\ s.hasFirst <=> KeysIn(f) # {}
             /\ \A k \in Keys : s.value[k] = IF k \in KeysIn(f) THEN RecordOf(f, k).value
                                                                ELSE NoValue
             /\ \A x, y \in Keys :
                  /\ Child(s, x, y) <=> x \in KeysIn(f) /\ y \in Range(RecordOf(f, x).children)
                  /\ Parent(s, x, y) <=> y \in KeysIn(f) /\ x \in Range(RecordOf(f, y).children)
<1> DEFINE vl == [k \in Keys |-> IF k \in KeysIn(f) THEN RecordOf(f, k).value ELSE NoValue]
           pa == [k \in Keys |-> {p \in KeysIn(f) : k \in Range(RecordOf(f, p).children)}]
           ch == [k \in Keys |-> IF k \in KeysIn(f) THEN Range(RecordOf(f, k).children) ELSE {}]
           first == FlagOnLoad(f)
<1>1. \A k \in KeysIn(f) : /\ k \in Keys
                           /\ RecordOf(f, k).value \in Values
                           /\ Range(RecordOf(f, k).children) \subseteq Keys
  BY RecordsOfFile DEF NodeRecords
<1>2. vl \in [Keys -> Values \cup {NoValue}]
  BY <1>1
<1>3. pa \in [Keys -> SUBSET Keys] /\ ch \in [Keys -> SUBSET Keys]
  BY <1>1
<1>4. first \in BOOLEAN /\ (first <=> KeysIn(f) # {})
  <2>1. f.nodes \in Seq(NodeRecords)
    BY DEF Snapshots
  <2>2. f.nodes = <<>> => KeysIn(f) = {}
    BY DEF KeysIn, Range
  <2>3. f.nodes # <<>> => f.nodes[1] \in Range(f.nodes)
    BY <2>1 DEF Range
  <2> QED
    BY <2>2, <2>3 DEF KeysIn, FlagOnLoad
<1>5. \A x, y \in Keys :
        /\ y \in ch[x] <=> x \in KeysIn(f) /\ y \in Range(RecordOf(f, x).children)
        /\ y \in pa[x] <=> y \in KeysIn(f) /\ x \in Range(RecordOf(f, y).children)
  OBVIOUS
<1>6. \A k \in Keys : vl[k] = IF k \in KeysIn(f) THEN RecordOf(f, k).value ELSE NoValue
  OBVIOUS
<1>7. KeysIn(f) \subseteq Keys
  BY <1>1
<1>8. Wired(f) = [root |-> f.root, nodes |-> KeysIn(f), mode |-> f.mode, hasFirst |-> first,
                  value |-> vl, parents |-> pa, children |-> ch]
  BY DEF Wired
<1> HIDE DEF vl, pa, ch, first
<1> QED
  BY <1>2, <1>3, <1>4, <1>5, <1>6, <1>7, <1>8 DEF Structures, Child, Parent

LEMMA AcceptedMeans ==
  ASSUME NEW f
  PROVE  LoadVerdict(f) = "Ok" <=> /\ f.mode \in Modes
                                   /\ NodesDistinct(f)
                                   /\ RelationsConsistent(f)
                                   /\ f.root \in KeysIn(f) \cup {NoRoot}
                                   /\ ~ContainsCycle(Wired(f))
  BY DEF LoadVerdict

(* The lists of an accepted file agree with each other.                    *)
LEMMA ListsAgree ==
  ASSUME NEW f \in Snapshots, NodesDistinct(f), RelationsConsistent(f)
  PROVE  /\ \A x \in KeysIn(f) : \A y \in Range(RecordOf(f, x).children) :
              y \in KeysIn(f) /\ x \in Range(RecordOf(f, y).parents)
         /\ \A x \in KeysIn(f) : \A y \in Range(RecordOf(f, x).parents) :
              y \in KeysIn(f) /\ x \in Range(RecordOf(f, y).children)
<1>1. \A k \in KeysIn(f) : RecordOf(f, k) \in Range(f.nodes) /\ RecordOf(f, k).key = k
  BY RecordsOfFile
<1> QED
  BY <1>1 DEF RelationsConsistent

LEMMA AcceptedSound ==
  ASSUME NEW f \in Snapshots, LoadVerdict(f) = "Ok"
  PROVE  Sound(Wired(f)) /\ Valued(Wired(f))
<1> DEFINE s == Wired(f)
<1>1. /\ f.mode \in Modes
      /\ NodesDistinct(f)
      /\ RelationsConsistent(f)
      /\ f.root \in KeysIn(f) \cup {NoRoot}
      /\ ~ContainsCycle(s)
  BY AcceptedMeans
<1>2. /\ s \in Structures
      /\ s.nodes = KeysIn(f)
      /\ s.root = f.root
      /\ s.hasFirst <=> KeysIn(f) # {}
      /\ \A k \in Keys : s.value[k] = IF k \in KeysIn(f) THEN RecordOf(f, k).value ELSE NoValue
      /\ \A x, y \in Keys :
           /\ Child(s, x, y) <=> x \in KeysIn(f) /\ y \in Range(RecordOf(f, x).children)
           /\ Parent(s, x, y) <=> y \in KeysIn(f) /\ x \in Range(RecordOf(f, y).children)
  BY <1>1, WiredFields
<1> HIDE DEF s
<1>3. Mirrored(s)
  BY <1>2, MirroredMeans
<1>4. Inside(s)
  BY <1>1, <1>2, ListsAgree, InsideMeans
<1>5. NoCycle(s)
  BY <1>1, <1>2, <1>4, CycleFound
<1>6. RootIsNode(s) /\ FlagExact(s)
  BY <1>1, <1>2 DEF RootIsNode, FlagExact
<1>7. Valued(s)
  BY <1>1, <1>2, RecordsOfFile, SentinelsAssumption DEF Valued, NodeRecords
<1> QED
  BY <1>2, <1>3, <1>4, <1>5, <1>6, <1>7 DEF Sound, s

-----------------------------------------------------------------------------
(* Writing.                                                                *)

LEMMA RecordFields ==
  ASSUME NEW s \in Structures, Valued(s), NEW k \in s.nodes
  PROVE  LET r == SerializeNode(s, k)
         IN  /\ r \in NodeRecords
             /\ r.key = k
             /\ r.value = s.value[k]
             /\ IsInjective(r.parents) /\ Range(r.parents) = s.parents[k]
             /\ IsInjective(r.children) /\ Range(r.children) = s.children[k]
<1>1. k \in Keys /\ s.parents[k] \subseteq Keys /\ s.children[k] \subseteq Keys
  BY NodesAreKeys DEF Structures
<1>2. IsFiniteSet(s.parents[k]) /\ IsFiniteSet(s.children[k])
  BY <1>1, FiniteKeySets
<1> DEFINE ps == Sorted(s.parents[k])
           cs == Sorted(s.children[k])
<1>3. /\ ps \in Seq(s.parents[k]) /\ IsInjective(ps) /\ Range(ps) = s.parents[k]
      /\ cs \in Seq(s.children[k]) /\ IsInjective(cs) /\ Range(cs) = s.children[k]
  BY <1>2, SortedSeq
<1>4. SerializeNode(s, k) = [key |-> k, value |-> s.value[k], parents |-> ps, children |-> cs]
  BY DEF SerializeNode
<1> HIDE DEF ps, cs
<1>5. ps \in Seq(Keys) /\ cs \in Seq(Keys)
  BY <1>1, <1>3
<1>6. s.value[k] \in Values
  BY <1>1 DEF Valued
<1> QED
  BY <1>1, <1>3, <1>4, <1>5, <1>6 DEF NodeRecords

LEMMA WrittenFields ==
  ASSUME NEW s \in Structures, Valued(s), RootIsNode(s)
  PROVE  LET f == ToBytes(s)
         IN  /\ f \in Snapshots
             /\ f.root = s.root
             /\ f.mode = s.mode
             /\ Len(f.nodes) = Cardinality(s.nodes)
             /\ Range(f.nodes) = {SerializeNode(s, k) : k \in s.nodes}
             /\ KeysIn(f) = s.nodes
             /\ NodesDistinct(f)
             /\ \A k \in s.nodes : RecordOf(f, k) = SerializeNode(s, k)
<1> DEFINE o == Sorted(s.nodes)
           n == Cardinality(s.nodes)
           ns == [i \in DOMAIN o |-> SerializeNode(s, o[i])]
           f == ToBytes(s)
<1>1. s.nodes \subseteq Keys
  BY NodesAreKeys
<1>2. /\ n \in Nat
      /\ o \in [1..n -> s.nodes]
      /\ Range(o) = s.nodes
      /\ IsInjective(o)
  BY <1>1, FiniteKeySets, SortedSeq
<1> HIDE DEF o, n
<1>3. \A k \in s.nodes : SerializeNode(s, k) \in NodeRecords /\ SerializeNode(s, k).key = k
  BY RecordFields
<1>4. /\ DOMAIN ns = 1..n
      /\ \A i \in 1..n : ns[i] = SerializeNode(s, o[i]) /\ o[i] \in s.nodes
  BY <1>2
<1>5. ns \in Seq(NodeRecords) /\ Len(ns) = n
  <2>1. ns \in [1..n -> NodeRecords]
    BY <1>2, <1>3, <1>4
  <2> HIDE DEF ns
  <2> QED
    BY <1>2, <2>1
<1>6. f = [root |-> s.root, mode |-> s.mode, nodes |-> ns]
  BY DEF ToBytes, o
<1> HIDE DEF ns, f
<1>7. f.root = s.root /\ f.mode = s.mode /\ f.nodes = ns
  BY <1>6
<1>8. f \in Snapshots
  BY <1>5, <1>6 DEF Snapshots, Structures
<1>9. Range(ns) = {SerializeNode(s, k) : k \in s.nodes}
  <2>1. \A k \in s.nodes : \E i \in 1..n : o[i] = k
    BY <1>2 DEF Range
  <2>2. \A r : r \in Range(ns) <=> \E i \in 1..n : r = SerializeNode(s, o[i])
    BY <1>4 DEF Range
  <2> QED
    BY <1>4, <2>1, <2>2
<1>10. KeysIn(f) = s.nodes
  BY <1>3, <1>7, <1>9 DEF KeysIn
<1>11. NodesDistinct(f)
  <2>1. EmptyKey \notin KeysIn(f)
    BY <1>1, <1>10, SentinelsAssumption
  <2>2. ASSUME NEW i \in 1..n, NEW j \in 1..n, ns[i].key = ns[j].key PROVE i = j
    BY <1>2, <1>3, <1>4, <2>2 DEF IsInjective
  <2> QED
    BY <1>4, <1>7, <2>1, <2>2 DEF NodesDistinct
<1>12. \A k \in s.nodes : RecordOf(f, k) = SerializeNode(s, k)
  BY <1>3, <1>7, <1>9, <1>11, RecordFound
<1> QED
  BY <1>5, <1>7, <1>8, <1>9, <1>10, <1>11, <1>12 DEF f, n

(* What is written of a structure is accepted, and gives it back.          *)
LEMMA RoundTrip ==
  ASSUME NEW s \in Structures, Valued(s), RootIsNode(s),
         Mirrored(s), Inside(s), NoCycle(s)
  PROVE  /\ ToBytes(s) \in Snapshots
         /\ LoadVerdict(ToBytes(s)) = "Ok"
         /\ Wired(ToBytes(s)) = [s EXCEPT !.hasFirst = s.nodes # {}]
<1> DEFINE f == ToBytes(s)
           t == Wired(f)
           u == [s EXCEPT !.hasFirst = s.nodes # {}]
<1>1. /\ f \in Snapshots
      /\ f.root = s.root
      /\ f.mode = s.mode
      /\ Range(f.nodes) = {SerializeNode(s, k) : k \in s.nodes}
      /\ KeysIn(f) = s.nodes
      /\ NodesDistinct(f)
      /\ \A k \in s.nodes : RecordOf(f, k) = SerializeNode(s, k)
  BY WrittenFields
<1>2. \A k \in s.nodes : LET r == SerializeNode(s, k)
                         IN  /\ r.key = k
                             /\ r.value = s.value[k]
                             /\ IsInjective(r.parents) /\ Range(r.parents) = s.parents[k]
                             /\ IsInjective(r.children) /\ Range(r.children) = s.children[k]
  BY RecordFields
<1>3. f.mode \in Modes /\ f.root \in KeysIn(f) \cup {NoRoot}
  BY <1>1 DEF Structures, RootIsNode
<1> HIDE DEF f
<1>4. /\ t \in Structures
      /\ t.nodes = s.nodes
      /\ t.root = s.root
      /\ t.mode = s.mode
      /\ t.hasFirst <=> s.nodes # {}
      /\ \A k \in Keys : t.value[k] = IF k \in s.nodes THEN s.value[k] ELSE NoValue
      /\ \A x, y \in Keys :
           /\ Child(t, x, y) <=> x \in s.nodes /\ y \in s.children[x]
           /\ Parent(t, x, y) <=> y \in s.nodes /\ x \in s.children[y]
  BY <1>1, <1>2, <1>3, WiredFields
<1> HIDE DEF t
<1>5. \A x, y \in Keys : /\ Child(s, x, y) <=> Parent(s, y, x)
                         /\ Child(s, x, y) => x \in s.nodes /\ y \in s.nodes
  BY MirroredMeans, InsideMeans
<1>6. \A x, y \in Keys : /\ Child(t, x, y) <=> Child(s, x, y)
                         /\ Parent(t, x, y) <=> Parent(s, x, y)
  BY <1>4, <1>5 DEF Child
<1>7. t.children = s.children /\ t.parents = s.parents
  <2>1. /\ t.children \in [Keys -> SUBSET Keys] /\ s.children \in [Keys -> SUBSET Keys]
        /\ t.parents \in [Keys -> SUBSET Keys] /\ s.parents \in [Keys -> SUBSET Keys]
    BY <1>4 DEF Structures
  <2>2. ASSUME NEW x \in Keys
        PROVE  t.children[x] = s.children[x] /\ t.parents[x] = s.parents[x]
    <3>1. t.children[x] \subseteq Keys /\ s.children[x] \subseteq Keys
      BY <2>1
    <3>2. t.parents[x] \subseteq Keys /\ s.parents[x] \subseteq Keys
      BY <2>1
    <3>3. \A y \in Keys : /\ y \in t.children[x] <=> y \in s.children[x]
                          /\ y \in t.parents[x] <=> y \in s.parents[x]
      BY <1>6 DEF Child, Parent
    <3> QED
      BY <3>1, <3>2, <3>3
  <2> QED
    BY <2>1, <2>2
<1>8. t.value = s.value
  <2>1. \A k \in Keys : t.value[k] = s.value[k]
    BY <1>4 DEF Structures, Valued
  <2> QED
    BY <1>4, <2>1 DEF Structures
<1>9. t = u
  BY <1>4, <1>7, <1>8 DEF Structures
<1>10. RelationsConsistent(f)
  <2>1. SUFFICES ASSUME NEW k \in s.nodes
                 PROVE  LET r == SerializeNode(s, k) IN
                   /\ IsInjective(r.parents) /\ IsInjective(r.children)
                   /\ r.key \notin Range(r.parents) \cup Range(r.children)
                   /\ \A p \in Range(r.parents) :
                        p \in KeysIn(f) /\ r.key \in Range(RecordOf(f, p).children)
                   /\ \A c \in Range(r.children) :
                        c \in KeysIn(f) /\ r.key \in Range(RecordOf(f, c).parents)
    BY <1>1 DEF RelationsConsistent
  <2>2. k \in Keys /\ s.parents[k] \subseteq Keys /\ s.children[k] \subseteq Keys
    BY NodesAreKeys DEF Structures
  <2>3. \A S \in SUBSET Keys : S # {} => \E x \in S : \A y \in S : ~Child(s, x, y)
    BY NoCycleMeans
  <2>4. ~Child(s, k, k)
    <3>1. {k} \in SUBSET Keys /\ {k} # {}
      BY <2>2
    <3> QED
      BY <2>3, <3>1
  <2>5. k \notin s.parents[k] \cup s.children[k]
    BY <1>5, <2>2, <2>4 DEF Child, Parent
  <2>6. \A p \in s.parents[k] : p \in s.nodes /\ k \in s.children[p]
    BY <1>5, <2>2 DEF Child, Parent
  <2>7. \A c \in s.children[k] : c \in s.nodes /\ k \in s.parents[c]
    BY <1>5, <2>2 DEF Child, Parent
  <2> QED
    BY <1>1, <1>2, <2>5, <2>6, <2>7
<1>11. ~ContainsCycle(t)
  <2>1. NoCycle(t)
    BY <1>7 DEF NoCycle
  <2>2. Inside(t)
    BY <1>4, <1>7 DEF Inside, Isolated
  <2> QED
    BY <1>4, <2>1, <2>2, NoCycleFound
<1> QED
  BY <1>1, <1>3, <1>9, <1>10, <1>11, AcceptedMeans DEF t, f

-----------------------------------------------------------------------------
(* A coherent structure is well-formed but for the mode and the flag, and  *)
(* the operations do not look at these to change the graph.                *)

LEMMA RelaxedFields ==
  ASSUME NEW s \in Structures
  PROVE  LET t == Relaxed(s)
         IN  /\ t \in Structures
             /\ t.nodes = s.nodes
             /\ t.root = s.root
             /\ t.mode = "un-strict"
             /\ t.value = s.value
             /\ t.children = s.children
             /\ t.parents = s.parents
             /\ t.hasFirst <=> t.nodes # {}
  BY DEF Relaxed, Structures, Modes

LEMMA RelaxedWellFormed ==
  ASSUME NEW s, Coherent(s)
  PROVE  WellFormed(Relaxed(s))
<1> DEFINE t == Relaxed(s)
<1>1. s \in Structures
  BY DEF Coherent
<1>2. /\ t \in Structures
      /\ t.nodes = s.nodes
      /\ t.root = s.root
      /\ t.mode = "un-strict"
      /\ t.children = s.children
      /\ t.parents = s.parents
      /\ t.hasFirst <=> t.nodes # {}
  BY <1>1, RelaxedFields
<1> HIDE DEF t
<1>3. Mirrored(t) /\ Inside(t) /\ NoCycle(t) /\ RootIsNode(t)
  BY <1>2 DEF Coherent, Mirrored, Inside, Isolated, NoCycle, RootIsNode
<1>4. FlagExact(t) /\ NoneAlone(t)
  BY <1>2 DEF FlagExact, NoneAlone
<1> QED
  BY <1>2, <1>3, <1>4 DEF WellFormed, t

(* Coherence is a matter of the nodes, the root and the links.             *)
LEMMA SameGraph ==
  ASSUME NEW s \in Structures, NEW t, WellFormed(t), s.nodes = t.nodes, s.root = t.root,
         \A x, y \in Keys : /\ Child(s, x, y) <=> Child(t, x, y)
                            /\ Parent(s, x, y) <=> Parent(t, x, y)
  PROVE  Coherent(s)
<1>1. t \in Structures /\ Mirrored(t) /\ Inside(t) /\ NoCycle(t) /\ RootIsNode(t)
  BY DEF WellFormed
<1>2. Mirrored(s)
  BY <1>1, MirroredMeans
<1>3. Inside(s)
  BY <1>1, InsideMeans
<1>4. NoCycle(s)
  <2>1. \A S \in SUBSET Keys : S # {} => \E x \in S : \A y \in S : ~Child(t, x, y)
    BY <1>1, NoCycleMeans
  <2>2. \A S \in SUBSET Keys : S # {} => \E x \in S : \A y \in S : ~Child(s, x, y)
    BY <2>1
  <2> QED
    BY <2>2, NoCycleMeans
<1>5. RootIsNode(s)
  BY <1>1 DEF RootIsNode
<1> QED
  BY <1>2, <1>3, <1>4, <1>5 DEF Coherent

LEMMA RelaxedPaths ==
  ASSUME NEW s \in Structures, NEW x, NEW y
  PROVE  HasPath(Relaxed(s), x, y) <=> HasPath(s, x, y)
<1>1. Relaxed(s).nodes = s.nodes /\ Relaxed(s).children = s.children
  BY RelaxedFields
<1> QED
  BY <1>1 DEF HasPath, Closed, Successors

(* What a structure accepts it would accept in un-strict mode too.         *)
LEMMA RelaxedVerdicts ==
  ASSUME NEW s \in Structures
  PROVE  /\ \A k : AddNodeVerdict(s, k) = "Ok" => AddNodeVerdict(Relaxed(s), k) = "Ok"
         /\ \A k, ps, cs : AddNodeWithEdgesVerdict(s, k, ps, cs) = "Ok" =>
              AddNodeWithEdgesVerdict(Relaxed(s), k, ps, cs) = "Ok"
         /\ \A p, c : AddEdgeVerdict(s, p, c) = "Ok" => AddEdgeVerdict(Relaxed(s), p, c) = "Ok"
         /\ \A k : DeleteVerdict(s, k) = "Ok" => DeleteVerdict(Relaxed(s), k) = "Ok"
<1> DEFINE t == Relaxed(s)
<1>1. t.nodes = s.nodes /\ t.mode = "un-strict" /\ t.children = s.children
  BY RelaxedFields
<1>2. \A x, y : HasPath(t, x, y) <=> HasPath(s, x, y)
  BY RelaxedPaths
<1> HIDE DEF t
<1>3. \A k : AddNodeVerdict(s, k) = "Ok" => AddNodeVerdict(t, k) = "Ok"
  BY <1>1 DEF AddNodeVerdict
<1>4. \A k, ps, cs : AddNodeWithEdgesVerdict(s, k, ps, cs) = "Ok" =>
                       AddNodeWithEdgesVerdict(t, k, ps, cs) = "Ok"
  BY <1>1, <1>2, <1>3 DEF AddNodeWithEdgesVerdict
<1>5. \A p, c : AddEdgeVerdict(s, p, c) = "Ok" => AddEdgeVerdict(t, p, c) = "Ok"
  BY <1>1, <1>2 DEF AddEdgeVerdict
<1>6. \A k : DeleteVerdict(s, k) = "Ok" => DeleteVerdict(t, k) = "Ok"
  BY <1>1 DEF DeleteVerdict
<1> QED
  BY <1>3, <1>4, <1>5, <1>6 DEF t

-----------------------------------------------------------------------------
(* Every operation keeps a structure coherent and its values in their      *)
(* places, in a structure that breaks the semi-strict rule too.            *)

LEMMA InsertLinkedCoherent ==
  ASSUME NEW s, Coherent(s), Valued(s), NEW k \in Keys, k \notin s.nodes, NEW v \in Values,
         NEW P \in NodeSets(s), NEW Q \in NodeSets(s), Apart(s, P, Q)
  PROVE  Coherent(InsertLinked(s, k, v, P, Q)) /\ Valued(InsertLinked(s, k, v, P, Q))
<1> DEFINE r == Relaxed(s)
           t == InsertLinked(s, k, v, P, Q)
           u == InsertLinked(r, k, v, P, Q)
<1>1. s \in Structures /\ s.nodes \subseteq Keys
  BY NodesAreKeys DEF Coherent
<1>2. /\ r \in Structures
      /\ WellFormed(r)
      /\ r.nodes = s.nodes
      /\ r.root = s.root
      /\ r.mode = "un-strict"
      /\ \A x, y \in Keys : /\ Child(r, x, y) <=> Child(s, x, y)
                            /\ Parent(r, x, y) <=> Parent(s, x, y)
  BY <1>1, RelaxedFields, RelaxedWellFormed DEF Child, Parent
<1>3. P \in NodeSets(r) /\ Q \in NodeSets(r) /\ P \in KeySets /\ Q \in KeySets
  BY <1>1, <1>2 DEF NodeSets, KeySets
<1>4. Apart(r, P, Q)
  BY <1>1, RelaxedPaths DEF Apart
<1> HIDE DEF r
<1>5. WellFormed(u)
  BY <1>2, <1>3, <1>4, InsertLinkedWellFormed
<1>6. /\ t \in Structures
      /\ t.nodes = s.nodes \cup {k} /\ u.nodes = s.nodes \cup {k}
      /\ t.root = s.root /\ u.root = s.root
      /\ t.value = [s.value EXCEPT ![k] = v]
  BY <1>1, <1>2, <1>3, InsertLinkedFields, InsertLinkedValue
<1>7. \A x, y \in Keys : /\ Child(t, x, y) <=> Child(u, x, y)
                         /\ Parent(t, x, y) <=> Parent(u, x, y)
  BY <1>1, <1>2, <1>3, InsertLinkedLinks
<1> HIDE DEF t, u
<1>8. Coherent(t)
  BY <1>5, <1>6, <1>7, SameGraph
<1>9. Valued(t)
  BY <1>1, <1>6 DEF Valued, Structures
<1> QED
  BY <1>8, <1>9 DEF t

LEMMA AddChildCoherent ==
  ASSUME NEW s, Coherent(s), Valued(s), NEW p \in s.nodes, NEW c \in s.nodes, p # c,
         ~HasPath(s, c, p)
  PROVE  Coherent(AddChild(s, p, c)) /\ Valued(AddChild(s, p, c))
<1> DEFINE r == Relaxed(s)
           t == AddChild(s, p, c)
           u == AddChild(r, p, c)
<1>1. s \in Structures /\ p \in Keys /\ c \in Keys
  BY NodesAreKeys DEF Coherent
<1>2. /\ r \in Structures
      /\ WellFormed(r)
      /\ r.nodes = s.nodes
      /\ r.root = s.root
      /\ \A x, y \in Keys : /\ Child(r, x, y) <=> Child(s, x, y)
                            /\ Parent(r, x, y) <=> Parent(s, x, y)
  BY <1>1, RelaxedFields, RelaxedWellFormed DEF Child, Parent
<1>3. ~HasPath(r, c, p)
  BY <1>1, RelaxedPaths
<1> HIDE DEF r
<1>4. WellFormed(u)
  BY <1>2, <1>3, AddChildWellFormed
<1>5. /\ t \in Structures
      /\ t.nodes = s.nodes /\ u.nodes = s.nodes
      /\ t.root = s.root /\ u.root = s.root
      /\ t.value = s.value
  BY <1>1, <1>2, AddChildFields
<1>6. \A x, y \in Keys : /\ Child(t, x, y) <=> Child(u, x, y)
                         /\ Parent(t, x, y) <=> Parent(u, x, y)
  BY <1>1, <1>2, AddChildLinks
<1> HIDE DEF t, u
<1>7. Coherent(t)
  BY <1>4, <1>5, <1>6, SameGraph
<1>8. Valued(t)
  BY <1>5 DEF Valued
<1> QED
  BY <1>7, <1>8 DEF t

LEMMA DeleteCoherent ==
  ASSUME NEW s, Coherent(s), Valued(s), NEW k \in s.nodes
  PROVE  Coherent(DeleteNode(s, k)) /\ Valued(DeleteNode(s, k))
<1> DEFINE r == Relaxed(s)
           t == DeleteNode(s, k)
           u == DeleteNode(r, k)
<1>1. s \in Structures /\ k \in Keys
  BY NodesAreKeys DEF Coherent
<1>2. /\ r \in Structures
      /\ WellFormed(r)
      /\ r.nodes = s.nodes
      /\ r.root = s.root
      /\ r.mode = "un-strict"
      /\ \A x, y \in Keys : /\ Child(r, x, y) <=> Child(s, x, y)
                            /\ Parent(r, x, y) <=> Parent(s, x, y)
  BY <1>1, RelaxedFields, RelaxedWellFormed DEF Child, Parent
<1> HIDE DEF r
<1>3. DeleteVerdict(r, k) = "Ok"
  BY <1>2 DEF DeleteVerdict
<1>4. WellFormed(u)
  BY <1>1, <1>2, <1>3, DeleteWellFormed
<1>5. /\ t \in Structures
      /\ t.nodes = s.nodes \ {k} /\ u.nodes = s.nodes \ {k}
      /\ t.root = u.root
      /\ t.value = [s.value EXCEPT ![k] = NoValue]
  <2>1. /\ t \in Structures
        /\ t.nodes = s.nodes \ {k}
        /\ t.root = IF s.root = k THEN NoRoot ELSE s.root
        /\ t.value = [s.value EXCEPT ![k] = NoValue]
    BY <1>1, DeleteFields
  <2>2. r \in Structures /\ k \in Keys
    BY <1>1, <1>2
  <2>3. /\ u.nodes = r.nodes \ {k}
        /\ u.root = IF r.root = k THEN NoRoot ELSE r.root
    BY <2>2, DeleteFields, ZenonT(30)
  <2> QED
    BY <1>2, <2>1, <2>3
<1>6. \A x, y \in Keys : /\ Child(t, x, y) <=> Child(u, x, y)
                         /\ Parent(t, x, y) <=> Parent(u, x, y)
  BY <1>1, <1>2, DeleteLinks
<1> HIDE DEF t, u
<1>7. Coherent(t)
  BY <1>4, <1>5, <1>6, SameGraph
<1>8. Valued(t)
  BY <1>1, <1>5, SentinelsAssumption DEF Valued, Structures
<1> QED
  BY <1>7, <1>8 DEF t

LEMMA EditCoherent ==
  ASSUME NEW s, Coherent(s), Valued(s), NEW k \in s.nodes, NEW v \in Values
  PROVE  Coherent(EditNode(s, k, v)) /\ Valued(EditNode(s, k, v))
<1> DEFINE t == EditNode(s, k, v)
<1>1. s \in Structures /\ k \in Keys
  BY NodesAreKeys DEF Coherent
<1>2. /\ t \in Structures
      /\ t.nodes = s.nodes
      /\ t.root = s.root
      /\ t.value = [s.value EXCEPT ![k] = v]
      /\ t.children = s.children
      /\ t.parents = s.parents
  BY <1>1, EditFields
<1> HIDE DEF t
<1>3. Mirrored(t) /\ Inside(t) /\ NoCycle(t) /\ RootIsNode(t)
  BY <1>2 DEF Coherent, Mirrored, Inside, Isolated, NoCycle, RootIsNode
<1>4. Valued(t)
  BY <1>1, <1>2 DEF Valued, Structures
<1> QED
  BY <1>2, <1>3, <1>4 DEF Coherent, t

(* What a coherent structure accepts leaves it coherent.                   *)
LEMMA AcceptedCoherent ==
  ASSUME NEW s, Coherent(s), Valued(s)
  PROVE  /\ \A k \in Keys \cup {EmptyKey}, v \in Values : AddNodeVerdict(s, k) = "Ok" =>
              Coherent(Insert(s, k, v)) /\ Valued(Insert(s, k, v))
         /\ \A k \in Keys \cup {EmptyKey}, v \in Values, ps, cs \in KeyLists :
              AddNodeWithEdgesVerdict(s, k, ps, cs) = "Ok" =>
                LET t == InsertLinked(s, k, v, Range(ps), Range(cs))
                IN  Coherent(t) /\ Valued(t)
         /\ \A p, c \in Keys : AddEdgeVerdict(s, p, c) = "Ok" =>
              Coherent(AddChild(s, p, c)) /\ Valued(AddChild(s, p, c))
         /\ \A k \in Keys : DeleteVerdict(s, k) = "Ok" =>
              Coherent(DeleteNode(s, k)) /\ Valued(DeleteNode(s, k))
<1> DEFINE r == Relaxed(s)
<1>1. s \in Structures /\ WellFormed(r) /\ r \in Structures
  BY RelaxedWellFormed DEF Coherent, WellFormed
<1>2. r.nodes = s.nodes
  BY <1>1, RelaxedFields
<1>3. \A x, y : HasPath(r, x, y) <=> HasPath(s, x, y)
  BY <1>1, RelaxedPaths
<1>4. /\ \A k : AddNodeVerdict(s, k) = "Ok" => AddNodeVerdict(r, k) = "Ok"
      /\ \A k, ps, cs : AddNodeWithEdgesVerdict(s, k, ps, cs) = "Ok" =>
           AddNodeWithEdgesVerdict(r, k, ps, cs) = "Ok"
  BY <1>1, RelaxedVerdicts
<1> HIDE DEF r
<1>5. ASSUME NEW k \in Keys \cup {EmptyKey}, NEW v \in Values, AddNodeVerdict(s, k) = "Ok"
      PROVE  Coherent(Insert(s, k, v)) /\ Valued(Insert(s, k, v))
  <2>1. k \in Keys /\ k \notin s.nodes
    BY <1>1, <1>2, <1>4, <1>5, AddNodeOk
  <2>2. {} \in NodeSets(s) /\ Apart(s, {}, {})
    BY DEF NodeSets, Apart
  <2>3. Insert(s, k, v) = InsertLinked(s, k, v, {}, {})
    BY <1>1, <2>1, InsertIsUnlinked
  <2> QED
    BY <2>1, <2>2, <2>3, InsertLinkedCoherent
<1>6. ASSUME NEW k \in Keys \cup {EmptyKey}, NEW v \in Values, NEW ps \in KeyLists,
             NEW cs \in KeyLists, AddNodeWithEdgesVerdict(s, k, ps, cs) = "Ok"
      PROVE  LET t == InsertLinked(s, k, v, Range(ps), Range(cs))
             IN  Coherent(t) /\ Valued(t)
  <2>1. /\ k \in Keys
        /\ k \notin r.nodes
        /\ Range(ps) \in NodeSets(r)
        /\ Range(cs) \in NodeSets(r)
        /\ Apart(r, Range(ps), Range(cs))
    BY <1>1, <1>4, <1>6, AddNodeWithEdgesOk
  <2>2. /\ k \notin s.nodes
        /\ Range(ps) \in NodeSets(s)
        /\ Range(cs) \in NodeSets(s)
        /\ Apart(s, Range(ps), Range(cs))
    BY <1>2, <1>3, <2>1 DEF NodeSets, Apart
  <2> QED
    BY <2>1, <2>2, InsertLinkedCoherent
<1>7. ASSUME NEW p \in Keys, NEW c \in Keys, AddEdgeVerdict(s, p, c) = "Ok"
      PROVE  Coherent(AddChild(s, p, c)) /\ Valued(AddChild(s, p, c))
  BY <1>7, AddEdgeOk, AddChildCoherent
<1>8. ASSUME NEW k \in Keys, DeleteVerdict(s, k) = "Ok"
      PROVE  Coherent(DeleteNode(s, k)) /\ Valued(DeleteNode(s, k))
  <2>1. k \in s.nodes
    BY <1>8 DEF DeleteVerdict
  <2> QED
    BY <2>1, DeleteCoherent
<1> QED
  BY <1>5, <1>6, <1>7, <1>8

LEMMA NewCoherent ==
  ASSUME NEW s, WellFormed(s)
  PROVE  Coherent(s)
  BY DEF WellFormed, Coherent

LEMMA EmptyValued ==
  ASSUME NEW m \in Modes
  PROVE  Valued(EmptyStructure(m))
<1>1. EmptyStructure(m).nodes = {}
  BY EmptyFields
<1>2. EmptyStructure(m).value = [k \in Keys |-> NoValue]
  BY DEF EmptyStructure
<1> QED
  BY <1>1, <1>2, SentinelsAssumption DEF Valued

LEMMA WithRootValued ==
  ASSUME NEW m \in Modes, NEW r \in Keys, NEW v \in Values
  PROVE  Valued(WithRoot(r, v, m))
<1>1. WithRoot(r, v, m).nodes = {r}
  BY WithRootFields
<1>2. WithRoot(r, v, m).value = [k \in Keys |-> IF k = r THEN v ELSE NoValue]
  BY NewValues
<1> QED
  BY <1>1, <1>2, SentinelsAssumption DEF Valued

=============================================================================
