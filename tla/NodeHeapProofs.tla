--------------------------- MODULE NodeHeapProofs ---------------------------
(***************************************************************************)
(* Theorems about NodeHeap.tla, for every set of structures, objects and   *)
(* keys, when callers pass every node once: links lead to the objects the  *)
(* structure holds, verdicts are those by key, and every structure in      *)
(* memory implements the abstract store.                                   *)
(***************************************************************************)
EXTENDS NodeHeap, SnapshotLemmas

TheValue == CHOOSE v \in Values : TRUE

(* View of one structure, as a function of the part of the memory it is    *)
(* about: its map, its root, mode and flag, and the sets of the objects.   *)
Seen(N, r, m, f, pa, ch) ==
  LET held == {k \in Keys : N[k] # NoHandle}
      ends(sets) == [k \in Keys |-> IF k \in held THEN KeysOf(sets[N[k]]) ELSE {}]
  IN  [root |-> IF r = NoHandle THEN NoRoot ELSE KeyOf[r],
       nodes |-> held, mode |-> m, hasFirst |-> f,
       value |-> [k \in Keys |-> IF k \in held THEN TheValue ELSE NoValue],
       parents |-> ends(pa), children |-> ends(ch)]

Sets == [Handles -> SUBSET Handles]

(* A map that holds objects under their own keys, and whose objects have   *)
(* only each other as neighbours.                                          *)
Laid(N, pa, ch) == /\ N \in [Keys -> Handles \cup {NoHandle}]
                   /\ pa \in Sets
                   /\ ch \in Sets
                   /\ \A k \in Keys : N[k] # NoHandle =>
                        /\ KeyOf[N[k]] = k
                        /\ pa[N[k]] \cup ch[N[k]] \subseteq Range(N)

RootFits(r) == r = NoHandle \/ (r \in Handles /\ KeyOf[r] \in Keys)

(* What Seen shows is a structure.                                         *)
Fits(N, r, m, f, pa, ch) == /\ Laid(N, pa, ch)
                            /\ RootFits(r)
                            /\ m \in Modes
                            /\ f \in BOOLEAN

(* Keys a call may link.                                                   *)
Linkable(N) == SUBSET {k \in Keys : N[k] # NoHandle}

(* No object is in two structures.                                         *)
HeldOnce == \A o, q \in Owners, k, l \in Keys :
              nodes[o][k] # NoHandle /\ nodes[o][k] = nodes[q][l] => o = q

(* The inductive invariant.                                                *)
HeapInv == /\ nodes \in [Owners -> [Keys -> Handles \cup {NoHandle}]]
           /\ root \in [Owners -> Handles \cup {NoHandle}]
           /\ mode \in [Owners -> Modes]
           /\ hasFirst \in [Owners -> BOOLEAN]
           /\ HeldOnce
           /\ \A o \in Owners : /\ Laid(nodes[o], parents, children)
                                /\ RootFits(root[o])
                                /\ WellFormed(View(o))

-----------------------------------------------------------------------------
(* A structure seen by keys.                                               *)

LEMMA ViewIsSeen ==
  ASSUME NEW o
  PROVE  /\ View(o) = Seen(nodes[o], root[o], mode[o], hasFirst[o], parents, children)
         /\ View(o)' = Seen(nodes'[o], root'[o], mode'[o], hasFirst'[o], parents', children')
  BY DEF View, Held, Seen, TheValue

LEMMA TheValueIsOne == TheValue \in Values
  BY ValuesAssumption DEF TheValue

LEMMA HeldObject ==
  ASSUME NEW N, NEW pa, NEW ch, Laid(N, pa, ch), NEW k \in Keys, N[k] # NoHandle
  PROVE  /\ N[k] \in Handles
         /\ KeyOf[N[k]] = k
         /\ pa[N[k]] \subseteq Handles
         /\ ch[N[k]] \subseteq Handles
         /\ \A y \in pa[N[k]] \cup ch[N[k]] :
              KeyOf[y] \in Keys /\ N[KeyOf[y]] = y
<1>1. N[k] \in Handles /\ KeyOf[N[k]] = k
  BY DEF Laid
<1>2. pa[N[k]] \subseteq Handles /\ ch[N[k]] \subseteq Handles
  BY <1>1 DEF Laid, Sets
<1>3. ASSUME NEW y \in pa[N[k]] \cup ch[N[k]]
      PROVE  KeyOf[y] \in Keys /\ N[KeyOf[y]] = y
  <2>1. y \in Range(N) /\ y # NoHandle
    BY <1>2, HandlesAssumption DEF Laid
  <2>2. PICK l \in Keys : y = N[l]
    BY <2>1 DEF Range, Laid
  <2> QED
    BY <2>1, <2>2 DEF Laid
<1> QED
  BY <1>1, <1>2, <1>3

(* A link between two keys is a link between the objects held under them.  *)
LEMMA KeysOfMeans ==
  ASSUME NEW N, NEW pa, NEW ch, Laid(N, pa, ch), NEW k \in Keys, N[k] # NoHandle, NEW l
  PROVE  /\ l \in KeysOf(ch[N[k]]) <=> l \in Keys /\ N[l] # NoHandle /\ N[l] \in ch[N[k]]
         /\ l \in KeysOf(pa[N[k]]) <=> l \in Keys /\ N[l] # NoHandle /\ N[l] \in pa[N[k]]
<1>1. ASSUME NEW S, S = pa[N[k]] \/ S = ch[N[k]]
      PROVE  l \in KeysOf(S) <=> l \in Keys /\ N[l] # NoHandle /\ N[l] \in S
  <2>1. \A y \in S : KeyOf[y] \in Keys /\ N[KeyOf[y]] = y /\ y # NoHandle
    BY <1>1, HeldObject, HandlesAssumption
  <2>2. ASSUME l \in KeysOf(S)
        PROVE  l \in Keys /\ N[l] # NoHandle /\ N[l] \in S
    BY <2>1, <2>2 DEF KeysOf
  <2>3. ASSUME l \in Keys, N[l] # NoHandle, N[l] \in S
        PROVE  l \in KeysOf(S)
    BY <2>3 DEF KeysOf, Laid
  <2> QED
    BY <2>2, <2>3
<1> QED
  BY <1>1

LEMMA SeenFields ==
  ASSUME NEW N, NEW r, NEW m, NEW f, NEW pa, NEW ch, Fits(N, r, m, f, pa, ch)
  PROVE  LET s == Seen(N, r, m, f, pa, ch)
         IN  /\ s \in Structures
             /\ s.nodes = {k \in Keys : N[k] # NoHandle}
             /\ s.root = IF r = NoHandle THEN NoRoot ELSE KeyOf[r]
             /\ s.mode = m
             /\ s.hasFirst = f
             /\ s.value = [k \in Keys |-> IF N[k] # NoHandle THEN TheValue ELSE NoValue]
             /\ \A k, l \in Keys :
                  /\ Child(s, k, l) <=> N[k] # NoHandle /\ N[l] # NoHandle /\ N[l] \in ch[N[k]]
                  /\ Parent(s, k, l) <=> N[k] # NoHandle /\ N[l] # NoHandle /\ N[l] \in pa[N[k]]
<1> DEFINE held == {k \in Keys : N[k] # NoHandle}
           rt == IF r = NoHandle THEN NoRoot ELSE KeyOf[r]
           vl == [k \in Keys |-> IF N[k] # NoHandle THEN TheValue ELSE NoValue]
           ps == [k \in Keys |-> IF k \in held THEN KeysOf(pa[N[k]]) ELSE {}]
           cs == [k \in Keys |-> IF k \in held THEN KeysOf(ch[N[k]]) ELSE {}]
           s == Seen(N, r, m, f, pa, ch)
<1>0. Laid(N, pa, ch) /\ RootFits(r) /\ m \in Modes /\ f \in BOOLEAN
  BY DEF Fits
<1>1. s = [root |-> rt, nodes |-> held, mode |-> m, hasFirst |-> f, value |-> vl,
           parents |-> ps, children |-> cs]
  BY DEF Seen
<1>2. rt \in Keys \cup {NoRoot}
  BY <1>0 DEF RootFits
<1>3. vl \in [Keys -> Values \cup {NoValue}]
  BY TheValueIsOne
<1>4. \A k, l \in Keys : /\ l \in cs[k] <=> N[k] # NoHandle /\ N[l] # NoHandle /\ N[l] \in ch[N[k]]
                         /\ l \in ps[k] <=> N[k] # NoHandle /\ N[l] # NoHandle /\ N[l] \in pa[N[k]]
  BY <1>0, KeysOfMeans
<1>5. \A k \in Keys : cs[k] \subseteq Keys /\ ps[k] \subseteq Keys
  BY <1>0, KeysOfMeans
<1>6. cs \in [Keys -> SUBSET Keys] /\ ps \in [Keys -> SUBSET Keys]
  BY <1>5
<1>7. held \subseteq Keys
  OBVIOUS
<1> HIDE DEF s, held, rt, vl, ps, cs
<1>8. s \in Structures
  BY <1>0, <1>1, <1>2, <1>3, <1>6, <1>7 DEF Structures
<1> QED
  BY <1>1, <1>4, <1>8 DEF Child, Parent, s, held, rt, vl

(* Two structures with the same parts are the same.                        *)
LEMMA SameParts ==
  ASSUME NEW s \in Structures, NEW t \in Structures,
         s.nodes = t.nodes, s.root = t.root, s.mode = t.mode, s.hasFirst = t.hasFirst,
         s.value = t.value,
         \A x, y \in Keys : /\ Child(s, x, y) <=> Child(t, x, y)
                            /\ Parent(s, x, y) <=> Parent(t, x, y)
  PROVE  s = t
<1>1. /\ s.children \in [Keys -> SUBSET Keys] /\ t.children \in [Keys -> SUBSET Keys]
      /\ s.parents \in [Keys -> SUBSET Keys] /\ t.parents \in [Keys -> SUBSET Keys]
  BY DEF Structures
<1>2. ASSUME NEW x \in Keys
      PROVE  s.children[x] = t.children[x] /\ s.parents[x] = t.parents[x]
  <2>1. /\ s.children[x] \subseteq Keys /\ t.children[x] \subseteq Keys
        /\ s.parents[x] \subseteq Keys /\ t.parents[x] \subseteq Keys
    BY <1>1
  <2>2. \A y \in Keys : /\ y \in s.children[x] <=> y \in t.children[x]
                        /\ y \in s.parents[x] <=> y \in t.parents[x]
    BY DEF Child, Parent
  <2> QED
    BY <2>1, <2>2
<1>3. s.children = t.children /\ s.parents = t.parents
  BY <1>1, <1>2
<1> QED
  BY <1>3 DEF Structures

-----------------------------------------------------------------------------
(* Linking.  LinkTo does to the children what it does to the parents, with *)
(* the two sets of keys exchanged.                                         *)

LinkedSets(N, h, P, Q, sets) ==
  LET near == {N[p] : p \in P}
      far  == {N[q] : q \in Q}
  IN  [x \in Handles |-> IF x = h THEN Join(sets[h], far)
                         ELSE IF x \in near THEN Join(sets[x], {h})
                         ELSE sets[x]]

HeldBy(N) == {k \in Keys : N[k] # NoHandle}

LEMMA LinkToMeans ==
  ASSUME NEW o, NEW h, NEW P, NEW Q, LinkTo(o, h, P, Q)
  PROVE  /\ children' = LinkedSets(nodes[o], h, P, Q, children)
         /\ parents' = LinkedSets(nodes[o], h, Q, P, parents)
  BY DEF LinkTo, LinkedSets

LEMMA JoinMeans ==
  ASSUME NEW S, NEW h
  PROVE  /\ Join(S, {}) = S
         /\ KeyOf[h] \notin KeysOf(S) => Join(S, {h}) = S \cup {h}
         /\ \A T : Join({}, T) = T
  BY DEF Join, KeysOf

LEMMA NothingLinked ==
  ASSUME NEW N, NEW h, NEW sets \in Sets
  PROVE  LinkedSets(N, h, {}, {}, sets) = sets
<1> DEFINE far == {N[q] : q \in {}}
           near == {N[p] : p \in {}}
<1>1. far = {} /\ near = {}
  OBVIOUS
<1>2. LinkedSets(N, h, {}, {}, sets) = [x \in Handles |-> IF x = h THEN Join(sets[h], far)
                                         ELSE IF x \in near THEN Join(sets[x], {h})
                                         ELSE sets[x]]
  BY DEF LinkedSets
<1> HIDE DEF far, near
<1>3. \A x \in Handles : LinkedSets(N, h, {}, {}, sets)[x] = sets[x]
  BY <1>1, <1>2, JoinMeans
<1> QED
  BY <1>2, <1>3 DEF Sets

(* What linking h makes of the sets.                                       *)
GainsLinks(N, h, P, Q, sets, T) ==
  /\ T \in Sets
  /\ T[h] = {N[q] : q \in Q}
  /\ \A l \in HeldBy(N) : T[N[l]] = IF l \in P THEN sets[N[l]] \cup {h} ELSE sets[N[l]]
  /\ \A x \in Handles : x # h /\ x \notin Range(N) => T[x] = sets[x]

(* A new object that is linked to objects of the structure.                *)
LEMMA NewLinked ==
  ASSUME NEW N, NEW pa, NEW ch, Laid(N, pa, ch), NEW sets, sets = pa \/ sets = ch,
         NEW h \in Handles, KeyOf[h] \in Keys, N[KeyOf[h]] = NoHandle, sets[h] = {},
         NEW P \in SUBSET HeldBy(N), NEW Q \in SUBSET HeldBy(N)
  PROVE  /\ GainsLinks(N, h, P, Q, sets, LinkedSets(N, h, P, Q, sets))
         /\ \A l \in HeldBy(N) : N[l] # h
<1> DEFINE T == LinkedSets(N, h, P, Q, sets)
           near == {N[p] : p \in P}
           far == {N[q] : q \in Q}
<1>1. T = [x \in Handles |-> IF x = h THEN Join(sets[h], far)
                             ELSE IF x \in near THEN Join(sets[x], {h})
                             ELSE sets[x]]
  BY DEF LinkedSets
<1>2. \A l \in HeldBy(N) : N[l] \in Handles /\ KeyOf[N[l]] = l /\ N[l] # h
  BY HeldObject DEF HeldBy
<1>3. near \subseteq Handles /\ far \subseteq Handles
  BY <1>2
<1>4. sets \in Sets
  BY DEF Laid
<1>5. \A x : near = near /\ (x \in near <=> \E p \in P : x = N[p])
  OBVIOUS
<1> HIDE DEF T, near
<1>6. T[h] = far
  BY <1>1, JoinMeans
<1>7. ASSUME NEW l \in HeldBy(N)
      PROVE  T[N[l]] = IF l \in P THEN sets[N[l]] \cup {h} ELSE sets[N[l]]
  <2>1. N[l] \in near <=> l \in P
    BY <1>2, <1>5
  <2>2. l \in Keys /\ N[l] # NoHandle
    BY DEF HeldBy
  <2>3. KeyOf[h] \notin KeysOf(sets[N[l]])
    BY <2>2, KeysOfMeans
  <2>4. Join(sets[N[l]], {h}) = sets[N[l]] \cup {h}
    BY <2>3, JoinMeans
  <2> QED
    BY <1>1, <1>2, <2>1, <2>4
<1>8. \A x \in Handles : x # h /\ x \notin Range(N) => T[x] = sets[x]
  <2>1. near \subseteq Range(N)
    BY <1>5 DEF Range, HeldBy, Laid
  <2> QED
    BY <1>1, <2>1
<1>9. T \in Sets
  <2>1. ASSUME NEW x \in Handles
        PROVE  T[x] \in SUBSET Handles
    <3>1. \A S \in SUBSET Handles : Join(S, {h}) \in SUBSET Handles
      BY DEF Join
    <3> QED
      BY <1>1, <1>3, <1>4, <1>6, <3>1 DEF Sets
  <2> QED
    BY <1>1, <2>1 DEF Sets
<1> QED
  BY <1>2, <1>6, <1>7, <1>8, <1>9 DEF T, GainsLinks

(* How a structure shows that an object was put into it, that two of its   *)
(* objects were linked, and that one was taken out.                        *)
InsertShown(N, r, m, f, pa, ch, h, P, Q) ==
  LET N2 == [N EXCEPT ![KeyOf[h]] = h]
      pa2 == LinkedSets(N, h, Q, P, pa)
      ch2 == LinkedSets(N, h, P, Q, ch)
  IN  /\ Laid(N2, pa2, ch2)
      /\ Seen(N2, r, m, TRUE, pa2, ch2) =
           InsertLinked(Seen(N, r, m, f, pa, ch), KeyOf[h], TheValue, P, Q)

EdgeShown(N, r, m, f, pa, ch, p, c) ==
  LET pa2 == LinkedSets(N, N[p], {c}, {}, pa)
      ch2 == LinkedSets(N, N[p], {}, {c}, ch)
  IN  /\ Laid(N, pa2, ch2)
      /\ Seen(N, r, m, f, pa2, ch2) = AddChild(Seen(N, r, m, f, pa, ch), p, c)
      /\ \A x \in Handles : x \notin Range(N) => pa2[x] = pa[x] /\ ch2[x] = ch[x]

DeleteShown(N, r, m, f, pa, ch, k) ==
  LET N2 == [N EXCEPT ![k] = NoHandle]
      r2 == IF r # NoHandle /\ KeyOf[r] = k THEN NoHandle ELSE r
      f2 == FlagAfterDelete(Seen(N, r, m, f, pa, ch), k)
      pa2 == Unlinked(pa, ch[N[k]], k)
      ch2 == Unlinked(ch, pa[N[k]], k)
  IN  /\ Laid(N2, pa2, ch2)
      /\ RootFits(r2)
      /\ Seen(N2, r2, m, f2, pa2, ch2) = DeleteNode(Seen(N, r, m, f, pa, ch), k)
      /\ \A x \in Handles : x \notin Range(N) => pa2[x] = pa[x] /\ ch2[x] = ch[x]

LEMMA InsertSeen ==
  ASSUME NEW N, NEW r, NEW m, NEW f, NEW pa, NEW ch, Fits(N, r, m, f, pa, ch),
         NEW h \in Handles, KeyOf[h] \in Keys, N[KeyOf[h]] = NoHandle,
         pa[h] = {}, ch[h] = {},
         NEW P \in Linkable(N), NEW Q \in Linkable(N)
  PROVE  InsertShown(N, r, m, f, pa, ch, h, P, Q)
<1> DEFINE k == KeyOf[h]
           N2 == [N EXCEPT ![k] = h]
           pa2 == LinkedSets(N, h, Q, P, pa)
           ch2 == LinkedSets(N, h, P, Q, ch)
           s == Seen(N, r, m, f, pa, ch)
           t == Seen(N2, r, m, TRUE, pa2, ch2)
           u == InsertLinked(s, k, TheValue, P, Q)
<1> Laid(N, pa, ch) /\ RootFits(r) /\ m \in Modes /\ f \in BOOLEAN
  BY DEF Fits
<1> P \in SUBSET HeldBy(N) /\ Q \in SUBSET HeldBy(N)
  BY DEF Linkable, HeldBy
<1>0. h # NoHandle
  BY HandlesAssumption
<1>1. /\ ch2 \in Sets
      /\ ch2[h] = {N[q] : q \in Q}
      /\ \A l \in HeldBy(N) : N[l] # h /\ ch2[N[l]] = IF l \in P THEN ch[N[l]] \cup {h} ELSE ch[N[l]]
  <2>1. GainsLinks(N, h, P, Q, ch, ch2) /\ \A l \in HeldBy(N) : N[l] # h
    BY NewLinked
  <2> QED
    BY ONLY <2>1 DEF GainsLinks
<1>2. /\ pa2 \in Sets
      /\ pa2[h] = {N[p] : p \in P}
      /\ \A l \in HeldBy(N) : pa2[N[l]] = IF l \in Q THEN pa[N[l]] \cup {h} ELSE pa[N[l]]
  <2>1. GainsLinks(N, h, Q, P, pa, pa2)
    BY NewLinked
  <2> QED
    BY ONLY <2>1 DEF GainsLinks
<1> HIDE DEF ch2, pa2
<1>3. /\ N2 \in [Keys -> Handles \cup {NoHandle}]
      /\ N2[k] = h
      /\ \A l \in Keys : l # k => N2[l] = N[l]
      /\ N \in [Keys -> Handles \cup {NoHandle}]
  BY DEF Laid
<1> HIDE DEF N2
<1>4. /\ h \in Range(N2)
      /\ \A x \in Range(N) : x # NoHandle => x \in Range(N2)
      /\ \A l \in HeldBy(N) : N[l] \in Range(N2)
  BY <1>3 DEF Range, HeldBy
<1>5. Laid(N2, pa2, ch2)
  <2>1. ASSUME NEW l \in Keys, N2[l] # NoHandle
        PROVE  KeyOf[N2[l]] = l /\ pa2[N2[l]] \cup ch2[N2[l]] \subseteq Range(N2)
    <3>1. CASE l = k
      BY <1>1, <1>2, <1>3, <1>4, <3>1
    <3>2. CASE l # k
      <4>1. N2[l] = N[l] /\ N[l] # NoHandle /\ l \in HeldBy(N)
        BY <1>3, <2>1, <3>2 DEF HeldBy
      <4>2. /\ KeyOf[N[l]] = l
            /\ pa[N[l]] \cup ch[N[l]] \subseteq Range(N) \ {NoHandle}
        BY <4>1, HeldObject, HandlesAssumption DEF Laid
      <4>3. pa2[N[l]] \cup ch2[N[l]] \subseteq pa[N[l]] \cup ch[N[l]] \cup {h}
        BY <1>1, <1>2, <4>1
      <4> QED
        BY <1>4, <4>1, <4>2, <4>3
    <3> QED
      BY <3>1, <3>2
  <2> QED
    BY <1>1, <1>2, <1>3, <2>1 DEF Laid
<1>6. /\ s \in Structures
      /\ s.nodes = HeldBy(N)
      /\ s.root = IF r = NoHandle THEN NoRoot ELSE KeyOf[r]
      /\ s.mode = m
      /\ s.value = [l \in Keys |-> IF N[l] # NoHandle THEN TheValue ELSE NoValue]
      /\ \A x, y \in Keys :
           /\ Child(s, x, y) <=> N[x] # NoHandle /\ N[y] # NoHandle /\ N[y] \in ch[N[x]]
           /\ Parent(s, x, y) <=> N[x] # NoHandle /\ N[y] # NoHandle /\ N[y] \in pa[N[x]]
  BY SeenFields DEF HeldBy
<1>7. /\ t \in Structures
      /\ t.nodes = HeldBy(N2)
      /\ t.root = IF r = NoHandle THEN NoRoot ELSE KeyOf[r]
      /\ t.mode = m
      /\ t.hasFirst = TRUE
      /\ t.value = [l \in Keys |-> IF N2[l] # NoHandle THEN TheValue ELSE NoValue]
      /\ \A x, y \in Keys :
           /\ Child(t, x, y) <=> N2[x] # NoHandle /\ N2[y] # NoHandle /\ N2[y] \in ch2[N2[x]]
           /\ Parent(t, x, y) <=> N2[x] # NoHandle /\ N2[y] # NoHandle /\ N2[y] \in pa2[N2[x]]
  BY <1>5, SeenFields, ZenonT(30) DEF HeldBy, Fits
<1> HIDE DEF s, t
<1>8. P \in KeySets /\ Q \in KeySets /\ k \notin P /\ k \notin Q
  BY DEF KeySets, HeldBy
<1>9. /\ u \in Structures
      /\ u.nodes = s.nodes \cup {k}
      /\ u.root = s.root
      /\ u.mode = s.mode
      /\ FlagExact(u)
      /\ u.value = [s.value EXCEPT ![k] = TheValue]
  BY <1>6, <1>8, TheValueIsOne, InsertLinkedFields, InsertLinkedValue
<1>10. \A x, y \in Keys : /\ Child(u, x, y) <=> \/ Child(s, x, y)
                                                \/ x \in P \ {k} /\ y = k
                                                \/ x = k /\ y \in Q \ {k}
                          /\ Parent(u, x, y) <=> \/ Parent(s, x, y)
                                                 \/ x \in Q \ {k} /\ y = k
                                                 \/ x = k /\ y \in P \ {k}
  BY <1>6, <1>8, TheValueIsOne, InsertLinkedLinks
<1> HIDE DEF u
<1>11. t.nodes = u.nodes /\ t.root = u.root /\ t.mode = u.mode
  <2>1. HeldBy(N2) = HeldBy(N) \cup {k}
    BY <1>0, <1>3 DEF HeldBy
  <2> QED
    BY <1>6, <1>7, <1>9, <2>1
<1>12. t.hasFirst = u.hasFirst
  <2>1. u.hasFirst \in BOOLEAN
    BY <1>9 DEF Structures
  <2>2. u.hasFirst
    BY <1>9 DEF FlagExact
  <2> QED
    BY <1>7, <2>1, <2>2
<1>13. t.value = u.value
  BY <1>0, <1>3, <1>6, <1>7, <1>9
<1>14. ASSUME NEW x \in Keys, NEW y \in Keys
       PROVE  /\ Child(t, x, y) <=> Child(u, x, y)
              /\ Parent(t, x, y) <=> Parent(u, x, y)
  <2>1. CASE x = k
    <3>1. /\ Child(t, x, y) <=> N2[y] # NoHandle /\ N2[y] \in {N[q] : q \in Q}
          /\ Parent(t, x, y) <=> N2[y] # NoHandle /\ N2[y] \in {N[p] : p \in P}
      BY <1>0, <1>1, <1>2, <1>3, <1>7, <2>1
    <3>2. /\ Child(u, x, y) <=> y \in Q
          /\ Parent(u, x, y) <=> y \in P
      BY <1>6, <1>8, <1>10, <2>1
    <3>3. ASSUME NEW R \in SUBSET HeldBy(N)
          PROVE  N2[y] # NoHandle /\ N2[y] \in {N[q] : q \in R} <=> y \in R
      <4>1. CASE y = k
        <5>1. \A q \in R : q \in HeldBy(N) /\ N[q] # h
          BY <1>1
        <5>2. k \notin R
          BY DEF HeldBy
        <5> QED
          BY <1>3, <4>1, <5>1, <5>2
      <4>2. CASE y # k
        <5>1. N2[y] = N[y]
          BY <1>3, <4>2
        <5>2. \A q \in R : N[q] # NoHandle /\ KeyOf[N[q]] = q
          BY HeldObject DEF HeldBy
        <5>3. N[y] # NoHandle => KeyOf[N[y]] = y
          BY HeldObject
        <5> QED
          BY <5>1, <5>2, <5>3
      <4> QED
        BY <4>1, <4>2
    <3> QED
      BY <3>1, <3>2, <3>3
  <2>2. CASE x # k /\ x \notin HeldBy(N)
    BY <1>3, <1>6, <1>7, <1>10, <2>2 DEF HeldBy
  <2>3. CASE x # k /\ x \in HeldBy(N)
    <3>1. N2[x] = N[x] /\ N[x] # NoHandle
      BY <1>3, <2>3 DEF HeldBy
    <3>2. /\ ch2[N[x]] = IF x \in P THEN ch[N[x]] \cup {h} ELSE ch[N[x]]
          /\ pa2[N[x]] = IF x \in Q THEN pa[N[x]] \cup {h} ELSE pa[N[x]]
      BY <1>1, <1>2, <2>3
    <3>3. CASE y = k
      <4>1. h \notin ch[N[x]] /\ h \notin pa[N[x]]
        BY <1>0, <3>1, HeldObject
      <4>2. ~Child(s, x, y) /\ ~Parent(s, x, y)
        BY <1>6, <3>3
      <4> QED
        BY <1>0, <1>3, <1>7, <1>8, <1>10, <2>3, <3>1, <3>2, <3>3, <4>1, <4>2
    <3>4. CASE y # k
      <4>1. N2[y] = N[y]
        BY <1>3, <3>4
      <4>2. N[y] # NoHandle => N[y] # h
        BY <1>1 DEF HeldBy
      <4> QED
        BY <1>6, <1>7, <1>10, <2>3, <3>1, <3>2, <3>4, <4>1, <4>2
    <3> QED
      BY <3>3, <3>4
  <2> QED
    BY <2>1, <2>2, <2>3
<1>15. t = u
  BY <1>7, <1>9, <1>11, <1>12, <1>13, <1>14, SameParts
<1> QED
  BY <1>5, <1>15 DEF t, u, s, N2, pa2, ch2, InsertShown

(* What happens to objects of other structures, or of none, shows nowhere. *)
LEMMA FrameSeen ==
  ASSUME NEW N, NEW pa, NEW ch, Laid(N, pa, ch), NEW pa2 \in Sets, NEW ch2 \in Sets,
         \A k \in HeldBy(N) : pa2[N[k]] = pa[N[k]] /\ ch2[N[k]] = ch[N[k]]
  PROVE  /\ Laid(N, pa2, ch2)
         /\ \A r, m, f : Seen(N, r, m, f, pa2, ch2) = Seen(N, r, m, f, pa, ch)
<1>1. Laid(N, pa2, ch2)
  BY DEF Laid, HeldBy
<1> DEFINE ends(sets) == [k \in Keys |-> IF k \in HeldBy(N) THEN KeysOf(sets[N[k]]) ELSE {}]
<1>2. ends(pa2) = ends(pa) /\ ends(ch2) = ends(ch)
  OBVIOUS
<1>3. \A r, m, f, a, b :
        Seen(N, r, m, f, a, b) =
          [root |-> IF r = NoHandle THEN NoRoot ELSE KeyOf[r],
           nodes |-> HeldBy(N), mode |-> m, hasFirst |-> f,
           value |-> [k \in Keys |-> IF k \in HeldBy(N) THEN TheValue ELSE NoValue],
           parents |-> ends(a), children |-> ends(b)]
  BY DEF Seen, HeldBy
<1> HIDE DEF ends
<1> QED
  BY <1>1, <1>2, <1>3

(* Two objects of the structure are linked.                                *)
LEMMA EdgeSeen ==
  ASSUME NEW N, NEW r, NEW m, NEW f, NEW pa, NEW ch, Fits(N, r, m, f, pa, ch),
         NEW p \in HeldBy(N), NEW c \in HeldBy(N), p # c,
         ~Child(Seen(N, r, m, f, pa, ch), p, c), ~Parent(Seen(N, r, m, f, pa, ch), c, p)
  PROVE  EdgeShown(N, r, m, f, pa, ch, p, c)
<1> DEFINE pa2 == LinkedSets(N, N[p], {c}, {}, pa)
           ch2 == LinkedSets(N, N[p], {}, {c}, ch)
           s == Seen(N, r, m, f, pa, ch)
           t == Seen(N, r, m, f, pa2, ch2)
           u == AddChild(s, p, c)
<1> Laid(N, pa, ch) /\ RootFits(r) /\ m \in Modes /\ f \in BOOLEAN
  BY DEF Fits
<1>1. /\ p \in Keys /\ N[p] # NoHandle
      /\ c \in Keys /\ N[c] # NoHandle
  BY DEF HeldBy
<1> N[c] \notin ch[N[p]] /\ N[p] \notin pa[N[c]]
  BY <1>1, SeenFields
<1>2. /\ N[p] \in Handles /\ N[c] \in Handles /\ N[p] # N[c]
      /\ N[p] \in Range(N) /\ N[c] \in Range(N)
      /\ pa \in Sets /\ ch \in Sets
  BY <1>1, HeldObject DEF Laid, Range
<1>3. /\ Join(ch[N[p]], {N[c]}) = ch[N[p]] \cup {N[c]}
      /\ Join(pa[N[c]], {N[p]}) = pa[N[c]] \cup {N[p]}
  <2>1. c \notin KeysOf(ch[N[p]]) /\ p \notin KeysOf(pa[N[c]])
    BY <1>1, KeysOfMeans
  <2>2. KeyOf[N[p]] = p /\ KeyOf[N[c]] = c
    BY <1>1, HeldObject
  <2> QED
    BY <2>1, <2>2, JoinMeans
<1>4. /\ ch2 \in Sets
      /\ \A x \in Handles : ch2[x] = IF x = N[p] THEN ch[x] \cup {N[c]} ELSE ch[x]
  <2>1. ch2 = [x \in Handles |-> IF x = N[p] THEN ch[N[p]] \cup {N[c]} ELSE ch[x]]
    <3>1. {N[q] : q \in {c}} = {N[c]} /\ {N[q] : q \in {}} = {}
      OBVIOUS
    <3> QED
      BY <1>3, <3>1 DEF LinkedSets
  <2> HIDE DEF ch2
  <2> QED
    BY <1>2, <2>1 DEF Sets
<1>5. /\ pa2 \in Sets
      /\ \A x \in Handles : pa2[x] = IF x = N[c] THEN pa[x] \cup {N[p]} ELSE pa[x]
  <2>1. pa2 = [x \in Handles |-> IF x = N[p] THEN pa[N[p]]
                                 ELSE IF x = N[c] THEN pa[N[c]] \cup {N[p]} ELSE pa[x]]
    <3>1. {N[q] : q \in {c}} = {N[c]} /\ {N[q] : q \in {}} = {}
      OBVIOUS
    <3>2. Join(pa[N[p]], {}) = pa[N[p]]
      BY JoinMeans
    <3> QED
      BY <1>3, <3>1, <3>2 DEF LinkedSets
  <2> HIDE DEF pa2
  <2> QED
    BY <1>2, <2>1 DEF Sets
<1> HIDE DEF ch2, pa2
<1>6. Laid(N, pa2, ch2)
  <2>1. ASSUME NEW k \in Keys, N[k] # NoHandle
        PROVE  KeyOf[N[k]] = k /\ pa2[N[k]] \cup ch2[N[k]] \subseteq Range(N)
    <3>1. N[k] \in Handles /\ KeyOf[N[k]] = k
      BY <2>1, HeldObject
    <3>2. pa[N[k]] \cup ch[N[k]] \subseteq Range(N)
      BY <2>1 DEF Laid
    <3>3. /\ ch2[N[k]] \subseteq ch[N[k]] \cup {N[c]}
          /\ pa2[N[k]] \subseteq pa[N[k]] \cup {N[p]}
      BY <1>4, <1>5, <3>1
    <3> QED
      BY <1>2, <3>1, <3>2, <3>3
  <2> QED
    BY <1>4, <1>5, <2>1 DEF Laid
<1>7. /\ s \in Structures
      /\ s.nodes = HeldBy(N)
      /\ s.root = IF r = NoHandle THEN NoRoot ELSE KeyOf[r]
      /\ s.mode = m
      /\ s.hasFirst = f
      /\ s.value = [l \in Keys |-> IF N[l] # NoHandle THEN TheValue ELSE NoValue]
      /\ \A x, y \in Keys :
           /\ Child(s, x, y) <=> N[x] # NoHandle /\ N[y] # NoHandle /\ N[y] \in ch[N[x]]
           /\ Parent(s, x, y) <=> N[x] # NoHandle /\ N[y] # NoHandle /\ N[y] \in pa[N[x]]
  BY SeenFields DEF HeldBy
<1>8. /\ t \in Structures
      /\ t.nodes = HeldBy(N)
      /\ t.root = IF r = NoHandle THEN NoRoot ELSE KeyOf[r]
      /\ t.mode = m
      /\ t.hasFirst = f
      /\ t.value = [l \in Keys |-> IF N[l] # NoHandle THEN TheValue ELSE NoValue]
      /\ \A x, y \in Keys :
           /\ Child(t, x, y) <=> N[x] # NoHandle /\ N[y] # NoHandle /\ N[y] \in ch2[N[x]]
           /\ Parent(t, x, y) <=> N[x] # NoHandle /\ N[y] # NoHandle /\ N[y] \in pa2[N[x]]
  BY <1>6, SeenFields DEF HeldBy, Fits
<1> HIDE DEF s, t
<1>9. /\ u \in Structures
      /\ u.nodes = s.nodes
      /\ u.root = s.root
      /\ u.mode = s.mode
      /\ u.value = s.value
  BY <1>1, <1>7, AddChildFields
<1>10. u.hasFirst = s.hasFirst
  BY <1>7 DEF AddChild, Structures
<1>11. \A x, y \in Keys : /\ Child(u, x, y) <=> Child(s, x, y) \/ (x = p /\ y = c)
                          /\ Parent(u, x, y) <=> Parent(s, x, y) \/ (x = c /\ y = p)
  BY <1>1, <1>7, AddChildLinks
<1> HIDE DEF u
<1>12. ASSUME NEW x \in Keys, NEW y \in Keys
       PROVE  /\ Child(t, x, y) <=> Child(u, x, y)
              /\ Parent(t, x, y) <=> Parent(u, x, y)
  <2>1. \A k \in Keys : N[k] # NoHandle => N[k] \in Handles /\ KeyOf[N[k]] = k
    BY HeldObject
  <2>2. \A k, l \in Keys : N[k] # NoHandle /\ N[l] # NoHandle => (N[k] = N[l] <=> k = l)
    BY <2>1
  <2>3. CASE N[x] # NoHandle /\ N[y] # NoHandle
    <3>1. /\ N[y] \in ch2[N[x]] <=> N[y] \in ch[N[x]] \/ (x = p /\ y = c)
          /\ N[y] \in pa2[N[x]] <=> N[y] \in pa[N[x]] \/ (x = c /\ y = p)
      <4>1. N[x] \in Handles /\ (N[x] = N[p] <=> x = p) /\ (N[x] = N[c] <=> x = c)
        BY <1>1, <2>1, <2>2, <2>3
      <4>2. (N[y] = N[p] <=> y = p) /\ (N[y] = N[c] <=> y = c)
        BY <1>1, <2>2, <2>3
      <4>3. N[y] \in ch2[N[x]] <=> N[y] \in ch[N[x]] \/ (x = p /\ y = c)
        BY <1>4, <4>1, <4>2
      <4>4. N[y] \in pa2[N[x]] <=> N[y] \in pa[N[x]] \/ (x = c /\ y = p)
        BY <1>5, <4>1, <4>2
      <4> QED
        BY <4>3, <4>4
    <3> QED
      BY <1>7, <1>8, <1>11, <2>3, <3>1
  <2>4. CASE N[x] = NoHandle \/ N[y] = NoHandle
    BY <1>1, <1>7, <1>8, <1>11, <2>4
  <2> QED
    BY <2>3, <2>4
<1>13. t = u
  BY <1>7, <1>8, <1>9, <1>10, <1>12, SameParts
<1> QED
  BY <1>2, <1>4, <1>5, <1>6, <1>13 DEF t, u, s, ch2, pa2, EdgeShown

(* An object is taken out of the structure and of its neighbours' sets.    *)
LEMMA DeleteSeen ==
  ASSUME NEW N, NEW r, NEW m, NEW f, NEW pa, NEW ch, Fits(N, r, m, f, pa, ch),
         NEW k \in HeldBy(N), Mirrored(Seen(N, r, m, f, pa, ch))
  PROVE  DeleteShown(N, r, m, f, pa, ch, k)
<1> DEFINE N2 == [N EXCEPT ![k] = NoHandle]
           r2 == IF r # NoHandle /\ KeyOf[r] = k THEN NoHandle ELSE r
           pa2 == Unlinked(pa, ch[N[k]], k)
           ch2 == Unlinked(ch, pa[N[k]], k)
           s == Seen(N, r, m, f, pa, ch)
           f2 == FlagAfterDelete(s, k)
           t == Seen(N2, r2, m, f2, pa2, ch2)
           u == DeleteNode(s, k)
<1> Laid(N, pa, ch) /\ RootFits(r) /\ m \in Modes /\ f \in BOOLEAN
  BY DEF Fits
<1>1. k \in Keys /\ N[k] # NoHandle /\ N[k] \in Handles
  BY HeldObject DEF HeldBy
<1>2. /\ pa \in Sets /\ ch \in Sets
      /\ N \in [Keys -> Handles \cup {NoHandle}]
      /\ \A l \in Keys : N[l] # NoHandle => pa[N[l]] \cup ch[N[l]] \subseteq Range(N)
  BY DEF Laid
<1>3. /\ N2 \in [Keys -> Handles \cup {NoHandle}]
      /\ N2[k] = NoHandle
      /\ \A l \in Keys : l # k => N2[l] = N[l]
  BY <1>1, <1>2
<1>4. /\ ch2 \in Sets
      /\ \A x \in Handles :
           ch2[x] = IF x \in pa[N[k]] THEN {y \in ch[x] : KeyOf[y] # k} ELSE ch[x]
  BY <1>2 DEF Unlinked, Sets
<1>5. /\ pa2 \in Sets
      /\ \A x \in Handles :
           pa2[x] = IF x \in ch[N[k]] THEN {y \in pa[x] : KeyOf[y] # k} ELSE pa[x]
  BY <1>2 DEF Unlinked, Sets
<1> HIDE DEF N2, pa2, ch2
<1>6. /\ s \in Structures
      /\ s.nodes = HeldBy(N)
      /\ s.root = IF r = NoHandle THEN NoRoot ELSE KeyOf[r]
      /\ s.mode = m
      /\ s.value = [l \in Keys |-> IF N[l] # NoHandle THEN TheValue ELSE NoValue]
      /\ \A x, y \in Keys :
           /\ Child(s, x, y) <=> N[x] # NoHandle /\ N[y] # NoHandle /\ N[y] \in ch[N[x]]
           /\ Parent(s, x, y) <=> N[x] # NoHandle /\ N[y] # NoHandle /\ N[y] \in pa[N[x]]
  BY SeenFields DEF HeldBy
<1>7. f2 \in BOOLEAN /\ RootFits(r2)
  BY DEF FlagAfterDelete, RootFits
<1> HIDE DEF f2, r2, s
<1>8. \A x, y \in Keys : Child(s, x, y) <=> Parent(s, y, x)
  BY MirroredMeans DEF s
<1>9. \A l \in Keys : N[l] # NoHandle => N[l] \in Handles /\ KeyOf[N[l]] = l
  BY HeldObject
<1>10. ASSUME NEW x \in Keys, x # k, N[x] # NoHandle
       PROVE  /\ ch2[N[x]] = ch[N[x]] \ {N[k]}
              /\ pa2[N[x]] = pa[N[x]] \ {N[k]}
  <2>1. \A y \in pa[N[x]] \cup ch[N[x]] : KeyOf[y] \in Keys /\ N[KeyOf[y]] = y
    BY <1>10, HeldObject
  <2>2. /\ N[x] \in pa[N[k]] <=> N[k] \in ch[N[x]]
        /\ N[x] \in ch[N[k]] <=> N[k] \in pa[N[x]]
    BY <1>1, <1>6, <1>8, <1>10
  <2>3. N[x] \in Handles /\ KeyOf[N[k]] = k
    BY <1>1, <1>9, <1>10
  <2>4. \A y \in pa[N[x]] \cup ch[N[x]] : KeyOf[y] = k <=> y = N[k]
    BY <2>1, <2>3
  <2>5. ch2[N[x]] = ch[N[x]] \ {N[k]}
    <3>1. CASE N[x] \in pa[N[k]]
      BY <1>4, <2>3, <2>4, <3>1
    <3>2. CASE N[x] \notin pa[N[k]]
      BY <1>4, <2>2, <2>3, <3>2
    <3> QED
      BY <3>1, <3>2
  <2>6. pa2[N[x]] = pa[N[x]] \ {N[k]}
    <3>1. CASE N[x] \in ch[N[k]]
      BY <1>5, <2>3, <2>4, <3>1
    <3>2. CASE N[x] \notin ch[N[k]]
      BY <1>5, <2>2, <2>3, <3>2
    <3> QED
      BY <3>1, <3>2
  <2> QED
    BY <2>5, <2>6
<1>11. Laid(N2, pa2, ch2)
  <2>1. \A y \in Range(N) : y # N[k] => y \in Range(N2)
    BY <1>2, <1>3 DEF Range
  <2>2. ASSUME NEW l \in Keys, N2[l] # NoHandle
        PROVE  KeyOf[N2[l]] = l /\ pa2[N2[l]] \cup ch2[N2[l]] \subseteq Range(N2)
    <3>1. l # k /\ N2[l] = N[l] /\ N[l] # NoHandle
      BY <1>3, <2>2
    <3>2. pa[N[l]] \cup ch[N[l]] \subseteq Range(N)
      BY <1>2, <3>1
    <3> QED
      BY <1>9, <1>10, <2>1, <3>1, <3>2
  <2> QED
    BY <1>3, <1>4, <1>5, <2>2 DEF Laid
<1>12. /\ t \in Structures
       /\ t.nodes = HeldBy(N2)
       /\ t.root = IF r2 = NoHandle THEN NoRoot ELSE KeyOf[r2]
       /\ t.mode = m
       /\ t.hasFirst = f2
       /\ t.value = [l \in Keys |-> IF N2[l] # NoHandle THEN TheValue ELSE NoValue]
       /\ \A x, y \in Keys :
            /\ Child(t, x, y) <=> N2[x] # NoHandle /\ N2[y] # NoHandle /\ N2[y] \in ch2[N2[x]]
            /\ Parent(t, x, y) <=> N2[x] # NoHandle /\ N2[y] # NoHandle /\ N2[y] \in pa2[N2[x]]
  BY <1>7, <1>11, SeenFields DEF HeldBy, Fits
<1> HIDE DEF t
<1>13. /\ u \in Structures
       /\ u.nodes = s.nodes \ {k}
       /\ u.root = IF s.root = k THEN NoRoot ELSE s.root
       /\ u.mode = s.mode
       /\ u.value = [s.value EXCEPT ![k] = NoValue]
  BY <1>1, <1>6, DeleteFields
<1>14. u.hasFirst = f2
  <2>1. Unlink(s, k) \in Structures
    BY <1>1, <1>6, UnlinkFields
  <2> QED
    BY <2>1 DEF DeleteNode, Structures, f2
<1>15. \A x, y \in Keys : /\ Child(u, x, y) <=> /\ Child(s, x, y)
                                                /\ x # k
                                                /\ ~(Parent(s, k, x) /\ y = k)
                          /\ Parent(u, x, y) <=> /\ Parent(s, x, y)
                                                 /\ x # k
                                                 /\ ~(Child(s, k, x) /\ y = k)
  BY <1>1, <1>6, DeleteLinks
<1> HIDE DEF u
<1>16. t.nodes = u.nodes
  <2>1. HeldBy(N2) = HeldBy(N) \ {k}
    BY <1>3 DEF HeldBy
  <2> QED
    BY <1>6, <1>12, <1>13, <2>1
<1>17. t.root = u.root
  <2>1. CASE r = NoHandle
    BY <1>1, <1>6, <1>12, <1>13, <2>1, SentinelsAssumption DEF r2
  <2>2. CASE r # NoHandle
    BY <1>6, <1>12, <1>13, <2>2 DEF r2
  <2> QED
    BY <2>1, <2>2
<1>18. t.value = u.value
  BY <1>1, <1>3, <1>6, <1>12, <1>13
<1>19. ASSUME NEW x \in Keys, NEW y \in Keys
       PROVE  /\ Child(t, x, y) <=> Child(u, x, y)
              /\ Parent(t, x, y) <=> Parent(u, x, y)
  <2>1. CASE x = k
    BY <1>3, <1>12, <1>15, <2>1
  <2>2. CASE y = k
    BY <1>3, <1>8, <1>12, <1>15, <2>2
  <2>3. CASE x # k /\ y # k
    <3>1. N[y] # NoHandle => N[y] # N[k]
      BY <1>1, <1>9, <2>3
    <3>2. N2[x] = N[x] /\ N2[y] = N[y]
      BY <1>3, <2>3
    <3>3. N[x] # NoHandle /\ N[y] # NoHandle =>
            /\ N[y] \in ch2[N[x]] <=> N[y] \in ch[N[x]]
            /\ N[y] \in pa2[N[x]] <=> N[y] \in pa[N[x]]
      BY <1>10, <2>3, <3>1
    <3>4. /\ Child(t, x, y) <=> Child(s, x, y)
          /\ Parent(t, x, y) <=> Parent(s, x, y)
      BY <1>6, <1>12, <3>2, <3>3
    <3> QED
      BY <1>15, <2>3, <3>4
  <2> QED
    BY <2>1, <2>2, <2>3
<1>20. t = u
  <2>1. /\ t \in Structures /\ u \in Structures
        /\ t.mode = u.mode /\ t.hasFirst = u.hasFirst
    BY <1>6, <1>12, <1>13, <1>14
  <2> QED
    BY <2>1, <1>16, <1>17, <1>18, <1>19, SameParts
<1>21. \A x \in Handles : x \notin Range(N) => pa2[x] = pa[x] /\ ch2[x] = ch[x]
  BY <1>1, <1>2, <1>4, <1>5
<1> QED
  BY <1>7, <1>11, <1>20, <1>21 DEF t, u, s, N2, pa2, ch2, f2, r2, DeleteShown

-----------------------------------------------------------------------------
(* One call changes one structure.                                         *)

(* What a structure is, by the invariant.                                  *)
LEMMA OwnerMeans ==
  ASSUME HeapInv, NEW o \in Owners
  PROVE  /\ Laid(nodes[o], parents, children)
         /\ nodes[o] \in [Keys -> Handles \cup {NoHandle}]
         /\ parents \in Sets
         /\ children \in Sets
         /\ root[o] \in Handles \cup {NoHandle}
         /\ RootFits(root[o])
         /\ mode[o] \in Modes
         /\ hasFirst[o] \in BOOLEAN
         /\ WellFormed(View(o))
         /\ View(o) = Seen(nodes[o], root[o], mode[o], hasFirst[o], parents, children)
         /\ Fits(nodes[o], root[o], mode[o], hasFirst[o], parents, children)
         /\ View(o).nodes = HeldBy(nodes[o])
         /\ View(o).mode = mode[o]
         /\ Held(o) = HeldBy(nodes[o])
  BY ViewIsSeen DEF HeapInv, Laid, Seen, HeldBy, Held, Fits

LEMMA OneStructure ==
  ASSUME HeapInv, NEW o \in Owners, NEW N, NEW r, RootFits(r), NEW f \in BOOLEAN,
         nodes' = [nodes EXCEPT ![o] = N],
         root' = [root EXCEPT ![o] = r],
         mode' = mode,
         hasFirst' = [hasFirst EXCEPT ![o] = f],
         Laid(N, parents', children'),
         WellFormed(Seen(N, r, mode[o], f, parents', children')),
         \A x \in Handles : x \in Range(N) => x \in Range(nodes[o]) \/ ~InSome(x),
         \A x \in Handles : InSome(x) /\ x \notin Range(nodes[o]) =>
           parents'[x] = parents[x] /\ children'[x] = children[x]
  PROVE  /\ HeapInv'
         /\ View(o)' = Seen(N, r, mode[o], f, parents', children')
         /\ \A q \in Owners : q # o => View(q)' = View(q)
<1>1. /\ N \in [Keys -> Handles \cup {NoHandle}]
      /\ parents' \in Sets /\ children' \in Sets
  BY DEF Laid
<1>2. /\ nodes \in [Owners -> [Keys -> Handles \cup {NoHandle}]]
      /\ root \in [Owners -> Handles \cup {NoHandle}]
      /\ mode \in [Owners -> Modes]
      /\ hasFirst \in [Owners -> BOOLEAN]
  BY DEF HeapInv
<1>3. /\ nodes' \in [Owners -> [Keys -> Handles \cup {NoHandle}]]
      /\ root' \in [Owners -> Handles \cup {NoHandle}]
      /\ mode' \in [Owners -> Modes]
      /\ hasFirst' \in [Owners -> BOOLEAN]
  BY <1>1, <1>2 DEF RootFits
<1>4. /\ nodes'[o] = N /\ root'[o] = r /\ mode'[o] = mode[o] /\ hasFirst'[o] = f
      /\ \A q \in Owners : q # o => /\ nodes'[q] = nodes[q]
                                    /\ root'[q] = root[q]
                                    /\ hasFirst'[q] = hasFirst[q]
  BY <1>2
<1>5. View(o)' = Seen(N, r, mode[o], f, parents', children')
  BY <1>4, ViewIsSeen
<1>6. \A q \in Owners, k \in Keys : nodes[q][k] # NoHandle =>
        nodes[q][k] \in Handles /\ nodes[q][k] \in Range(nodes[q]) /\ InSome(nodes[q][k])
  BY <1>2 DEF Range, InSome
<1>7. \A q \in Owners, k \in Keys : nodes[q][k] # NoHandle /\ q # o =>
        nodes[q][k] \notin Range(nodes[o])
  BY <1>2 DEF HeapInv, HeldOnce, Range
<1>8. ASSUME NEW q \in Owners, q # o
      PROVE  /\ Laid(nodes'[q], parents', children')
             /\ RootFits(root'[q])
             /\ View(q)' = View(q)
  <2>1. \A k \in HeldBy(nodes[q]) : /\ parents'[nodes[q][k]] = parents[nodes[q][k]]
                                    /\ children'[nodes[q][k]] = children[nodes[q][k]]
    BY <1>6, <1>7, <1>8 DEF HeldBy
  <2>2. Laid(nodes[q], parents, children) /\ RootFits(root[q])
    BY OwnerMeans
  <2>3. /\ Laid(nodes[q], parents', children')
        /\ \A a, b, c : Seen(nodes[q], a, b, c, parents', children')
                          = Seen(nodes[q], a, b, c, parents, children)
    BY <1>1, <2>1, <2>2, FrameSeen
  <2> QED
    BY <1>4, <1>8, <2>2, <2>3, ViewIsSeen
<1>9. HeldOnce'
  <2>1. ASSUME NEW p \in Owners, NEW q \in Owners, NEW k \in Keys, NEW l \in Keys,
               nodes'[p][k] # NoHandle, nodes'[p][k] = nodes'[q][l], p # q
        PROVE  FALSE
    <3>1. ASSUME NEW a \in Owners, a # o, NEW i \in Keys, NEW j \in Keys,
                 nodes[a][i] # NoHandle, nodes[a][i] = N[j]
          PROVE  FALSE
      <4>1. N[j] \in Handles /\ N[j] \in Range(N)
        BY <1>1, <1>6, <3>1 DEF Range
      <4>2. InSome(N[j]) /\ N[j] \notin Range(nodes[o])
        BY <1>6, <1>7, <3>1
      <4> QED
        BY <4>1, <4>2
    <3>2. CASE p = o
      BY <1>4, <2>1, <3>1, <3>2
    <3>3. CASE q = o
      BY <1>4, <2>1, <3>1, <3>3
    <3>4. CASE p # o /\ q # o
      BY <1>4, <2>1, <3>4 DEF HeapInv, HeldOnce
    <3> QED
      BY <3>2, <3>3, <3>4
  <2> QED
    BY <2>1 DEF HeldOnce
<1>10. ASSUME NEW q \in Owners
       PROVE  /\ Laid(nodes'[q], parents', children')
              /\ RootFits(root'[q])
              /\ WellFormed(View(q))'
  <2>1. CASE q = o
    BY <1>4, <1>5, <2>1
  <2>2. CASE q # o
    <3>1. WellFormed(View(q))
      BY OwnerMeans
    <3> QED
      BY <1>8, <2>2, <3>1
  <2> QED
    BY <2>1, <2>2
<1> QED
  BY <1>3, <1>5, <1>8, <1>9, <1>10 DEF HeapInv

(* A new object has a key of its own in no structure.                      *)
LEMMA CleanMeans ==
  ASSUME ~PassesAgain, NEW h \in Handles, Passable(h)
  PROVE  /\ Clean(h)
         /\ ~InSome(h)
         /\ parents[h] = {}
         /\ children[h] = {}
  BY DEF Passable, Clean

LEMMA VerdictOfClean ==
  ASSUME NEW o, NEW h \in Handles, Clean(h)
  PROVE  AddNodeVerdictOf(o, h) = AddNodeVerdict(View(o), KeyOf[h])
<1>1. KeysOf(parents[h]) = {} /\ KeysOf(children[h]) = {}
  BY DEF Clean, KeysOf
<1>2. View(o).nodes = Held(o) /\ View(o).mode = mode[o]
  BY DEF View
<1> QED
  BY <1>1, <1>2 DEF AddNodeVerdictOf, AddNodeVerdict

LEMMA RenewKeeps ==
  ASSUME HeapInv, NEW h \in Handles, Renew(h)
  PROVE  HeapInv' /\ \A o \in Owners : View(o)' = View(o)
<1>1. UNCHANGED <<nodes, root, mode, hasFirst>>
  BY DEF Renew
<1>2. ASSUME NEW o \in Owners
      PROVE  Laid(nodes[o], parents', children') /\ View(o)' = View(o)
  <2>1. Laid(nodes[o], parents, children) /\ parents \in Sets /\ children \in Sets
    BY OwnerMeans
  <2>2. parents' \in Sets /\ children' \in Sets
    BY <2>1 DEF Renew, Sets
  <2>3. \A k \in HeldBy(nodes[o]) : nodes[o][k] # h
    <3>1. nodes[o] \in [Keys -> Handles \cup {NoHandle}]
      BY OwnerMeans
    <3> QED
      BY <3>1 DEF Renew, InSome, Range, HeldBy
  <2>4. \A k \in HeldBy(nodes[o]) : /\ parents'[nodes[o][k]] = parents[nodes[o][k]]
                                    /\ children'[nodes[o][k]] = children[nodes[o][k]]
    BY <2>1, <2>3 DEF Renew, Sets
  <2>5. /\ Laid(nodes[o], parents', children')
        /\ \A a, b, c : Seen(nodes[o], a, b, c, parents', children')
                          = Seen(nodes[o], a, b, c, parents, children)
    BY <2>1, <2>2, <2>4, FrameSeen
  <2> QED
    BY <1>1, <2>5, ViewIsSeen
<1>3. \A o \in Owners : WellFormed(View(o))'
  BY <1>2, OwnerMeans
<1> QED
  BY <1>1, <1>2, <1>3 DEF HeapInv, HeldOnce

-----------------------------------------------------------------------------
(* What each call makes of the structure as its callers see it.            *)

LEMMA AddNodeKeeps ==
  ASSUME ~PassesAgain, HeapInv, NEW o \in Owners, NEW h \in Handles, AddNode(o, h)
  PROVE  /\ HeapInv'
         /\ KeyOf[h] \in Keys
         /\ AddNodeVerdict(View(o), KeyOf[h]) = "Ok"
         /\ View(o)' = Insert(View(o), KeyOf[h], TheValue)
         /\ \A q \in Owners : q # o => View(q)' = View(q)
<1> DEFINE k == KeyOf[h]
           N2 == [nodes[o] EXCEPT ![k] = h]
           t == Seen(N2, root[o], mode[o], TRUE, parents', children')
<1>1. /\ Clean(h) /\ ~InSome(h) /\ parents[h] = {} /\ children[h] = {}
      /\ AddNodeVerdict(View(o), k) = "Ok"
  BY CleanMeans, VerdictOfClean DEF AddNode
<1>2. /\ Laid(nodes[o], parents, children)
      /\ parents \in Sets /\ children \in Sets
      /\ RootFits(root[o]) /\ mode[o] \in Modes /\ hasFirst[o] \in BOOLEAN
      /\ WellFormed(View(o))
      /\ View(o) = Seen(nodes[o], root[o], mode[o], hasFirst[o], parents, children)
      /\ Fits(nodes[o], root[o], mode[o], hasFirst[o], parents, children)
      /\ View(o).nodes = HeldBy(nodes[o])
  BY OwnerMeans
<1>3. k \in Keys \cup {EmptyKey}
  BY HandlesAssumption
<1>4. /\ k \in Keys
      /\ k \notin View(o).nodes
      /\ View(o).mode = "semi-strict" => View(o).nodes = {}
  BY <1>1, <1>2, <1>3, AddNodeOk
<1>5. nodes[o][k] = NoHandle
  BY <1>2, <1>4 DEF HeldBy
<1>6. parents' = parents /\ children' = children
  BY DEF AddNode, links
<1>7. /\ LinkedSets(nodes[o], h, {}, {}, parents) = parents
      /\ LinkedSets(nodes[o], h, {}, {}, children) = children
  BY <1>2, NothingLinked
<1>8. {} \in Linkable(nodes[o])
  BY DEF Linkable
<1>9. /\ Laid(N2, parents', children')
      /\ t = InsertLinked(View(o), k, TheValue, {}, {})
  <2>1. InsertShown(nodes[o], root[o], mode[o], hasFirst[o], parents, children, h, {}, {})
    BY <1>1, <1>2, <1>4, <1>5, <1>8, InsertSeen
  <2> QED
    BY <1>2, <1>6, <1>7, <2>1 DEF InsertShown
<1>10. WellFormed(t)
  <2>1. {} \in NodeSets(View(o)) /\ Apart(View(o), {}, {})
    BY DEF NodeSets, Apart
  <2> QED
    BY <1>2, <1>4, <1>9, <2>1, TheValueIsOne, InsertLinkedWellFormed, ZenonT(30)
<1>11. t = Insert(View(o), k, TheValue)
  BY <1>2, <1>4, <1>9, TheValueIsOne, InsertIsUnlinked DEF WellFormed
<1>12. /\ nodes' = [nodes EXCEPT ![o] = N2]
       /\ root' = [root EXCEPT ![o] = root[o]]
       /\ mode' = mode
       /\ hasFirst' = [hasFirst EXCEPT ![o] = TRUE]
  BY DEF AddNode, InsertHandle, HeapInv
<1>13. \A x \in Handles : x \in Range(N2) => x \in Range(nodes[o]) \/ ~InSome(x)
  <2>1. \A l \in Keys : N2[l] = h \/ N2[l] = nodes[o][l]
    BY <1>2 DEF Laid
  <2>2. DOMAIN N2 = Keys /\ DOMAIN nodes[o] = Keys
    BY <1>2 DEF Laid
  <2> HIDE DEF N2
  <2> QED
    BY <1>1, <2>1, <2>2 DEF Range
<1> HIDE DEF N2
<1>14. /\ HeapInv'
       /\ View(o)' = t
       /\ \A q \in Owners : q # o => View(q)' = View(q)
  BY <1>2, <1>6, <1>9, <1>10, <1>12, <1>13, OneStructure
<1> QED
  BY <1>1, <1>4, <1>11, <1>14

LEMMA AddNodeWithEdgesKeeps ==
  ASSUME ~PassesAgain, HeapInv, NEW o \in Owners, NEW h \in Handles,
         NEW ps \in KeyLists, NEW cs \in KeyLists, AddNodeWithEdges(o, h, ps, cs)
  PROVE  /\ HeapInv'
         /\ KeyOf[h] \in Keys
         /\ AddNodeWithEdgesVerdict(View(o), KeyOf[h], ps, cs) = "Ok"
         /\ View(o)' = InsertLinked(View(o), KeyOf[h], TheValue, Range(ps), Range(cs))
         /\ \A q \in Owners : q # o => View(q)' = View(q)
<1> DEFINE k == KeyOf[h]
           P == Range(ps)
           Q == Range(cs)
           N2 == [nodes[o] EXCEPT ![k] = h]
           t == Seen(N2, root[o], mode[o], TRUE, parents', children')
<1>1. /\ ~InSome(h) /\ parents[h] = {} /\ children[h] = {}
      /\ AddNodeWithEdgesVerdict(View(o), k, ps, cs) = "Ok"
      /\ LinkTo(o, h, P, Q)
  BY CleanMeans DEF AddNodeWithEdges
<1>2. /\ Laid(nodes[o], parents, children)
      /\ parents \in Sets /\ children \in Sets
      /\ RootFits(root[o]) /\ mode[o] \in Modes /\ hasFirst[o] \in BOOLEAN
      /\ WellFormed(View(o))
      /\ View(o) = Seen(nodes[o], root[o], mode[o], hasFirst[o], parents, children)
      /\ Fits(nodes[o], root[o], mode[o], hasFirst[o], parents, children)
      /\ View(o).nodes = HeldBy(nodes[o])
  BY OwnerMeans
<1>3. k \in Keys \cup {EmptyKey}
  BY HandlesAssumption
<1>4. /\ k \in Keys
      /\ k \notin View(o).nodes
      /\ P \in NodeSets(View(o))
      /\ Q \in NodeSets(View(o))
      /\ Apart(View(o), P, Q)
      /\ View(o).mode = "semi-strict" => View(o).nodes = {} \/ P \cup Q # {}
  BY <1>1, <1>2, <1>3, AddNodeWithEdgesOk
<1> HIDE DEF P, Q
<1>5. nodes[o][k] = NoHandle
  BY <1>2, <1>4 DEF HeldBy
<1>6. /\ children' = LinkedSets(nodes[o], h, P, Q, children)
      /\ parents' = LinkedSets(nodes[o], h, Q, P, parents)
  BY <1>1, LinkToMeans
<1>7. P \in Linkable(nodes[o]) /\ Q \in Linkable(nodes[o])
  BY <1>2, <1>4 DEF NodeSets, Linkable, HeldBy
<1>8. /\ Laid(N2, parents', children')
      /\ t = InsertLinked(View(o), k, TheValue, P, Q)
  <2>1. InsertShown(nodes[o], root[o], mode[o], hasFirst[o], parents, children, h, P, Q)
    BY <1>1, <1>2, <1>4, <1>5, <1>7, InsertSeen
  <2> QED
    BY <1>2, <1>6, <2>1 DEF InsertShown
<1>9. WellFormed(t)
  BY <1>2, <1>4, <1>8, TheValueIsOne, InsertLinkedWellFormed, ZenonT(30)
<1>10. /\ nodes' = [nodes EXCEPT ![o] = N2]
       /\ root' = [root EXCEPT ![o] = root[o]]
       /\ mode' = mode
       /\ hasFirst' = [hasFirst EXCEPT ![o] = TRUE]
  BY DEF AddNodeWithEdges, InsertHandle, HeapInv
<1>11. \A x \in Handles : x \in Range(N2) => x \in Range(nodes[o]) \/ ~InSome(x)
  <2>1. \A l \in Keys : N2[l] = h \/ N2[l] = nodes[o][l]
    BY <1>2 DEF Laid
  <2>2. DOMAIN N2 = Keys /\ DOMAIN nodes[o] = Keys
    BY <1>2 DEF Laid
  <2> HIDE DEF N2
  <2> QED
    BY <1>1, <2>1, <2>2 DEF Range
<1>12. \A x \in Handles : InSome(x) /\ x \notin Range(nodes[o]) =>
         parents'[x] = parents[x] /\ children'[x] = children[x]
  <2>1. /\ GainsLinks(nodes[o], h, P, Q, children, children')
        /\ GainsLinks(nodes[o], h, Q, P, parents, parents')
    <3>1. P \in SUBSET HeldBy(nodes[o]) /\ Q \in SUBSET HeldBy(nodes[o])
      BY <1>2, <1>4 DEF NodeSets
    <3> QED
      BY <1>1, <1>2, <1>4, <1>5, <1>6, <3>1, NewLinked
  <2> QED
    BY <1>1, <2>1 DEF GainsLinks
<1> HIDE DEF N2
<1>13. /\ HeapInv'
       /\ View(o)' = t
       /\ \A q \in Owners : q # o => View(q)' = View(q)
  BY <1>2, <1>8, <1>9, <1>10, <1>11, <1>12, OneStructure
<1> QED
  BY <1>1, <1>4, <1>8, <1>13 DEF P, Q

LEMMA AddEdgeKeeps ==
  ASSUME HeapInv, NEW o \in Owners, NEW p \in Keys, NEW c \in Keys, AddEdgeByKey(o, p, c)
  PROVE  /\ HeapInv'
         /\ AddEdgeVerdict(View(o), p, c) = "Ok"
         /\ View(o)' = AddChild(View(o), p, c)
         /\ \A q \in Owners : q # o => View(q)' = View(q)
<1> DEFINE t == Seen(nodes[o], root[o], mode[o], hasFirst[o], parents', children')
<1>1. /\ AddEdgeVerdict(View(o), p, c) = "Ok"
      /\ LinkTo(o, nodes[o][p], {}, {c})
      /\ UNCHANGED <<nodes, root, mode, hasFirst>>
  BY DEF AddEdgeByKey
<1>2. /\ Laid(nodes[o], parents, children)
      /\ RootFits(root[o]) /\ mode[o] \in Modes /\ hasFirst[o] \in BOOLEAN
      /\ WellFormed(View(o))
      /\ View(o) = Seen(nodes[o], root[o], mode[o], hasFirst[o], parents, children)
      /\ Fits(nodes[o], root[o], mode[o], hasFirst[o], parents, children)
      /\ View(o).nodes = HeldBy(nodes[o])
  BY OwnerMeans
<1>3. /\ p # c
      /\ p \in View(o).nodes
      /\ c \in View(o).nodes
      /\ ~Child(View(o), p, c)
      /\ ~HasPath(View(o), c, p)
  BY <1>1, AddEdgeOk
<1>4. /\ children' = LinkedSets(nodes[o], nodes[o][p], {}, {c}, children)
      /\ parents' = LinkedSets(nodes[o], nodes[o][p], {c}, {}, parents)
  BY <1>1, LinkToMeans
<1>5. ~Parent(View(o), c, p)
  BY <1>2, <1>3, MirroredMeans DEF WellFormed
<1>6. /\ Laid(nodes[o], parents', children')
      /\ t = AddChild(View(o), p, c)
      /\ \A x \in Handles : x \notin Range(nodes[o]) =>
           parents'[x] = parents[x] /\ children'[x] = children[x]
  <2>1. p \in HeldBy(nodes[o]) /\ c \in HeldBy(nodes[o])
    BY <1>2, <1>3
  <2>2. EdgeShown(nodes[o], root[o], mode[o], hasFirst[o], parents, children, p, c)
    BY <1>2, <1>3, <1>5, <2>1, EdgeSeen
  <2> QED
    BY <1>2, <1>4, <2>2 DEF EdgeShown
<1>7. WellFormed(t)
  BY <1>2, <1>3, <1>6, AddChildWellFormed
<1>8. /\ nodes' = [nodes EXCEPT ![o] = nodes[o]]
      /\ root' = [root EXCEPT ![o] = root[o]]
      /\ mode' = mode
      /\ hasFirst' = [hasFirst EXCEPT ![o] = hasFirst[o]]
  BY <1>1 DEF HeapInv
<1>9. /\ HeapInv'
      /\ View(o)' = t
      /\ \A q \in Owners : q # o => View(q)' = View(q)
  BY <1>2, <1>6, <1>7, <1>8, OneStructure
<1> QED
  BY <1>1, <1>6, <1>9

(* The neighbouring objects are those of the neighbouring keys.            *)
LEMMA VerdictOfDelete ==
  ASSUME HeapInv, NEW o \in Owners, NEW k \in Keys
  PROVE  DeleteVerdictOf(o, k) = DeleteVerdict(View(o), k)
<1> DEFINE N == nodes[o]
<1>1. /\ Laid(N, parents, children)
      /\ View(o) = Seen(N, root[o], mode[o], hasFirst[o], parents, children)
      /\ View(o).nodes = HeldBy(N) /\ Held(o) = HeldBy(N)
      /\ View(o).mode = mode[o]
  BY OwnerMeans
<1>2. View(o).hasFirst = hasFirst[o]
  BY DEF View
<1>3. \A l \in HeldBy(N) : /\ View(o).parents[l] = KeysOf(parents[N[l]])
                           /\ View(o).children[l] = KeysOf(children[N[l]])
  BY <1>1 DEF Seen, HeldBy
<1>4. ASSUME k \in HeldBy(N)
      PROVE  (\A n \in parents[N[k]] \cup children[N[k]] : RelatedWithout(o, n, k)) <=>
               (\A l \in View(o).parents[k] \cup View(o).children[k] :
                  SemiStrictCheckForOne(View(o), l, k))
  <2>1. \A l \in HeldBy(N) : RelatedWithout(o, N[l], k) <=> SemiStrictCheckForOne(View(o), l, k)
    BY <1>1, <1>3 DEF RelatedWithout, SemiStrictCheckForOne, KeysOf
  <2>2. ASSUME NEW l
        PROVE  l \in View(o).parents[k] \cup View(o).children[k] <=>
                 l \in HeldBy(N) /\ N[l] \in parents[N[k]] \cup children[N[k]]
    BY <1>1, <1>3, <1>4, KeysOfMeans DEF HeldBy
  <2>3. ASSUME NEW n \in parents[N[k]] \cup children[N[k]]
        PROVE  \E l \in HeldBy(N) : n = N[l]
    <3>1. KeyOf[n] \in Keys /\ N[KeyOf[n]] = n /\ n \in Handles
      BY <1>1, <1>4, HeldObject DEF HeldBy
    <3> QED
      BY <3>1, HandlesAssumption DEF HeldBy
  <2> QED
    BY <2>1, <2>2, <2>3
<1> HIDE DEF N
<1> QED
  BY <1>1, <1>2, <1>4 DEF DeleteVerdictOf, DeleteVerdict, N

LEMMA DeleteKeeps ==
  ASSUME HeapInv, NEW o \in Owners, NEW k \in Keys, DeleteNodeByKey(o, k)
  PROVE  /\ HeapInv'
         /\ DeleteVerdict(View(o), k) = "Ok"
         /\ View(o)' = DeleteNode(View(o), k)
         /\ \A q \in Owners : q # o => View(q)' = View(q)
<1> DEFINE N2 == [nodes[o] EXCEPT ![k] = NoHandle]
           r2 == IF root[o] # NoHandle /\ KeyOf[root[o]] = k THEN NoHandle ELSE root[o]
           f2 == FlagAfterDelete(View(o), k)
           t == Seen(N2, r2, mode[o], f2, parents', children')
<1>1. DeleteVerdict(View(o), k) = "Ok"
  BY VerdictOfDelete DEF DeleteNodeByKey
<1>2. /\ Laid(nodes[o], parents, children)
      /\ RootFits(root[o]) /\ mode[o] \in Modes /\ hasFirst[o] \in BOOLEAN
      /\ WellFormed(View(o))
      /\ View(o) = Seen(nodes[o], root[o], mode[o], hasFirst[o], parents, children)
      /\ Fits(nodes[o], root[o], mode[o], hasFirst[o], parents, children)
      /\ View(o).nodes = HeldBy(nodes[o])
  BY OwnerMeans
<1>3. k \in HeldBy(nodes[o])
  BY <1>1, <1>2 DEF DeleteVerdict
<1>4. /\ parents' = Unlinked(parents, children[nodes[o][k]], k)
      /\ children' = Unlinked(children, parents[nodes[o][k]], k)
  BY DEF DeleteNodeByKey
<1>5. Mirrored(View(o))
  BY <1>2 DEF WellFormed
<1>6. /\ Laid(N2, parents', children')
      /\ RootFits(r2)
      /\ t = DeleteNode(View(o), k)
      /\ \A x \in Handles : x \notin Range(nodes[o]) =>
           parents'[x] = parents[x] /\ children'[x] = children[x]
  <2>1. DeleteShown(nodes[o], root[o], mode[o], hasFirst[o], parents, children, k)
    BY <1>2, <1>3, <1>5, DeleteSeen
  <2> QED
    BY <1>2, <1>4, <2>1 DEF DeleteShown
<1>7. WellFormed(t)
  BY <1>1, <1>2, <1>6, DeleteWellFormed
<1>8. /\ nodes' = [nodes EXCEPT ![o] = N2]
      /\ root' = [root EXCEPT ![o] = r2]
      /\ mode' = mode
      /\ hasFirst' = [hasFirst EXCEPT ![o] = f2]
  BY DEF DeleteNodeByKey, HeapInv
<1>9. f2 \in BOOLEAN
  BY DEF FlagAfterDelete
<1>10. \A x \in Handles : x \in Range(N2) => x \in Range(nodes[o]) \/ ~InSome(x)
  <2>1. /\ DOMAIN N2 = Keys /\ DOMAIN nodes[o] = Keys
        /\ \A l \in Keys : N2[l] = NoHandle \/ N2[l] = nodes[o][l]
    BY <1>2 DEF Laid
  <2> HIDE DEF N2
  <2> QED
    BY <2>1, HandlesAssumption DEF Range
<1> HIDE DEF N2, r2, f2
<1>11. /\ HeapInv'
       /\ View(o)' = t
       /\ \A q \in Owners : q # o => View(q)' = View(q)
  BY <1>2, <1>6, <1>7, <1>8, <1>9, <1>10, OneStructure
<1> QED
  BY <1>1, <1>6, <1>11

-----------------------------------------------------------------------------
(* At first a structure has its root, or nothing.                          *)

LEMMA FirstSeen ==
  ASSUME NEW r \in Handles \cup {NoHandle}, r # NoHandle => KeyOf[r] \in Keys, NEW m \in Modes
  PROVE  LET N == [k \in Keys |-> IF r # NoHandle /\ KeyOf[r] = k THEN r ELSE NoHandle]
             none == [h \in Handles |-> {}]
         IN  /\ Laid(N, none, none)
             /\ RootFits(r)
             /\ Seen(N, r, m, r # NoHandle, none, none) =
                  IF r = NoHandle THEN EmptyStructure(m) ELSE WithRoot(KeyOf[r], TheValue, m)
<1> DEFINE N == [k \in Keys |-> IF r # NoHandle /\ KeyOf[r] = k THEN r ELSE NoHandle]
           none == [h \in Handles |-> {}]
           f == r # NoHandle
           t == Seen(N, r, m, f, none, none)
           u == IF r = NoHandle THEN EmptyStructure(m) ELSE WithRoot(KeyOf[r], TheValue, m)
<1>1. /\ N \in [Keys -> Handles \cup {NoHandle}]
      /\ \A k \in Keys : N[k] = IF r # NoHandle /\ KeyOf[r] = k THEN r ELSE NoHandle
  OBVIOUS
<1>2. none \in Sets /\ \A x \in Handles : none[x] = {}
  BY DEF Sets
<1> HIDE DEF N, none
<1>3. Laid(N, none, none) /\ RootFits(r) /\ f \in BOOLEAN
  BY <1>1, <1>2, HandlesAssumption DEF Laid, RootFits
<1>4. Fits(N, r, m, f, none, none)
  BY <1>3 DEF Fits
<1>5. /\ t \in Structures
      /\ t.nodes = {k \in Keys : N[k] # NoHandle}
      /\ t.root = IF r = NoHandle THEN NoRoot ELSE KeyOf[r]
      /\ t.mode = m
      /\ t.hasFirst = f
      /\ t.value = [k \in Keys |-> IF N[k] # NoHandle THEN TheValue ELSE NoValue]
      /\ \A k, l \in Keys :
           /\ Child(t, k, l) <=> N[k] # NoHandle /\ N[l] # NoHandle /\ N[l] \in none[N[k]]
           /\ Parent(t, k, l) <=> N[k] # NoHandle /\ N[l] # NoHandle /\ N[l] \in none[N[k]]
  BY <1>4, SeenFields
<1>6. \A k, l \in Keys : ~Child(t, k, l) /\ ~Parent(t, k, l)
  BY <1>1, <1>2, <1>5
<1> HIDE DEF t
<1>7. t = u
  <2>1. CASE r = NoHandle
    <3> DEFINE e == EmptyStructure(m)
    <3>1. /\ e \in Structures
          /\ e.nodes = {}
          /\ e.root = NoRoot
          /\ e.mode = m
          /\ \A x, y \in Keys : ~Child(e, x, y) /\ ~Parent(e, x, y)
          /\ FlagExact(e)
      BY EmptyFields
    <3>2. e.value = [k \in Keys |-> NoValue]
      BY DEF EmptyStructure
    <3> HIDE DEF e
    <3>3. t.nodes = {} /\ t.value = [k \in Keys |-> NoValue]
      BY <1>1, <1>5, <2>1
    <3>4. t.hasFirst = FALSE /\ e.hasFirst = FALSE
      BY <1>5, <2>1, <3>1 DEF FlagExact, Structures
    <3>5. t.root = e.root /\ t.mode = e.mode /\ t \in Structures
      BY <1>5, <2>1, <3>1
    <3>6. t = e
      BY <1>6, <3>1, <3>2, <3>3, <3>4, <3>5, SameParts
    <3> QED
      BY <2>1, <3>6 DEF e
  <2>2. CASE r # NoHandle
    <3> DEFINE e == WithRoot(KeyOf[r], TheValue, m)
    <3>1. /\ e \in Structures
          /\ e.nodes = {KeyOf[r]}
          /\ e.root = KeyOf[r]
          /\ e.mode = m
          /\ \A x, y \in Keys : ~Child(e, x, y) /\ ~Parent(e, x, y)
          /\ FlagExact(e)
      BY <2>2, TheValueIsOne, WithRootFields
    <3>2. e.value = [k \in Keys |-> IF k = KeyOf[r] THEN TheValue ELSE NoValue]
      BY <2>2, TheValueIsOne, NewValues
    <3> HIDE DEF e
    <3>3. /\ t.nodes = {KeyOf[r]}
          /\ t.value = [k \in Keys |-> IF k = KeyOf[r] THEN TheValue ELSE NoValue]
      BY <1>1, <1>5, <2>2
    <3>4. t.hasFirst = TRUE /\ e.hasFirst = TRUE
      BY <1>5, <2>2, <3>1 DEF FlagExact, Structures
    <3>5. t.root = e.root /\ t.mode = e.mode /\ t \in Structures
      BY <1>5, <2>2, <3>1
    <3>6. t = e
      BY <1>6, <3>1, <3>2, <3>3, <3>4, <3>5, SameParts
    <3> QED
      BY <2>2, <3>6 DEF e
  <2> QED
    BY <2>1, <2>2
<1> QED
  BY <1>3, <1>7 DEF t, u, f, N, none

LEMMA HeapInitInv ==
  ASSUME ~PassesAgain, Init
  PROVE  /\ HeapInv
         /\ \A o \in Owners : View(o) = IF root[o] = NoHandle THEN EmptyStructure(mode[o])
                                        ELSE WithRoot(KeyOf[root[o]], TheValue, mode[o])
<1>1. /\ mode \in [Owners -> Modes]
      /\ root \in [Owners -> Handles \cup {NoHandle}]
      /\ hasFirst = [o \in Owners |-> root[o] # NoHandle]
      /\ nodes = [o \in Owners |-> [k \in Keys |->
                    IF root[o] # NoHandle /\ KeyOf[root[o]] = k THEN root[o] ELSE NoHandle]]
      /\ parents = [h \in Handles |-> {}]
      /\ children = [h \in Handles |-> {}]
  BY DEF Init
<1>2. \A o, q \in Owners : root[o] = root[q] => o = q \/ root[o] = NoHandle
  BY DEF Init
<1>3. \A o \in Owners : root[o] # NoHandle => KeyOf[root[o]] \in Keys
  BY <1>1, HandlesAssumption DEF Init, NewAccepted
<1>4. ASSUME NEW o \in Owners
      PROVE  /\ Laid(nodes[o], parents, children)
             /\ RootFits(root[o])
             /\ View(o) = IF root[o] = NoHandle THEN EmptyStructure(mode[o])
                          ELSE WithRoot(KeyOf[root[o]], TheValue, mode[o])
             /\ WellFormed(View(o))
  <2> DEFINE r == root[o]
             N == [k \in Keys |-> IF r # NoHandle /\ KeyOf[r] = k THEN r ELSE NoHandle]
             none == [h \in Handles |-> {}]
             u == IF r = NoHandle THEN EmptyStructure(mode[o])
                  ELSE WithRoot(KeyOf[r], TheValue, mode[o])
  <2>1. r \in Handles \cup {NoHandle} /\ mode[o] \in Modes /\ (r # NoHandle => KeyOf[r] \in Keys)
    BY <1>1, <1>3
  <2>2. /\ Laid(N, none, none)
        /\ RootFits(r)
        /\ Seen(N, r, mode[o], r # NoHandle, none, none) = u
    BY <2>1, FirstSeen
  <2>3. /\ nodes[o] = N /\ hasFirst[o] = (r # NoHandle)
        /\ parents = none /\ children = none
    BY <1>1
  <2>4. WellFormed(u)
    BY <2>1, TheValueIsOne, EmptyWellFormed, WithRootWellFormed
  <2> HIDE DEF N, none, u
  <2>5. View(o) = u
    BY <2>2, <2>3, ViewIsSeen
  <2> QED
    BY <2>2, <2>3, <2>4, <2>5 DEF u
<1>5. nodes \in [Owners -> [Keys -> Handles \cup {NoHandle}]] /\ hasFirst \in [Owners -> BOOLEAN]
  BY <1>1
<1>6. HeldOnce
  BY <1>1, <1>2 DEF HeldOnce
<1> QED
  BY <1>1, <1>4, <1>5, <1>6 DEF HeapInv

(* What a step may do to the structures as their callers see them: at most *)
(* one accepted call on one of them.                                       *)
ViewStep(s, t) ==
  \/ t = s
  \/ \E k \in Keys : /\ AddNodeVerdict(s, k) = "Ok"
                     /\ t = Insert(s, k, TheValue)
  \/ \E k \in Keys, ps, cs \in KeyLists :
       /\ AddNodeWithEdgesVerdict(s, k, ps, cs) = "Ok"
       /\ t = InsertLinked(s, k, TheValue, Range(ps), Range(cs))
  \/ \E p, c \in Keys : /\ AddEdgeVerdict(s, p, c) = "Ok"
                        /\ t = AddChild(s, p, c)
  \/ \E k \in Keys : /\ DeleteVerdict(s, k) = "Ok"
                     /\ t = DeleteNode(s, k)

LEMMA HeapNextInv ==
  ASSUME ~PassesAgain, HeapInv, [Next]_vars
  PROVE  HeapInv' /\ \A o \in Owners : ViewStep(View(o), View(o)')
<1>1. CASE UNCHANGED vars
  <2>1. UNCHANGED <<nodes, root, mode, hasFirst, parents, children>>
    BY <1>1 DEF vars, links
  <2>2. \A o : View(o)' = View(o)
    BY <2>1, ViewIsSeen
  <2> QED
    BY <2>1, <2>2 DEF HeapInv, HeldOnce, ViewStep
<1>2. ASSUME NEW h \in Handles, Renew(h)
      PROVE  HeapInv' /\ \A o \in Owners : ViewStep(View(o), View(o)')
  BY <1>2, RenewKeeps DEF ViewStep
<1>3. ASSUME NEW o \in Owners, NEW h \in Handles, AddNode(o, h)
      PROVE  HeapInv' /\ \A q \in Owners : ViewStep(View(q), View(q)')
  BY <1>3, AddNodeKeeps DEF ViewStep
<1>4. ASSUME NEW o \in Owners, NEW h \in Handles, NEW ps \in KeyLists, NEW cs \in KeyLists,
             AddNodeWithEdges(o, h, ps, cs)
      PROVE  HeapInv' /\ \A q \in Owners : ViewStep(View(q), View(q)')
  BY <1>4, AddNodeWithEdgesKeeps DEF ViewStep
<1>5. ASSUME NEW o \in Owners, NEW p \in Keys, NEW c \in Keys, AddEdgeByKey(o, p, c)
      PROVE  HeapInv' /\ \A q \in Owners : ViewStep(View(q), View(q)')
  BY <1>5, AddEdgeKeeps DEF ViewStep
<1>6. ASSUME NEW o \in Owners, NEW k \in Keys, DeleteNodeByKey(o, k)
      PROVE  HeapInv' /\ \A q \in Owners : ViewStep(View(q), View(q)')
  BY <1>6, DeleteKeeps DEF ViewStep
<1> QED
  BY <1>1, <1>2, <1>3, <1>4, <1>5, <1>6 DEF Next

-----------------------------------------------------------------------------
(* Theorems, for callers who pass every node once.                         *)

(* The invariant holds whatever the callers do with the nodes they made,   *)
(* linked and let go of.                                                   *)
THEOREM HeapInvariance ==
  ASSUME ~PassesAgain
  PROVE  Spec => []HeapInv
<1>1. Init => HeapInv
  BY HeapInitInv
<1>2. HeapInv /\ [Next]_vars => HeapInv'
  BY HeapNextInv
<1> QED
  BY <1>1, <1>2, PTL DEF Spec

(* A walk along the links of a structure never leaves it, and never comes  *)
(* to an object other than the one its map holds under that key.           *)
THEOREM LinksStayInside ==
  ASSUME ~PassesAgain
  PROVE  Spec => []LinksLeadToNodes
<1>1. HeapInv => LinksLeadToNodes
  BY OwnerMeans DEF LinksLeadToNodes, Held, Laid
<1> QED
  BY <1>1, HeapInvariance, PTL

(* add_node and delete_node, which ask the objects and their sets, answer  *)
(* what the keys alone would say.                                          *)
THEOREM ObjectsAnswerByKey ==
  ASSUME ~PassesAgain
  PROVE  Spec => []VerdictsByKey
<1>1. HeapInv => VerdictsByKey
  BY VerdictOfClean, VerdictOfDelete DEF VerdictsByKey
<1> QED
  BY <1>1, HeapInvariance, PTL

-----------------------------------------------------------------------------
(* Every structure in memory is an abstract store.                         *)

(* What ByKey takes for the root and for the stored values.                *)
RootKey(o) == IF root[o] = NoHandle THEN NoRoot ELSE KeyOf[root[o]]

Stored(o) == [k \in Keys |-> IF k \in Held(o) THEN CHOOSE v \in Values : TRUE ELSE NoValue]

(* The store ByKey speaks of is the graph of the structure callers see.    *)
LEMMA ViewIsGraph ==
  ASSUME NEW o
  PROVE  /\ View(o).nodes = Held(o)
         /\ View(o).mode = mode[o]
         /\ View(o).root = RootKey(o)
         /\ View(o).value = Stored(o)
         /\ EdgesOf(View(o)) = Edges(o)
<1>1. View(o).children = [k \in Keys |-> IF k \in Held(o) THEN KeysOf(children[nodes[o][k]]) ELSE {}]
  BY DEF View
<1>2. Held(o) \subseteq Keys
  BY DEF Held
<1>3. \A x, y \in Keys : <<x, y>> \in EdgesOf(View(o)) <=> <<x, y>> \in Edges(o)
  BY <1>1, <1>2 DEF EdgesOf, Edges
<1>4. EdgesOf(View(o)) \subseteq Keys \X Keys /\ Edges(o) \subseteq Keys \X Keys
  BY <1>2 DEF EdgesOf, Edges
<1>5. EdgesOf(View(o)) = Edges(o)
  BY <1>3, <1>4
<1> QED
  BY <1>5 DEF View, RootKey, Stored

LEMMA ByKeyInsertable ==
  ASSUME NEW o, NEW k, NEW P, NEW Q
  PROVE  /\ ByKey(o)!Insertable(k, P, Q) <=> OfGraph(View(o))!Insertable(k, P, Q)
         /\ ByKey(o)!Around(k, P, Q) = OfGraph(View(o))!Around(k, P, Q)
<1>1. ByKey(o)!Around(k, P, Q) = OfGraph(View(o))!Around(k, P, Q)
  BY DEF ByKey!Around, OfGraph!Around
<1>2. \A E : ByKey(o)!Acyclic(E) <=> OfGraph(View(o))!Acyclic(E)
  BY DEF ByKey!Acyclic, OfGraph!Acyclic
<1>3. View(o).nodes = Held(o) /\ View(o).mode = mode[o] /\ EdgesOf(View(o)) = Edges(o)
  BY ViewIsGraph
<1>4. ByKey(o)!Insertable(k, P, Q) <=> OfGraph(View(o))!Insertable(k, P, Q)
  BY <1>1, <1>2, <1>3 DEF ByKey!Insertable, OfGraph!Insertable
<1> QED
  BY <1>1, <1>4

LEMMA ByKeyConnectable ==
  ASSUME NEW o, NEW p, NEW c
  PROVE  ByKey(o)!Connectable(p, c) <=> OfGraph(View(o))!Connectable(p, c)
  BY ViewIsGraph DEF ByKey!Connectable, OfGraph!Connectable, ByKey!Acyclic, OfGraph!Acyclic

LEMMA ByKeyRemovable ==
  ASSUME NEW o, NEW k
  PROVE  /\ ByKey(o)!Removable(k) <=> OfGraph(View(o))!Removable(k)
         /\ ByKey(o)!Without(k) = OfGraph(View(o))!Without(k)
<1>1. \A l, E : ByKey(o)!Touching(l, E) = OfGraph(View(o))!Touching(l, E)
  BY DEF ByKey!Touching, OfGraph!Touching
<1>2. View(o).nodes = Held(o) /\ View(o).mode = mode[o] /\ EdgesOf(View(o)) = Edges(o)
  BY ViewIsGraph
<1>3. ByKey(o)!Without(k) = OfGraph(View(o))!Without(k)
  BY <1>1, <1>2 DEF ByKey!Without, OfGraph!Without
<1>4. ByKey(o)!Removable(k) <=> OfGraph(View(o))!Removable(k)
  BY <1>1, <1>2, <1>3 DEF ByKey!Removable, OfGraph!Removable, ByKey!NoLoner, OfGraph!NoLoner
<1> QED
  BY <1>3, <1>4

LEMMA ByKeyInit ==
  ASSUME ~PassesAgain, Init, NEW o \in Owners
  PROVE  ByKey(o)!Init
<1>1. /\ mode[o] \in Modes
      /\ root[o] \in Handles \cup {NoHandle}
      /\ root[o] # NoHandle => KeyOf[root[o]] \in Keys
      /\ View(o) = IF root[o] = NoHandle THEN EmptyStructure(mode[o])
                   ELSE WithRoot(KeyOf[root[o]], TheValue, mode[o])
  BY HeapInitInv DEF HeapInv, RootFits
<1>2. \A s : (\A x, y \in Keys : ~Child(s, x, y)) => EdgesOf(s) = {}
  BY DEF EdgesOf, Child
<1>3. CASE root[o] = NoHandle
  <2>1. /\ View(o).nodes = {}
        /\ View(o).root = NoRoot
        /\ \A x, y \in Keys : ~Child(View(o), x, y)
    BY <1>1, <1>3, EmptyFields
  <2>2. View(o).value = [k \in Keys |-> NoValue]
    BY <1>1, <1>3 DEF EmptyStructure
  <2>3. EdgesOf(View(o)) = {}
    BY <1>2, <2>1
  <2>4. /\ Held(o) = {}
        /\ Edges(o) = {}
        /\ RootKey(o) = NoRoot
        /\ Stored(o) = [k \in Keys |-> NoValue]
    BY <2>1, <2>2, <2>3, ViewIsGraph
  <2> QED
    BY <1>1, <2>4 DEF ByKey!Init, Modes, RootKey, Stored
<1>4. CASE root[o] # NoHandle
  <2> DEFINE r == KeyOf[root[o]]
  <2>1. r \in Keys /\ View(o) = WithRoot(r, TheValue, mode[o])
    BY <1>1, <1>4
  <2>2. /\ View(o).nodes = {r}
        /\ View(o).root = r
        /\ \A x, y \in Keys : ~Child(View(o), x, y)
    BY <1>1, <2>1, TheValueIsOne, WithRootFields
  <2>3. View(o).value = [k \in Keys |-> IF k = r THEN TheValue ELSE NoValue]
    BY <1>1, <2>1, TheValueIsOne, NewValues
  <2>4. EdgesOf(View(o)) = {}
    BY <1>2, <2>2
  <2> HIDE DEF r
  <2>5. /\ Held(o) = {r}
        /\ Edges(o) = {}
        /\ RootKey(o) = r
        /\ Stored(o) = [k \in Keys |-> IF k = r THEN TheValue ELSE NoValue]
    BY <2>2, <2>3, <2>4, ViewIsGraph
  <2> QED
    BY <1>1, <2>1, <2>5, TheValueIsOne DEF ByKey!Init, Modes, RootKey, Stored
<1> QED
  BY <1>3, <1>4

(* The parts of the store after a step.                                    *)
LEMMA ViewIsGraphAfter ==
  ASSUME NEW o
  PROVE  /\ View(o)'.nodes = Held(o)'
         /\ View(o)'.mode = mode[o]'
         /\ View(o)'.root = RootKey(o)'
         /\ View(o)'.value = Stored(o)'
         /\ EdgesOf(View(o)') = Edges(o)'
<1>1. (/\ View(o).nodes = Held(o)
       /\ View(o).mode = mode[o]
       /\ View(o).root = RootKey(o)
       /\ View(o).value = Stored(o)
       /\ EdgesOf(View(o)) = Edges(o))'
  BY ViewIsGraph, PTL
<1> QED
  BY <1>1 DEF EdgesOf

LEMMA InsertIsByKey ==
  ASSUME NEW o, WellFormed(View(o)), NEW k \in Keys, NEW P, NEW Q,
         OfGraph(View(o))!Insertable(k, P, Q),
         View(o)' = InsertLinked(View(o), k, TheValue, P, Q)
  PROVE  ByKey(o)!Next
<1> DEFINE s == View(o)
<1>1. /\ s \in Structures
      /\ k \notin s.nodes
      /\ P \in NodeSets(s)
      /\ Q \in NodeSets(s)
  BY InsertableMeans DEF WellFormed
<1>2. P \in KeySets /\ Q \in KeySets /\ P \in SUBSET s.nodes /\ Q \in SUBSET s.nodes
  BY <1>1, NodesAreKeys DEF NodeSets, KeySets
<1>3. /\ s'.nodes = s.nodes \cup {k}
      /\ s'.root = s.root
      /\ s'.mode = s.mode
  BY <1>1, <1>2, TheValueIsOne, InsertLinkedFields
<1>4. s'.value = [s.value EXCEPT ![k] = TheValue]
  BY <1>1, <1>2, TheValueIsOne, InsertLinkedValue
<1>5. EdgesOf(s') = EdgesOf(s) \cup ByKey(o)!Around(k, P, Q)
  BY <1>1, TheValueIsOne, InsertLinkedEdges, ByKeyInsertable
<1> HIDE DEF s
<1>6. ByKey(o)!Insert(k, TheValue, P, Q)
  <2>1. /\ Held(o)' = Held(o) \cup {k}
        /\ RootKey(o)' = RootKey(o)
        /\ mode[o]' = mode[o]
        /\ Stored(o)' = [Stored(o) EXCEPT ![k] = TheValue]
        /\ Edges(o)' = Edges(o) \cup ByKey(o)!Around(k, P, Q)
    BY <1>3, <1>4, <1>5, ViewIsGraph, ViewIsGraphAfter DEF s
  <2>2. ByKey(o)!Insertable(k, P, Q)
    BY ByKeyInsertable
  <2> QED
    BY <2>1, <2>2 DEF ByKey!Insert, RootKey, Stored
<1>7. k \in Keys \ Held(o) /\ P \in SUBSET Held(o) /\ Q \in SUBSET Held(o)
  BY <1>1, <1>2, ViewIsGraph DEF s
<1> QED
  BY <1>6, <1>7, TheValueIsOne DEF ByKey!Next

LEMMA StepIsByKey ==
  ASSUME NEW o, WellFormed(View(o)), ViewStep(View(o), View(o)')
  PROVE  ByKey(o)!Next
<1> DEFINE s == View(o)
<1>0. WellFormed(s) /\ s \in Structures
  BY DEF WellFormed
<1>1. CASE s' = s
  <2>1. /\ Held(o)' = Held(o)
        /\ RootKey(o)' = RootKey(o)
        /\ mode[o]' = mode[o]
        /\ Stored(o)' = Stored(o)
        /\ Edges(o)' = Edges(o)
    BY <1>1, ViewIsGraph, ViewIsGraphAfter
  <2>2. ByKey(o)!Refuse
    BY <2>1 DEF ByKey!Refuse, ByKey!vars, RootKey, Stored
  <2> QED
    BY <2>2 DEF ByKey!Next
<1>2. ASSUME NEW k \in Keys, AddNodeVerdict(s, k) = "Ok", s' = Insert(s, k, TheValue)
      PROVE  ByKey(o)!Next
  <2>1. OfGraph(s)!Insertable(k, {}, {})
    BY <1>0, <1>2, AddNodeOk, InsertableMeans DEF NodeSets, Apart
  <2>2. s' = InsertLinked(s, k, TheValue, {}, {})
    BY <1>0, <1>2, TheValueIsOne, InsertIsUnlinked
  <2> QED
    BY <2>1, <2>2, InsertIsByKey
<1>3. ASSUME NEW k \in Keys, NEW ps \in KeyLists, NEW cs \in KeyLists,
             AddNodeWithEdgesVerdict(s, k, ps, cs) = "Ok",
             s' = InsertLinked(s, k, TheValue, Range(ps), Range(cs))
      PROVE  ByKey(o)!Next
  <2>1. OfGraph(s)!Insertable(k, Range(ps), Range(cs))
    BY <1>0, <1>3, AddNodeWithEdgesOk, InsertableMeans
  <2> QED
    BY <1>3, <2>1, InsertIsByKey
<1>4. ASSUME NEW p \in Keys, NEW c \in Keys, AddEdgeVerdict(s, p, c) = "Ok",
             s' = AddChild(s, p, c)
      PROVE  ByKey(o)!Next
  <2>1. p # c /\ ByKey(o)!Connectable(p, c)
    BY <1>0, <1>4, AddEdgeOk, ConnectableMeans, ByKeyConnectable
  <2>2. /\ s'.nodes = s.nodes
        /\ s'.root = s.root
        /\ s'.mode = s.mode
        /\ s'.value = s.value
    BY <1>0, <1>4, <2>1, AddChildFields
  <2>3. EdgesOf(s') = EdgesOf(s) \cup {<<p, c>>}
    BY <1>0, <1>4, <2>1, AddChildEdges
  <2> HIDE DEF s
  <2>4. ByKey(o)!Connect(p, c)
    <3>1. /\ Held(o)' = Held(o)
          /\ RootKey(o)' = RootKey(o)
          /\ mode[o]' = mode[o]
          /\ Stored(o)' = Stored(o)
          /\ Edges(o)' = Edges(o) \cup {<<p, c>>}
      BY <2>2, <2>3, ViewIsGraph, ViewIsGraphAfter DEF s
    <3> QED
      BY <2>1, <3>1 DEF ByKey!Connect, RootKey, Stored
  <2> QED
    BY <2>4 DEF ByKey!Next
<1>5. ASSUME NEW k \in Keys, DeleteVerdict(s, k) = "Ok", s' = DeleteNode(s, k)
      PROVE  ByKey(o)!Next
  <2>1. ByKey(o)!Removable(k)
    BY <1>0, <1>5, RemovableMeans, ByKeyRemovable
  <2>2. /\ s'.nodes = s.nodes \ {k}
        /\ s'.root = IF s.root = k THEN NoRoot ELSE s.root
        /\ s'.mode = s.mode
        /\ s'.value = [s.value EXCEPT ![k] = NoValue]
    BY <1>0, <1>5, DeleteFields
  <2>3. EdgesOf(s') = ByKey(o)!Without(k)
    BY <1>0, <1>5, DeleteEdges, ByKeyRemovable
  <2> HIDE DEF s
  <2>4. ByKey(o)!Remove(k)
    <3>1. /\ Held(o)' = Held(o) \ {k}
          /\ RootKey(o)' = IF RootKey(o) = k THEN NoRoot ELSE RootKey(o)
          /\ mode[o]' = mode[o]
          /\ Stored(o)' = [Stored(o) EXCEPT ![k] = NoValue]
          /\ Edges(o)' = ByKey(o)!Without(k)
      BY <2>2, <2>3, ViewIsGraph, ViewIsGraphAfter DEF s
    <3> QED
      BY <2>1, <3>1 DEF ByKey!Remove, RootKey, Stored
  <2> QED
    BY <2>4 DEF ByKey!Next
<1> QED
  BY <1>1, <1>2, <1>3, <1>4, <1>5 DEF ViewStep

(* Whatever becomes of the objects and of the other structures, each       *)
(* structure by itself behaves as the abstract store says.                 *)
THEOREM ObjectsImplementStore ==
  ASSUME ~PassesAgain
  PROVE  Spec => Refines
<1>1. Init => \A o \in Owners : ByKey(o)!Init
  BY ByKeyInit
<1>2. HeapInv /\ [Next]_vars => [\A o \in Owners : ByKey(o)!Next]_vars
  <2>1. ASSUME HeapInv, [Next]_vars, NEW o \in Owners
        PROVE  ByKey(o)!Next
    BY <2>1, HeapNextInv, OwnerMeans, StepIsByKey
  <2> QED
    BY <2>1
<1> QED
  BY <1>1, <1>2, HeapInvariance, PTL DEF Spec, Refines

=============================================================================
