--------------------------- MODULE DatabaseProofs ---------------------------
(***************************************************************************)
(* Theorems about Database.tla, for every set of names, keys, values and   *)
(* files of unknown origin: what can be read back is the whole database of *)
(* the last Save, a Save that was answered can be read back, and what a    *)
(* client foresees from the answer to GetStructure comes true.             *)
(***************************************************************************)
EXTENDS Database, SnapshotLemmas

(* What the database holds under its names; only so many names are used.   *)
Good(d) == /\ d \in Databases
           /\ IsFiniteSet(NamesIn(d))
           /\ \A n \in NamesIn(d) : Coherent(d[n]) /\ Valued(d[n])

FirstOf(P, i) == [j \in 1..i |-> P[j]]

(* While Save writes, the file and what is pending make up the pieces of   *)
(* the database it found; afterwards the file is a beginning of them,      *)
(* perhaps with a part of the next piece.                                  *)
Saving == \E i \in 0..Len(Pieces(saved)) :
  /\ file = FirstOf(Pieces(saved), i)
  /\ pending = [j \in 1..(Len(Pieces(saved)) - i) |-> Pieces(saved)[i + j]]

Beginning == \E i \in 0..Len(Pieces(saved)) :
  \/ file = FirstOf(Pieces(saved), i)
  \/ i < Len(Pieces(saved)) /\ file = Append(FirstOf(Pieces(saved), i), Torn)

(* The inductive invariant.                                                *)
DatabaseInv == /\ thread \in {"idle", "saving", "down"}
               /\ Good(db)
               /\ \A n \in NamesIn(db) : n \in lax \/ WellFormed(db[n])
               /\ Good(saved)
               /\ thread = "saving" => Saving
               /\ thread # "saving" => pending = <<>> /\ (file = NoFile \/ Beginning)
               /\ answered => thread # "saving" /\ file = Pieces(saved)

-----------------------------------------------------------------------------
(* The pieces of a database.                                               *)

LEMMA PiecesMean ==
  ASSUME NEW d, Good(d)
  PROVE  LET P == Pieces(d)
             N == Sorted(NamesIn(d))
             n == Cardinality(NamesIn(d))
         IN  /\ n \in Nat
             /\ N \in [1..n -> NamesIn(d)]
             /\ IsInjective(N)
             /\ \A m \in NamesIn(d) : \E i \in 1..n : N[i] = m
             /\ P \in Seq({P[j] : j \in 1..(1 + 2 * n)})
             /\ Len(P) = 1 + 2 * n
             /\ DOMAIN P = 1..(1 + 2 * n)
             /\ P[1] = Count(n)
             /\ \A i \in 1..n : /\ P[2 * i] = NamePiece(N[i])
                                /\ P[2 * i + 1] = StructurePiece(ToBytes(d[N[i]]))
<1> DEFINE N == Sorted(NamesIn(d))
           n == Cardinality(NamesIn(d))
           name(i) == NamePiece(N[i])
           snap(i) == StructurePiece(ToBytes(d[N[i]]))
           body == [i \in 1..(2 * n) |-> IF i % 2 = 1 THEN NamePiece(N[(i + 1) \div 2])
                                         ELSE StructurePiece(ToBytes(d[N[i \div 2]]))]
<1>1. /\ n \in Nat
      /\ N \in [1..n -> NamesIn(d)]
      /\ Len(N) = n
      /\ Range(N) = NamesIn(d)
      /\ IsInjective(N)
  BY SortedSeq DEF Good
<1>2. Pieces(d) = <<Count(n)>> \o body
  BY <1>1 DEF Pieces
<1> HIDE DEF n
<1>3. \A m \in NamesIn(d) : \E i \in 1..n : N[i] = m
  BY <1>1 DEF Range
<1> HIDE DEF N
<1>4. body = [i \in 1..(2 * n) |-> IF i % 2 = 1 THEN name((i + 1) \div 2)
                                   ELSE snap(i \div 2)]
  OBVIOUS
<1> HIDE DEF name, snap, body
<1>5. 2 * n \in Nat
  BY <1>1
<1> DEFINE Any == {Count(n)} \cup {body[i] : i \in 1..(2 * n)}
<1>6. body \in [1..(2 * n) -> Any]
  BY <1>4
<1>7. body \in Seq(Any) /\ Len(body) = 2 * n
  BY <1>5, <1>6
<1>8. <<Count(n)>> \in Seq(Any) /\ Len(<<Count(n)>>) = 1
  OBVIOUS
<1> DEFINE P == Pieces(d)
<1>9. /\ P \in Seq(Any)
      /\ Len(P) = 1 + 2 * n
      /\ P[1] = Count(n)
      /\ \A j \in 1..(2 * n) : P[1 + j] = body[j]
  BY <1>2, <1>5, <1>7, <1>8
<1> HIDE DEF P, Any
<1>10. ASSUME NEW i \in 1..n
       PROVE  P[2 * i] = name(i) /\ P[2 * i + 1] = snap(i)
  <2>1. i \in Nat /\ n \in Nat /\ 1 <= i /\ i <= n
    BY <1>1
  <2>2. 2 * i - 1 \in 1..(2 * n) /\ (2 * i - 1) % 2 = 1 /\ (2 * i - 1 + 1) \div 2 = i
    BY <2>1
  <2>3. 2 * i \in 1..(2 * n) /\ (2 * i) % 2 # 1 /\ (2 * i) \div 2 = i
    BY <2>1
  <2>4. body[2 * i - 1] = name(i)
    BY <1>4, <2>2
  <2>5. body[2 * i] = snap(i)
    BY <1>4, <2>3
  <2>6. P[1 + (2 * i - 1)] = name(i) /\ P[1 + 2 * i] = snap(i)
    BY <1>9, <2>2, <2>3, <2>4, <2>5
  <2>7. 1 + (2 * i - 1) = 2 * i /\ 1 + 2 * i = 2 * i + 1
    BY <2>1
  <2> QED
    BY <2>6, <2>7
<1>11. DOMAIN P = 1..(1 + 2 * n)
  BY <1>5, <1>9
<1>12. P \in Seq({P[j] : j \in 1..(1 + 2 * n)})
  <2>1. P \in [1..(1 + 2 * n) -> {P[j] : j \in 1..(1 + 2 * n)}]
    BY <1>9, <1>11
  <2> QED
    BY <1>5, <2>1
<1> QED
  BY <1>1, <1>3, <1>9, <1>10, <1>11, <1>12 DEF P, N, n, name, snap

(* No piece is taken for a torn one.                                       *)
LEMMA NotTorn ==
  ASSUME NEW d, Good(d)
  PROVE  Torn \notin Range(Pieces(d))
<1> DEFINE P == Pieces(d)
           N == Sorted(NamesIn(d))
           n == Cardinality(NamesIn(d))
<1>1. /\ n \in Nat
      /\ DOMAIN P = 1..(1 + 2 * n)
      /\ P[1] = Count(n)
      /\ \A i \in 1..n : /\ P[2 * i] = NamePiece(N[i])
                         /\ P[2 * i + 1] = StructurePiece(ToBytes(d[N[i]]))
  BY PiecesMean
<1> HIDE DEF P, N, n
<1>2. \A x : Count(x) # Torn /\ NamePiece(x) # Torn /\ StructurePiece(x) # Torn
  BY DEF Count, NamePiece, StructurePiece, Torn
<1>3. ASSUME NEW j \in 1..(1 + 2 * n)
      PROVE  P[j] # Torn
  <2>1. CASE j = 1
    BY <1>1, <1>2, <2>1
  <2>2. CASE \E i \in 1..n : j = 2 * i
    BY <1>1, <1>2, <2>2
  <2>3. CASE \E i \in 1..n : j = 2 * i + 1
    BY <1>1, <1>2, <2>3
  <2>4. j = 1 \/ (\E i \in 1..n : j = 2 * i) \/ (\E i \in 1..n : j = 2 * i + 1)
    <3>1. j \in Nat /\ n \in Nat /\ 1 <= j /\ j <= 1 + 2 * n
      BY <1>1
    <3>2. CASE j % 2 = 0
      <4>1. j = 2 * (j \div 2) /\ j \div 2 \in 1..n
        BY <3>1, <3>2
      <4> QED
        BY <4>1
    <3>3. CASE j % 2 # 0 /\ j # 1
      <4>1. j = 2 * (j \div 2) + 1 /\ j \div 2 \in 1..n
        BY <3>1, <3>3
      <4> QED
        BY <4>1
    <3> QED
      BY <3>2, <3>3
  <2> QED
    BY <2>1, <2>2, <2>3, <2>4
<1> QED
  BY <1>1, <1>3 DEF Range, P

(* All the pieces of a database can be read, and give it back but for the  *)
(* flags, which come back right.                                           *)
LEMMA PiecesReadable ==
  ASSUME NEW d, Good(d)
  PROVE  Readable(Pieces(d)) /\ Loaded(Pieces(d)) = Repaired(d)
<1> DEFINE P == Pieces(d)
           N == Sorted(NamesIn(d))
           n == Cardinality(NamesIn(d))
<1>1. /\ n \in Nat
      /\ N \in [1..n -> NamesIn(d)]
      /\ IsInjective(N)
      /\ \A m \in NamesIn(d) : \E i \in 1..n : N[i] = m
      /\ P \in Seq({P[j] : j \in 1..(1 + 2 * n)})
      /\ Len(P) = 1 + 2 * n
      /\ P[1] = Count(n)
      /\ \A i \in 1..n : /\ P[2 * i] = NamePiece(N[i])
                         /\ P[2 * i + 1] = StructurePiece(ToBytes(d[N[i]]))
  BY PiecesMean
<1>2. Torn \notin Range(P)
  BY NotTorn
<1> HIDE DEF P, N, n
<1>3. /\ P[1].count = n
      /\ \A i \in 1..n : /\ P[2 * i].name = N[i]
                         /\ P[2 * i + 1].snapshot = ToBytes(d[N[i]])
  <2>1. \A x : Count(x).count = x /\ NamePiece(x).name = x /\ StructurePiece(x).snapshot = x
    BY DEF Count, NamePiece, StructurePiece
  <2>2. P[1].count = n
    BY <1>1, <2>1
  <2>3. ASSUME NEW i \in 1..n
        PROVE  P[2 * i].name = N[i] /\ P[2 * i + 1].snapshot = ToBytes(d[N[i]])
    BY <1>1, <2>1
  <2> QED
    BY <2>2, <2>3
<1>4. \A m \in NamesIn(d) : /\ LoadVerdict(ToBytes(d[m])) = "Ok"
                            /\ Wired(ToBytes(d[m])) = Repaired(d)[m]
  <2>1. ASSUME NEW m \in NamesIn(d)
        PROVE  LoadVerdict(ToBytes(d[m])) = "Ok" /\ Wired(ToBytes(d[m])) = Repaired(d)[m]
    <3>1. m \in Names /\ Repaired(d)[m] = [d[m] EXCEPT !.hasFirst = d[m].nodes # {}]
      BY DEF NamesIn, Repaired
    <3>2. Coherent(d[m]) /\ Valued(d[m])
      BY DEF Good
    <3> QED
      BY <3>1, <3>2, RoundTrip DEF Coherent
  <2> QED
    BY <2>1
<1>5. Readable(P)
  <2>1. P # <<>>
    BY <1>1
  <2>2. \A i, j \in 1..n : P[2 * i].name = P[2 * j].name => i = j
    <3>1. \A i, j \in 1..n : N[i] = N[j] => i = j
      BY <1>1 DEF IsInjective
    <3> QED
      BY <1>3, <3>1
  <2>3. ASSUME NEW i \in 1..n
        PROVE  LoadVerdict(P[2 * i + 1].snapshot) = "Ok"
    <3>1. N[i] \in NamesIn(d)
      BY <1>1
    <3> QED
      BY <1>3, <1>4, <3>1
  <2>4. ASSUME NEW i \in 1..n
        PROVE  P[2 * i].name # EmptyKey
    <3>1. N[i] \in Names
      BY <1>1 DEF NamesIn
    <3> QED
      BY <1>3, <3>1, NamesAssumption
  <2> DEFINE c == P[1].count
  <2>5. c = n
    BY <1>3
  <2>6. Readable(P) <=> /\ P # <<>>
                        /\ Torn \notin Range(P)
                        /\ Len(P) = 1 + 2 * c
                        /\ \A i \in 1..c : P[2 * i].name # EmptyKey
                        /\ \A i, j \in 1..c : P[2 * i].name = P[2 * j].name => i = j
                        /\ \A i \in 1..c : LoadVerdict(P[2 * i + 1].snapshot) = "Ok"
    BY Zenon DEF Readable
  <2> HIDE DEF c
  <2> QED
    BY <1>1, <1>2, <2>1, <2>2, <2>3, <2>4, <2>5, <2>6
<1> DEFINE At(i, m) == i % 2 = 0 /\ P[i].name = m
           Places == 2..(Len(P) - 1)
<1>6. \A i \in 1..n : 2 * i \in Places /\ (2 * i) % 2 = 0
  <2>1. ASSUME NEW i \in 1..n
        PROVE  2 * i \in Places /\ (2 * i) % 2 = 0
    BY <1>1
  <2> QED
    BY <2>1
<1>7. \A i \in Places : i % 2 = 0 => i \div 2 \in 1..n /\ i = 2 * (i \div 2)
  <2>1. ASSUME NEW i \in Places, i % 2 = 0
        PROVE  i \div 2 \in 1..n /\ i = 2 * (i \div 2)
    BY <1>1, <2>1
  <2> QED
    BY <2>1
<1>8. ASSUME NEW i \in Places, NEW m, At(i, m)
      PROVE  m \in NamesIn(d) /\ P[1 + i].snapshot = ToBytes(d[m])
  <2>1. PICK q \in 1..n : i = 2 * q
    BY <1>7, <1>8
  <2>2. N[q] = m /\ m \in NamesIn(d)
    BY <1>1, <1>3, <1>8, <2>1
  <2>3. 1 + i = 2 * q + 1
    BY <1>1, <2>1
  <2> QED
    BY <1>3, <2>2, <2>3
<1>9. ASSUME NEW m \in Names
      PROVE  Loaded(P)[m] = Repaired(d)[m]
  <2>1. Loaded(P)[m] = IF \E i \in Places : At(i, m)
                       THEN Wired(P[1 + CHOOSE i \in Places : At(i, m)].snapshot)
                       ELSE NoStructure
    BY DEF Loaded
  <2>2. CASE m \in NamesIn(d)
    <3>1. PICK q \in 1..n : N[q] = m
      BY <1>1, <2>2
    <3>2. 2 * q \in Places /\ At(2 * q, m)
      BY <1>3, <1>6, <3>1
    <3> HIDE DEF Places, At
    <3>3. PICK i \in Places : At(i, m) /\ i = CHOOSE j \in Places : At(j, m)
      BY <3>2
    <3>4. Loaded(P)[m] = Wired(P[1 + i].snapshot)
      BY <2>1, <3>3
    <3>5. P[1 + i].snapshot = ToBytes(d[m])
      BY <1>8, <3>3
    <3> QED
      BY <1>4, <2>2, <3>4, <3>5
  <2>3. CASE m \notin NamesIn(d)
    <3>1. ~\E i \in Places : At(i, m)
      BY <1>8, <2>3
    <3> HIDE DEF Places, At
    <3> QED
      BY <2>1, <2>3, <3>1 DEF Repaired
  <2> QED
    BY <2>2, <2>3
<1>10. Loaded(P) = Repaired(d)
  <2>1. Loaded(P) = [m \in Names |-> Loaded(P)[m]]
    BY DEF Loaded
  <2>2. Repaired(d) = [m \in Names |-> Repaired(d)[m]]
    BY DEF Repaired
  <2> QED
    BY <1>9, <2>1, <2>2
<1> QED
  BY <1>5, <1>10 DEF P

(* Of the beginnings of what Save writes only the whole can be read.       *)
LEMMA OnlyWholeIsReadable ==
  ASSUME NEW d, Good(d), NEW i \in 0..Len(Pieces(d)), NEW f,
         \/ f = FirstOf(Pieces(d), i)
         \/ f = Append(FirstOf(Pieces(d), i), Torn),
         Readable(f)
  PROVE  f = Pieces(d)
<1> DEFINE P == Pieces(d)
           n == Cardinality(NamesIn(d))
           Any == {P[j] : j \in 1..(1 + 2 * n)}
           g == FirstOf(P, i)
<1>1. /\ n \in Nat
      /\ P \in Seq(Any)
      /\ Len(P) = 1 + 2 * n
      /\ DOMAIN P = 1..(1 + 2 * n)
      /\ P[1] = Count(n)
  BY PiecesMean
<1>2. i \in Nat /\ i <= 1 + 2 * n
  BY <1>1
<1>3. g \in [1..i -> Any] /\ \A j \in 1..i : g[j] = P[j]
  BY <1>1, <1>2 DEF FirstOf
<1> HIDE DEF P, n, Any, g
<1>4. g \in Seq(Any) /\ Len(g) = i
  BY <1>2, <1>3
<1>5. f # Append(g, Torn)
  <2>1. SUFFICES ASSUME f = Append(g, Torn) PROVE FALSE
    OBVIOUS
  <2>2. g \in Seq(Any \cup {Torn})
    BY <1>2, <1>3
  <2>3. /\ DOMAIN f = 1..(i + 1)
        /\ f[i + 1] = Torn
    BY <1>2, <1>4, <2>1, <2>2
  <2>4. Torn \in Range(f)
    BY <1>2, <2>3 DEF Range
  <2> QED
    BY <2>4 DEF Readable
<1>6. f = g
  BY <1>5 DEF g, P
<1>7. i >= 1 /\ f[1] = Count(n)
  <2>1. f # <<>>
    BY DEF Readable
  <2>2. i # 0
    BY <1>4, <1>6, <2>1
  <2> QED
    BY <1>1, <1>2, <1>3, <1>6, <2>2
<1>8. i = 1 + 2 * n
  <2>1. Len(f) = 1 + 2 * f[1].count
    BY DEF Readable
  <2>2. Count(n).count = n
    BY DEF Count
  <2> QED
    BY <1>4, <1>6, <1>7, <2>1, <2>2
<1>9. g = P
  <2>1. P = [j \in 1..i |-> P[j]]
    BY <1>1, <1>8
  <2> QED
    BY <2>1 DEF g, FirstOf
<1> QED
  BY <1>6, <1>9 DEF P

(* What is loaded of a file, whoever wrote it.                             *)
LEMMA LoadedGood ==
  ASSUME NEW f, f \in Seq(Range(f)), \A i \in DOMAIN f : f[i] \in PiecesAt(i), Readable(f)
  PROVE  Good(Loaded(f)) /\ \A n \in NamesIn(Loaded(f)) : Sound(Loaded(f)[n])
<1> DEFINE c == f[1].count
           L == Len(f)
           d == Loaded(f)
<1>1. L \in Nat /\ DOMAIN f = 1..L /\ f # <<>> /\ L = 1 + 2 * c
  BY DEF Readable
<1>2. \A i \in 1..L : f[i] # Torn
  BY <1>1 DEF Readable, Range
<1>3. c \in Nat
  <2>1. 1 \in 1..L
    BY <1>1
  <2>2. f[1] \in [count : Nat]
    BY <1>1, <1>2, <2>1 DEF PiecesAt
  <2> QED
    BY <2>2
<1>4. \A i \in 1..c : LoadVerdict(f[2 * i + 1].snapshot) = "Ok"
  BY DEF Readable
<1> HIDE DEF c
<1>5. ASSUME NEW i \in 1..c
      PROVE  Sound(Wired(f[2 * i + 1].snapshot)) /\ Valued(Wired(f[2 * i + 1].snapshot))
  <2>1. 2 * i + 1 \in 1..L /\ 2 * i + 1 # 1 /\ (2 * i + 1) % 2 # 0
    BY <1>1, <1>3
  <2>2. f[2 * i + 1] \in [snapshot : Snapshots]
    BY <1>1, <1>2, <2>1 DEF PiecesAt
  <2>3. f[2 * i + 1].snapshot \in Snapshots
    BY <2>2
  <2> QED
    BY <1>4, <2>3, AcceptedSound
<1> DEFINE At(i, m) == i % 2 = 0 /\ f[i].name = m
           Places == 2..(Len(f) - 1)
<1>6. ASSUME NEW m \in NamesIn(d)
      PROVE  \E q \in 1..c : f[2 * q].name = m /\ d[m] = Wired(f[2 * q + 1].snapshot)
  <2>1. m \in Names /\ d[m] # NoStructure
    BY DEF NamesIn
  <2>2. d[m] = IF \E i \in Places : At(i, m)
               THEN Wired(f[1 + CHOOSE i \in Places : At(i, m)].snapshot)
               ELSE NoStructure
    BY <2>1 DEF Loaded
  <2> HIDE DEF Places, At, d
  <2>3. PICK i \in Places : At(i, m) /\ i = CHOOSE j \in Places : At(j, m)
    BY <2>1, <2>2
  <2>4. d[m] = Wired(f[1 + i].snapshot)
    BY <2>2, <2>3
  <2>5. i \div 2 \in 1..c /\ i = 2 * (i \div 2) /\ 1 + i = 2 * (i \div 2) + 1
    <3>1. i \in 2..(L - 1) /\ i % 2 = 0
      BY <2>3 DEF Places, At
    <3> HIDE DEF L
    <3> QED
      BY <1>1, <1>3, <3>1
  <2>6. f[i].name = m
    BY <2>3 DEF At
  <2> QED
    BY <2>4, <2>5, <2>6
<1> HIDE DEF L, Places, At
<1>7. \A m \in NamesIn(d) : Sound(d[m]) /\ Valued(d[m])
  BY <1>5, <1>6
<1>8. IsFiniteSet(NamesIn(d))
  <2> DEFINE T == {f[2 * q].name : q \in 1..c}
             g == [q \in 1..c |-> f[2 * q].name]
  <2>1. g \in Surjection(1..c, T)
    BY DEF Surjection
  <2>2. IsFiniteSet(1..c)
    BY <1>3, FS_Interval
  <2>3. IsFiniteSet(T)
    BY <2>1, <2>2, FS_Surjection
  <2>4. NamesIn(d) \subseteq T
    BY <1>6
  <2> QED
    BY <2>3, <2>4, FS_Subset
<1>9. d \in Databases
  <2>1. d = [m \in Names |-> d[m]]
    BY DEF Loaded
  <2> HIDE DEF d
  <2>2. \A m \in Names : d[m] \in Structures \cup {NoStructure}
    BY <1>7 DEF NamesIn, Sound
  <2> QED
    BY <2>1, <2>2 DEF Databases
<1> QED
  BY <1>7, <1>8, <1>9 DEF Good, Coherent, Sound

(* What is loaded of the program's own file.                               *)
LEMMA RepairedGood ==
  ASSUME NEW d, Good(d)
  PROVE  /\ Good(Repaired(d))
         /\ \A n \in NamesIn(Repaired(d)) : Sound(Repaired(d)[n])
<1> DEFINE e == Repaired(d)
<1>1. e = [m \in Names |-> e[m]]
  BY DEF Repaired
<1>2. ASSUME NEW m \in NamesIn(d)
      PROVE  Sound(e[m]) /\ Valued(e[m])
  <2>1. m \in Names /\ e[m] = [d[m] EXCEPT !.hasFirst = d[m].nodes # {}]
    BY DEF NamesIn, Repaired
  <2>2. Coherent(d[m]) /\ Valued(d[m])
    BY DEF Good
  <2>3. /\ ToBytes(d[m]) \in Snapshots
        /\ LoadVerdict(ToBytes(d[m])) = "Ok"
        /\ Wired(ToBytes(d[m])) = e[m]
    BY <2>1, <2>2, RoundTrip DEF Coherent
  <2> QED
    BY <2>3, AcceptedSound
<1>3. \A m \in Names : m \notin NamesIn(d) => e[m] = NoStructure
  BY DEF Repaired
<1> HIDE DEF e
<1>4. NamesIn(e) \subseteq NamesIn(d)
  BY <1>3 DEF NamesIn
<1>5. e \in Databases
  BY <1>1, <1>2, <1>3 DEF Databases, Sound
<1>6. IsFiniteSet(NamesIn(e))
  BY <1>4, FS_Subset DEF Good
<1> QED
  BY <1>2, <1>4, <1>5, <1>6 DEF Good, Coherent, Sound, e

-----------------------------------------------------------------------------
(* The inductive invariant.                                                *)

LEMMA EmptyGood == Good(NoStructures)
<1>1. NoStructures \in Databases
  BY DEF NoStructures, Databases
<1>2. NamesIn(NoStructures) = {}
  BY DEF NoStructures, NamesIn
<1> QED
  BY <1>1, <1>2, FS_EmptySet DEF Good

LEMMA DatabaseInitInv == Init => DatabaseInv
<1>1. NamesIn(NoStructures) = {}
  BY DEF NoStructures, NamesIn
<1> QED
  BY <1>1, EmptyGood DEF Init, DatabaseInv

(* A command on one structure leaves the others alone, and the file.       *)
LEMMA UpdateInv ==
  ASSUME DatabaseInv, NEW n \in Names, NEW s,
         \/ s = NoStructure
         \/ Coherent(s) /\ Valued(s) /\ (n \in lax \/ WellFormed(s)),
         Update(n, s)
  PROVE  DatabaseInv'
<1>1. /\ db' = [db EXCEPT ![n] = s]
      /\ lax' = IF s = NoStructure THEN lax \ {n} ELSE lax
      /\ UNCHANGED <<file, pending, thread, saved, answered>>
  BY DEF Update
<1>2. db \in Databases /\ IsFiniteSet(NamesIn(db))
  BY DEF DatabaseInv, Good
<1>3. db' \in Databases
  BY <1>1, <1>2 DEF Databases, Coherent
<1>4. NamesIn(db') \subseteq NamesIn(db) \cup {n}
  BY <1>1, <1>2 DEF NamesIn, Databases
<1>5. IsFiniteSet(NamesIn(db'))
  BY <1>2, <1>4, FS_AddElement, FS_Subset
<1>6. ASSUME NEW m \in NamesIn(db')
      PROVE  Coherent(db'[m]) /\ Valued(db'[m]) /\ (m \in lax' \/ WellFormed(db'[m]))
  <2>1. CASE m = n
    <3>1. db'[m] = s /\ s # NoStructure
      BY <1>1, <1>2, <1>6, <2>1 DEF NamesIn, Databases
    <3> QED
      BY <1>1, <2>1, <3>1
  <2>2. CASE m # n
    <3>1. db'[m] = db[m] /\ m \in NamesIn(db) /\ (m \in lax => m \in lax')
      BY <1>1, <1>2, <1>6, <2>2 DEF NamesIn, Databases
    <3> QED
      BY <3>1 DEF DatabaseInv, Good
  <2> QED
    BY <2>1, <2>2
<1>7. Good(db')
  BY <1>3, <1>5, <1>6 DEF Good
<1>8. /\ Saving => Saving'
      /\ Beginning => Beginning'
  BY <1>1 DEF Saving, Beginning
<1> QED
  BY <1>1, <1>6, <1>7, <1>8 DEF DatabaseInv

LEMMA IdleInv ==
  ASSUME DatabaseInv, UNCHANGED vars
  PROVE  DatabaseInv'
<1>1. /\ Saving => Saving'
      /\ Beginning => Beginning'
  BY DEF vars, Saving, Beginning
<1> QED
  BY <1>1 DEF vars, DatabaseInv

(* An accepted command keeps a structure well-formed.                      *)
LEMMA AcceptedKeeps ==
  ASSUME NEW s, WellFormed(s)
  PROVE  /\ \A k \in Keys \cup {EmptyKey}, v \in Values : AddNodeVerdict(s, k) = "Ok" =>
              WellFormed(Insert(s, k, v))
         /\ \A k \in Keys \cup {EmptyKey}, v \in Values, ps, cs \in KeyLists :
              AddNodeWithEdgesVerdict(s, k, ps, cs) = "Ok" =>
                WellFormed(InsertLinked(s, k, v, Range(ps), Range(cs)))
         /\ \A p, c \in Keys : AddEdgeVerdict(s, p, c) = "Ok" => WellFormed(AddChild(s, p, c))
         /\ \A k \in Keys : DeleteVerdict(s, k) = "Ok" => WellFormed(DeleteNode(s, k))
<1>1. ASSUME NEW k \in Keys \cup {EmptyKey}, NEW v \in Values, AddNodeVerdict(s, k) = "Ok"
      PROVE  WellFormed(Insert(s, k, v))
  <2>1. k \in Keys /\ k \notin s.nodes /\ (s.mode = "semi-strict" => s.nodes = {})
    BY <1>1, AddNodeOk
  <2>2. {} \in NodeSets(s) /\ Apart(s, {}, {})
    BY DEF NodeSets, Apart
  <2>3. InsertLinked(s, k, v, {}, {}) = Insert(s, k, v)
    BY <2>1, InsertIsUnlinked DEF WellFormed
  <2>4. WellFormed(InsertLinked(s, k, v, {}, {}))
    BY <2>1, <2>2, InsertLinkedWellFormed
  <2> QED
    BY <2>3, <2>4
<1>2. ASSUME NEW k \in Keys \cup {EmptyKey}, NEW v \in Values, NEW ps \in KeyLists,
             NEW cs \in KeyLists, AddNodeWithEdgesVerdict(s, k, ps, cs) = "Ok"
      PROVE  WellFormed(InsertLinked(s, k, v, Range(ps), Range(cs)))
  <2>1. /\ k \in Keys
        /\ k \notin s.nodes
        /\ Range(ps) \in NodeSets(s)
        /\ Range(cs) \in NodeSets(s)
        /\ Apart(s, Range(ps), Range(cs))
        /\ s.mode = "semi-strict" => s.nodes = {} \/ Range(ps) \cup Range(cs) # {}
    BY <1>2, AddNodeWithEdgesOk
  <2> QED
    BY <2>1, InsertLinkedWellFormed
<1>3. ASSUME NEW p \in Keys, NEW c \in Keys, AddEdgeVerdict(s, p, c) = "Ok"
      PROVE  WellFormed(AddChild(s, p, c))
  BY <1>3, AddEdgeOk, AddChildWellFormed
<1> QED
  BY <1>1, <1>2, <1>3, DeleteWellFormed

LEMMA CommandInv ==
  ASSUME DatabaseInv,
         \/ \E n \in Names \cup {EmptyKey}, mode \in Modes \cup {"other"} : AddStructure(n, mode)
         \/ \E n \in Names, k \in Keys \cup {EmptyKey}, v \in Values :
               \/ AddNode(n, k, v)
               \/ \E ps, cs \in KeyLists : AddNodeWithEdges(n, k, v, ps, cs)
         \/ \E n \in Names \cup {EmptyKey}, s \in Rooted : AddRooted(n, s)
         \/ \E n \in Names : RemoveStructure(n)
         \/ \E n \in Names, p, c \in Keys : AddEdge(n, p, c)
         \/ \E n \in Names, k \in Keys : Delete(n, k)
  PROVE  DatabaseInv'
<1>1. ASSUME Refuse
      PROVE  DatabaseInv'
  BY <1>1, IdleInv DEF Refuse
<1>2. ASSUME NEW n \in Names \cup {EmptyKey}, NEW mode \in Modes \cup {"other"},
             AddStructure(n, mode)
      PROVE  DatabaseInv'
  <2>1. CASE n # EmptyKey /\ mode \in Modes /\ n \notin NamesIn(db)
    <3>1. WellFormed(EmptyStructure(mode)) /\ Valued(EmptyStructure(mode))
      BY <2>1, EmptyWellFormed, EmptyValued
    <3>2. Coherent(EmptyStructure(mode))
      BY <3>1, NewCoherent
    <3> QED
      BY <1>2, <2>1, <3>1, <3>2, UpdateInv DEF AddStructure
  <2>2. CASE ~(n # EmptyKey /\ mode \in Modes /\ n \notin NamesIn(db))
    BY <1>1, <1>2, <2>2 DEF AddStructure
  <2> QED
    BY <2>1, <2>2
<1>3. ASSUME NEW n \in Names \cup {EmptyKey}, NEW s \in Rooted, AddRooted(n, s)
      PROVE  DatabaseInv'
  <2>1. PICK k \in Keys, v \in Values, mode \in Modes : s = WithRoot(k, v, mode)
    BY RootedAssumption
  <2>2. WellFormed(s) /\ Coherent(s) /\ Valued(s)
    BY <2>1, WithRootWellFormed, WithRootValued, NewCoherent
  <2> QED
    BY <1>1, <1>3, <2>2, UpdateInv DEF AddRooted
<1>4. ASSUME NEW n \in Names, RemoveStructure(n)
      PROVE  DatabaseInv'
  <2>1. Update(n, NoStructure)
    BY <1>4 DEF RemoveStructure
  <2> QED
    BY <2>1, UpdateInv
<1>5. ASSUME NEW n \in Names, NEW verdict, NEW next, Change(n, verdict, next),
             n \in NamesIn(db) /\ verdict = "Ok" => Coherent(next) /\ Valued(next),
             n \in NamesIn(db) /\ verdict = "Ok" /\ WellFormed(db[n]) => WellFormed(next)
      PROVE  DatabaseInv'
  <2>1. CASE n \in NamesIn(db) /\ verdict = "Ok"
    <3>1. Coherent(next) /\ Valued(next) /\ (n \in lax \/ WellFormed(next))
      BY <1>5, <2>1 DEF DatabaseInv
    <3> QED
      BY <1>5, <2>1, <3>1, UpdateInv DEF Change
  <2>2. CASE ~(n \in NamesIn(db) /\ verdict = "Ok")
    BY <1>1, <1>5, <2>2 DEF Change
  <2> QED
    BY <2>1, <2>2
<1>6. \A n \in NamesIn(db) : Coherent(db[n]) /\ Valued(db[n])
  BY DEF DatabaseInv, Good
<1>7. ASSUME NEW n \in Names, NEW k \in Keys \cup {EmptyKey}, NEW v \in Values,
             AddNode(n, k, v)
      PROVE  DatabaseInv'
  BY <1>5, <1>6, <1>7, AcceptedCoherent, AcceptedKeeps DEF AddNode
<1>8. ASSUME NEW n \in Names, NEW k \in Keys \cup {EmptyKey}, NEW v \in Values,
             NEW ps \in KeyLists, NEW cs \in KeyLists, AddNodeWithEdges(n, k, v, ps, cs)
      PROVE  DatabaseInv'
  BY <1>5, <1>6, <1>8, AcceptedCoherent, AcceptedKeeps DEF AddNodeWithEdges
<1>9. ASSUME NEW n \in Names, NEW p \in Keys, NEW c \in Keys, AddEdge(n, p, c)
      PROVE  DatabaseInv'
  BY <1>5, <1>6, <1>9, AcceptedCoherent, AcceptedKeeps DEF AddEdge
<1>10. ASSUME NEW n \in Names, NEW k \in Keys, Delete(n, k)
       PROVE  DatabaseInv'
  BY <1>5, <1>6, <1>10, AcceptedCoherent, AcceptedKeeps DEF Delete
<1> QED
  BY <1>2, <1>3, <1>4, <1>7, <1>8, <1>9, <1>10

LEMMA SaveInv ==
  ASSUME DatabaseInv, SaveOpens \/ SaveWrites \/ SaveDone \/ SaveFails
  PROVE  DatabaseInv'
<1> DEFINE P == Pieces(saved)
           n == Cardinality(NamesIn(saved))
           L == Len(P)
<1>1. CASE SaveOpens
  <2> DEFINE Q == Pieces(db)
  <2>1. Good(db) /\ db' = db /\ lax' = lax /\ saved' = db /\ file' = <<>> /\ pending' = Q
        /\ thread' = "saving" /\ answered' = FALSE
    BY <1>1 DEF DatabaseInv, SaveOpens
  <2> DEFINE l == 1 + 2 * Cardinality(NamesIn(db))
  <2>2. l \in Nat /\ Len(Q) = l /\ DOMAIN Q = 1..l /\ Q \in Seq({Q[j] : j \in 1..l})
    <3>1. Cardinality(NamesIn(db)) \in Nat
      BY <2>1, PiecesMean
    <3>2. Len(Q) = l /\ DOMAIN Q = 1..l /\ Q \in Seq({Q[j] : j \in 1..l})
      BY <2>1, PiecesMean
    <3> QED
      BY <3>1, <3>2
  <2> HIDE DEF Q, l
  <2>3. <<>> = [j \in 1..0 |-> Q[j]] /\ Q = [j \in 1..(l - 0) |-> Q[0 + j]]
    BY <2>2
  <2>4. 0 \in 0..l
    BY <2>2
  <2>5. Saving'
    BY <2>1, <2>2, <2>3, <2>4 DEF Saving, FirstOf, Q
  <2> QED
    BY <2>1, <2>5 DEF DatabaseInv
<1>2. CASE thread = "saving"
  <2>1. PICK i \in 0..L : /\ file = FirstOf(P, i)
                          /\ pending = [j \in 1..(L - i) |-> P[i + j]]
    BY <1>2 DEF DatabaseInv, Saving
  <2>2. L \in Nat /\ P \in Seq({P[j] : j \in 1..L}) /\ DOMAIN P = 1..L
    <3>1. /\ n \in Nat
          /\ P \in Seq({P[j] : j \in 1..(1 + 2 * n)})
          /\ L = 1 + 2 * n
          /\ DOMAIN P = 1..(1 + 2 * n)
      BY PiecesMean DEF DatabaseInv
    <3> HIDE DEF P, n, L
    <3> QED
      BY <3>1
  <2>3. answered = FALSE \/ ~answered
    BY <1>2 DEF DatabaseInv
  <2> HIDE DEF L
  <2> DEFINE Any == {P[j] : j \in 1..L}
  <2>4. /\ i \in Nat
        /\ i <= L
        /\ file \in Seq(Any) /\ Len(file) = i
        /\ pending \in Seq(Any) /\ Len(pending) = L - i
    <3>1. file \in [1..i -> Any] /\ pending \in [1..(L - i) -> Any]
      BY <2>1, <2>2 DEF FirstOf
    <3>2. i \in Nat /\ i <= L /\ L - i \in Nat
      BY <2>2
    <3>3. Len(file) = i /\ file \in Seq(Any)
      BY <3>1, <3>2
    <3>4. Len(pending) = L - i /\ pending \in Seq(Any)
      BY <3>1, <3>2
    <3> QED
      BY <3>2, <3>3, <3>4
  <2> HIDE DEF P, Any
  <2>5. CASE SaveWrites
    <3>1. /\ pending # <<>>
          /\ file' = Append(file, Head(pending))
          /\ pending' = Tail(pending)
          /\ UNCHANGED <<db, thread, lax, saved, answered>>
      BY <2>5 DEF SaveWrites
    <3>2. i < L
      BY <2>2, <2>4, <3>1
    <3>3. Head(pending) = P[i + 1]
      BY <2>1, <2>2, <2>4, <3>2
    <3>4. file' = FirstOf(P, i + 1)
      <4>1. file = [j \in 1..i |-> P[j]]
        BY <2>1 DEF FirstOf
      <4>2. file' \in Seq(Any) /\ Len(file') = i + 1
        BY <2>2, <2>4, <3>1, <3>2
      <4>3. ASSUME NEW j \in 1..(i + 1)
            PROVE  file'[j] = P[j]
        BY <2>4, <3>1, <3>3, <4>1, <4>3
      <4> QED
        BY <2>4, <4>2, <4>3 DEF FirstOf
    <3>5. pending' = [j \in 1..(L - (i + 1)) |-> P[(i + 1) + j]]
      <4>1. pending' \in Seq(Any) /\ Len(pending') = L - (i + 1)
        BY <2>2, <2>4, <3>1, <3>2
      <4>2. ASSUME NEW j \in 1..(L - (i + 1))
            PROVE  pending'[j] = P[(i + 1) + j]
        <5>1. j + 1 \in 1..(L - i) /\ i + (j + 1) = (i + 1) + j
          BY <2>2, <2>4, <4>2
        <5>2. pending'[j] = pending[j + 1]
          BY <2>2, <2>4, <3>1, <3>2, <4>2
        <5>3. pending[j + 1] = P[i + (j + 1)]
          BY <2>1, <5>1
        <5> QED
          BY <5>1, <5>2, <5>3
      <4> QED
        BY <2>2, <2>4, <3>2, <4>1, <4>2
    <3>6. i + 1 \in 0..L
      BY <2>2, <2>4, <3>2
    <3>7. Saving'
      BY <3>1, <3>4, <3>5, <3>6 DEF Saving, P, L
    <3> QED
      BY <1>2, <2>3, <3>1, <3>7 DEF DatabaseInv
  <2>6. CASE SaveDone
    <3>1. i = L
      BY <2>2, <2>4, <2>6 DEF SaveDone
    <3>2. file = P
      <4>1. P = [j \in 1..L |-> P[j]]
        BY <2>2
      <4> QED
        BY <2>1, <3>1, <4>1 DEF FirstOf
    <3>3. /\ UNCHANGED <<db, lax, saved, file>>
          /\ pending' = <<>>
          /\ thread' = "idle"
      BY <2>6 DEF SaveDone, EndSave
    <3>4. Beginning'
      BY <2>1, <3>1, <3>3 DEF Beginning, P, L
    <3>5. file' = Pieces(saved')
      BY <3>2, <3>3 DEF P
    <3> QED
      BY <3>3, <3>4, <3>5 DEF DatabaseInv
  <2>7. CASE SaveFails
    <3>1. i < L
      BY <2>2, <2>4, <2>7 DEF SaveFails
    <3>2. /\ UNCHANGED <<db, lax, saved>>
          /\ pending' = <<>>
          /\ thread' = "idle"
          /\ answered' = FALSE
      BY <2>7 DEF SaveFails, EndSave
    <3>3. file' = FirstOf(P, i) \/ file' = Append(FirstOf(P, i), Torn)
      BY <2>1, <2>7 DEF SaveFails, CutOff
    <3>4. Beginning'
      BY <2>1, <3>1, <3>2, <3>3 DEF Beginning, P, L
    <3> QED
      BY <3>2, <3>4 DEF DatabaseInv
  <2>8. CASE SaveOpens
    BY <1>1, <2>8
  <2> QED
    BY <2>5, <2>6, <2>7, <2>8
<1> QED
  BY <1>1, <1>2 DEF SaveWrites, SaveDone, SaveFails, EndSave

LEMMA ProcessInv ==
  ASSUME DatabaseInv,
         Shutdown \/ Crash \/ StartEmpty \/ StartFromSnapshot \/ StartFromForeign
  PROVE  DatabaseInv'
<1>0. Good(NoStructures) /\ NamesIn(NoStructures) = {}
  BY EmptyGood DEF NoStructures, NamesIn
<1>1. CASE Shutdown
  <2>1. /\ thread = "idle" /\ thread' = "down"
        /\ Good(db') /\ NamesIn(db') = {} /\ pending' = <<>>
        /\ UNCHANGED <<file, saved, answered>>
    BY <1>0, <1>1 DEF Shutdown, Gone
  <2>2. Beginning => Beginning'
    BY <2>1 DEF Beginning
  <2> QED
    BY <2>1, <2>2 DEF DatabaseInv
<1>2. CASE Crash
  <2>1. /\ thread' = "down"
        /\ Good(db') /\ NamesIn(db') = {} /\ pending' = <<>>
        /\ UNCHANGED <<saved, answered>>
        /\ file' = file \/ (pending # <<>> /\ file' = Append(file, Torn))
    BY <1>0, <1>2 DEF Crash, Gone, CutOff, Range
  <2>2. CASE thread # "saving"
    <3>1. file' = file
      BY <2>1, <2>2 DEF DatabaseInv
    <3>2. Beginning => Beginning'
      BY <2>1, <3>1 DEF Beginning
    <3> QED
      BY <2>1, <2>2, <3>1, <3>2 DEF DatabaseInv
  <2>3. CASE thread = "saving"
    <3>1. PICK i \in 0..Len(Pieces(saved)) :
            /\ file = FirstOf(Pieces(saved), i)
            /\ pending = [j \in 1..(Len(Pieces(saved)) - i) |-> Pieces(saved)[i + j]]
      BY <2>3 DEF DatabaseInv, Saving
    <3>2. Len(Pieces(saved)) \in Nat
      <4>1. Cardinality(NamesIn(saved)) \in Nat
        BY PiecesMean DEF DatabaseInv
      <4>2. Len(Pieces(saved)) = 1 + 2 * Cardinality(NamesIn(saved))
        BY PiecesMean DEF DatabaseInv
      <4> QED
        BY <4>1, <4>2
    <3> DEFINE P == Pieces(saved)
    <3> HIDE DEF P
    <3>3. i = Len(P) => pending = <<>>
      BY <3>1, <3>2 DEF P
    <3>4. \/ file' = FirstOf(P, i)
          \/ i < Len(P) /\ file' = Append(FirstOf(P, i), Torn)
      BY <2>1, <3>1, <3>2, <3>3 DEF P
    <3>5. Beginning'
      BY <2>1, <3>1, <3>4 DEF Beginning, P
    <3>6. ~answered
      BY <2>3 DEF DatabaseInv
    <3> QED
      BY <2>1, <3>5, <3>6 DEF DatabaseInv
  <2> QED
    BY <2>2, <2>3
<1>3. CASE StartEmpty
  <2>1. thread = "down" /\ thread' = "idle" /\ UNCHANGED <<db, file, pending, lax, saved, answered>>
    BY <1>3 DEF StartEmpty
  <2>2. Beginning => Beginning'
    BY <2>1 DEF Beginning
  <2> QED
    BY <2>1, <2>2 DEF DatabaseInv
<1>4. ASSUME NEW f, StartFrom(f),
             Good(Loaded(f)), \A n \in NamesIn(Loaded(f)) : Sound(Loaded(f)[n])
      PROVE  DatabaseInv'
  <2>1. /\ thread = "down" /\ thread' = "idle"
        /\ db' = Loaded(f)
        /\ lax' = {n \in NamesIn(Loaded(f)) : ~NoneAlone(Loaded(f)[n])}
        /\ UNCHANGED <<file, pending, saved, answered>>
    BY <1>4 DEF StartFrom
  <2>2. Beginning => Beginning'
    BY <2>1 DEF Beginning
  <2>3. ASSUME NEW n \in NamesIn(db')
        PROVE  n \in lax' \/ WellFormed(db'[n])
    BY <1>4, <2>1 DEF Sound, WellFormed
  <2> QED
    BY <1>4, <2>1, <2>2, <2>3 DEF DatabaseInv
<1>5. CASE StartFromSnapshot
  <2>1. file # NoFile /\ StartFrom(file) /\ thread = "down" /\ Readable(file)
    BY <1>5 DEF StartFromSnapshot, StartFrom
  <2>2. Beginning
    BY <2>1 DEF DatabaseInv
  <2>3. Loaded(file) = Repaired(saved)
    BY <2>1, <2>2, OnlyWholeIsReadable, PiecesReadable DEF Beginning, DatabaseInv
  <2> QED
    BY <1>4, <2>1, <2>3, RepairedGood DEF DatabaseInv
<1>6. CASE StartFromForeign
  <2>1. PICK f \in Foreign : StartFrom(f)
    BY <1>6 DEF StartFromForeign
  <2>2. Good(Loaded(f)) /\ \A n \in NamesIn(Loaded(f)) : Sound(Loaded(f)[n])
    BY <2>1, ForeignAssumption, LoadedGood DEF StartFrom
  <2> QED
    BY <1>4, <2>1, <2>2
<1> QED
  BY <1>1, <1>2, <1>3, <1>5, <1>6

LEMMA DatabaseNextInv == DatabaseInv /\ [Next]_vars => DatabaseInv'
<1> SUFFICES ASSUME DatabaseInv, [Next]_vars PROVE DatabaseInv'
  OBVIOUS
<1>1. CASE UNCHANGED vars
  BY <1>1, IdleInv
<1>2. CASE SaveRefused
  BY <1>2, IdleInv DEF SaveRefused, Refuse
<1> QED
  BY <1>1, <1>2, CommandInv, SaveInv, ProcessInv DEF Next

(* The inductive invariant holds throughout every run.                     *)
THEOREM DatabaseInvariance == Spec => []DatabaseInv
  BY DatabaseInitInv, DatabaseNextInv, PTL DEF Spec

-----------------------------------------------------------------------------
(* Whatever can be read of the snapshot file, after any number of saves    *)
(* that were cut off, crashes and restarts, is the whole database the last *)
(* Save to open the file found in memory.                                  *)
THEOREM ReadIsWhole == Spec => []ReadableIsSaved
<1>1. DatabaseInv => ReadableIsSaved
  <2> SUFFICES ASSUME DatabaseInv, file # NoFile, Readable(file)
               PROVE  Loaded(file) = Repaired(saved)
    BY DEF ReadableIsSaved
  <2>1. Saving \/ Beginning
    BY DEF DatabaseInv
  <2>2. \E i \in 0..Len(Pieces(saved)) : \/ file = FirstOf(Pieces(saved), i)
                                         \/ file = Append(FirstOf(Pieces(saved), i), Torn)
    BY <2>1 DEF Saving, Beginning
  <2>3. file = Pieces(saved)
    BY <2>2, OnlyWholeIsReadable DEF DatabaseInv
  <2> QED
    BY <2>3, PiecesReadable DEF DatabaseInv
<1> QED
  BY <1>1, DatabaseInvariance, PTL

(* A Save that was answered Ok can be started from until another Save      *)
(* opens the file.                                                         *)
THEOREM AnsweredIsReadable == Spec => []AnsweredSaveIsReadable
<1>1. DatabaseInv => AnsweredSaveIsReadable
  BY PiecesReadable DEF DatabaseInv, AnsweredSaveIsReadable
<1> QED
  BY <1>1, DatabaseInvariance, PTL

-----------------------------------------------------------------------------
(* What GetStructure tells of a structure is its nodes, values and links.  *)
LEMMA AnswerTells ==
  ASSUME NEW n, Coherent(db[n]), Valued(db[n]), NEW mode
  PROVE  LET s == db[n]
             t == Imagined(GetStructure(n), mode)
         IN  /\ t.nodes = s.nodes
             /\ t.mode = mode
             /\ t.hasFirst = (s.nodes # {})
             /\ t.value = s.value
             /\ t.children = s.children
             /\ t.parents = s.parents
<1> DEFINE s == db[n]
           answer == GetStructure(n)
           t == Imagined(answer, mode)
           in(k) == k \in DOMAIN answer
           vl == [k \in Keys |-> IF in(k) THEN answer[k].value ELSE NoValue]
           ch == [k \in Keys |-> IF in(k) THEN answer[k].children ELSE {}]
           pa == [k \in Keys |-> {p \in DOMAIN answer : k \in answer[p].children}]
           first == DOMAIN answer # {}
<1>1. /\ DOMAIN answer = s.nodes
      /\ \A k \in s.nodes : answer[k].value = s.value[k] /\ answer[k].children = s.children[k]
  BY DEF GetStructure
<1>2. s \in Structures /\ s.nodes \subseteq Keys
  BY NodesAreKeys DEF Coherent
<1>3. \A x, y \in Keys : /\ Child(s, x, y) <=> Parent(s, y, x)
                         /\ Child(s, x, y) => x \in s.nodes /\ y \in s.nodes
  BY MirroredMeans, InsideMeans DEF Coherent
<1>4. first = (s.nodes # {})
  BY <1>1
<1>5. t = [EmptyStructure(mode) EXCEPT !.nodes = DOMAIN answer, !.hasFirst = first,
                                       !.value = vl, !.children = ch, !.parents = pa]
  BY DEF Imagined
<1> HIDE DEF answer, first, t
<1>6. vl = s.value
  <2>1. \A k \in Keys : vl[k] = s.value[k]
    BY <1>1, <1>2 DEF Valued, Structures
  <2> QED
    BY <1>2, <2>1 DEF Structures
<1>7. ch = s.children
  <2>1. \A k \in Keys : k \notin s.nodes => s.children[k] = {}
    BY <1>2, <1>3 DEF Child, Structures
  <2>2. \A k \in Keys : ch[k] = s.children[k]
    BY <1>1, <2>1
  <2> QED
    BY <1>2, <2>2 DEF Structures
<1>8. pa = s.parents
  <2>1. ASSUME NEW k \in Keys
        PROVE  pa[k] = s.parents[k]
    <3>1. pa[k] = {p \in s.nodes : k \in s.children[p]}
      BY <1>1
    <3>2. s.parents[k] \subseteq Keys
      BY <1>2 DEF Structures
    <3>3. \A p \in Keys : p \in s.parents[k] <=> p \in s.nodes /\ k \in s.children[p]
      BY <1>3 DEF Child, Parent
    <3> QED
      BY <1>2, <3>1, <3>2, <3>3
  <2> QED
    BY <1>2, <2>1 DEF Structures
<1> HIDE DEF vl, ch, pa, s
<1>9. t = [root |-> NoRoot, nodes |-> DOMAIN answer, mode |-> mode, hasFirst |-> first,
           value |-> vl, parents |-> pa, children |-> ch]
  BY <1>5 DEF EmptyStructure
<1>10. /\ t.nodes = s.nodes
       /\ t.mode = mode
       /\ t.hasFirst = (s.nodes # {})
       /\ t.value = s.value
       /\ t.children = s.children
       /\ t.parents = s.parents
  BY <1>1, <1>4, <1>6, <1>7, <1>8, <1>9
<1> QED
  BY <1>10 DEF t, s, answer

(* The verdict on a link depends on nodes and children only; mode and flag *)
(* decide on deletions and on nodes without links.                         *)
LEMMA WhatDecides ==
  ASSUME NEW s, NEW t,
         t.nodes = s.nodes, t.children = s.children, t.parents = s.parents
  PROVE  /\ \A p, c : AddEdgeVerdict(s, p, c) = AddEdgeVerdict(t, p, c)
         /\ \A k, ps, cs : ps # <<>> \/ cs # <<>> =>
              AddNodeWithEdgesVerdict(s, k, ps, cs) = AddNodeWithEdgesVerdict(t, k, ps, cs)
         /\ t.mode = s.mode /\ t.hasFirst = s.hasFirst => \A k :
              /\ AddNodeVerdict(s, k) = AddNodeVerdict(t, k)
              /\ DeleteVerdict(s, k) = DeleteVerdict(t, k)
<1>1. \A x, y : HasPath(t, x, y) <=> HasPath(s, x, y)
  BY DEF HasPath, Closed, Successors
<1>2. \A p, c : AddEdgeVerdict(s, p, c) = AddEdgeVerdict(t, p, c)
  BY <1>1 DEF AddEdgeVerdict
<1>3. \A k, ps, cs : ps # <<>> \/ cs # <<>> =>
        AddNodeWithEdgesVerdict(s, k, ps, cs) = AddNodeWithEdgesVerdict(t, k, ps, cs)
  BY <1>1 DEF AddNodeWithEdgesVerdict
<1>4. ASSUME t.mode = s.mode, t.hasFirst = s.hasFirst, NEW k
      PROVE  AddNodeVerdict(s, k) = AddNodeVerdict(t, k) /\ DeleteVerdict(s, k) = DeleteVerdict(t, k)
  <2>1. AddNodeVerdict(s, k) = AddNodeVerdict(t, k)
    BY <1>4 DEF AddNodeVerdict, SemiStrictTest
  <2>2. DeleteVerdict(s, k) = DeleteVerdict(t, k)
    BY <1>4 DEF DeleteVerdict, Isolated, SemiStrictCheckForOne
  <2> QED
    BY <2>1, <2>2
<1> QED
  BY <1>2, <1>3, <1>4

(* From the answer to GetStructure alone a client foresees every query and *)
(* the verdict on every link, whatever it takes the mode to be, and with   *)
(* the right mode the other verdicts too, unless the structure came from a *)
(* file that breaks the semi-strict rule.                                  *)
THEOREM AnswerForesees == Spec => []AnswersForeseen
<1>1. DatabaseInv => AnswersForeseen
  <2> SUFFICES ASSUME DatabaseInv, NEW n \in NamesIn(db), NEW mode \in Modes
               PROVE  LET s == Imagined(GetStructure(n), mode)
                      IN  /\ \A k \in Keys : GetNode(n, k) = s.value[k]
                          /\ \A p, c \in Keys :
                               AddEdgeVerdict(db[n], p, c) = AddEdgeVerdict(s, p, c)
                          /\ \A k \in Keys, ps, cs \in KeyLists : ps # <<>> \/ cs # <<>> =>
                               AddNodeWithEdgesVerdict(db[n], k, ps, cs) =
                                 AddNodeWithEdgesVerdict(s, k, ps, cs)
                          /\ mode = db[n].mode /\ n \notin lax => \A k \in Keys :
                               /\ AddNodeVerdict(db[n], k) = AddNodeVerdict(s, k)
                               /\ DeleteVerdict(db[n], k) = DeleteVerdict(s, k)
    BY DEF AnswersForeseen
  <2> DEFINE s == Imagined(GetStructure(n), mode)
  <2>1. Coherent(db[n]) /\ Valued(db[n]) /\ db[n] \in Structures
    BY DEF DatabaseInv, Good, Coherent
  <2>2. /\ s.nodes = db[n].nodes
        /\ s.mode = mode
        /\ s.hasFirst = (db[n].nodes # {})
        /\ s.value = db[n].value
        /\ s.children = db[n].children
        /\ s.parents = db[n].parents
    BY <2>1, AnswerTells
  <2> HIDE DEF s
  <2>3. n \notin lax => s.hasFirst = db[n].hasFirst
    <3>1. n \notin lax => FlagExact(db[n])
      BY DEF DatabaseInv, WellFormed
    <3>2. db[n].hasFirst \in BOOLEAN
      BY <2>1 DEF Structures
    <3> QED
      BY <2>2, <3>1, <3>2 DEF FlagExact
  <2>4. \A k \in Keys : GetNode(n, k) = db[n].value[k]
    BY <2>1 DEF GetNode, Valued, Structures
  <2>5. /\ \A p, c : AddEdgeVerdict(db[n], p, c) = AddEdgeVerdict(s, p, c)
        /\ \A k, ps, cs : ps # <<>> \/ cs # <<>> =>
             AddNodeWithEdgesVerdict(db[n], k, ps, cs) = AddNodeWithEdgesVerdict(s, k, ps, cs)
    BY <2>2, WhatDecides
  <2>6. mode = db[n].mode /\ n \notin lax => \A k :
          /\ AddNodeVerdict(db[n], k) = AddNodeVerdict(s, k)
          /\ DeleteVerdict(db[n], k) = DeleteVerdict(s, k)
    BY <2>2, <2>3, WhatDecides
  <2> QED
    BY <2>2, <2>4, <2>5, <2>6 DEF s
<1> QED
  BY <1>1, DatabaseInvariance, PTL

=============================================================================
