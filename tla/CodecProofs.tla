----------------------------- MODULE CodecProofs ----------------------------
(***************************************************************************)
(* Theorems about Framing.tla and Fields.tla, for digits of any base and   *)
(* lengths of any width, every set of payloads and fields, and any bytes.  *)
(***************************************************************************)
EXTENDS Framing, Fields, SequenceTheorems, WellFoundedInduction, TLAPS

-----------------------------------------------------------------------------
(* Numbers and recursion.                                                  *)

LEMMA Least ==
  ASSUME NEW T, T \subseteq Nat, T # {}
  PROVE  \E x \in T : \A y \in T : x <= y
<1>1. PICK x \in T : \A y \in T : ~(<<y, x>> \in OpToRel(<, Nat))
  BY NatLessThanWellFounded, WFMin
<1>2. \A y \in T : ~(y < x)
  BY <1>1 DEF OpToRel
<1> QED
  BY <1>2

(* Induction over a set, which stands for a predicate.                     *)
LEMMA Induct ==
  ASSUME NEW T, NEW n \in Nat, 0 \in T, \A i \in 0..(n - 1) : i \in T => i + 1 \in T
  PROVE  0..n \subseteq T
<1> SUFFICES ASSUME ~(0..n \subseteq T) PROVE FALSE
  OBVIOUS
<1> DEFINE D == (0..n) \ T
<1>0. D \subseteq Nat /\ D # {}
  OBVIOUS
<1> HIDE DEF D
<1>1. PICK x \in D : \A y \in D : x <= y
  BY <1>0, Least
<1> USE DEF D
<1>2. x - 1 \in 0..(n - 1) /\ x - 1 \in T
  BY <1>1
<1> QED
  BY <1>1, <1>2

(* The functions given by a first value and a step from each to the next.  *)
Iterates(n, first, V, step) ==
  {f \in [0..n -> V] : f[0] = first /\ \A i \in 1..n : f[i] = step[<<i, f[i - 1]>>]}

LEMMA Iteration ==
  ASSUME NEW n \in Nat, NEW first, NEW V, NEW step, first \in V,
         \A i \in 1..n, v \in V : step[<<i, v>>] \in V
  PROVE  Iterates(n, first, V, step) # {}
<1> DEFINE Stepwise(f, m) ==
             f[0] = first /\ \A i \in 1..m : f[i] = step[<<i, f[i - 1]>>]
           T == {m \in 0..n : \E f \in [0..m -> V] : Stepwise(f, m)}
<1>1. 0 \in T
  <2> DEFINE f == [i \in 0..0 |-> first]
  <2>1. f \in [0..0 -> V] /\ Stepwise(f, 0)
    OBVIOUS
  <2> HIDE DEF f, Stepwise
  <2> QED
    BY <2>1
<1>2. ASSUME NEW m \in 0..(n - 1), m \in T
      PROVE  m + 1 \in T
  <2>1. PICK f \in [0..m -> V] : Stepwise(f, m)
    BY <1>2
  <2> DEFINE g == [i \in 0..(m + 1) |-> IF i <= m THEN f[i] ELSE step[<<i, f[m]>>]]
  <2>2. g \in [0..(m + 1) -> V]
    OBVIOUS
  <2>3. \A i \in 1..(m + 1) : g[i] = step[<<i, g[i - 1]>>]
    <3> TAKE i \in 1..(m + 1)
    <3>1. CASE i <= m
      BY <2>1, <3>1
    <3>2. CASE i = m + 1
      BY <3>2
    <3> QED
      BY <3>1, <3>2
  <2>4. Stepwise(g, m + 1)
    BY <2>1, <2>3
  <2>5. m + 1 \in 0..n
    OBVIOUS
  <2> HIDE DEF g, Stepwise
  <2> QED
    BY <2>2, <2>4, <2>5
<1> HIDE DEF T
<1>3. n \in T
  BY <1>1, <1>2, Induct
<1> QED
  BY <1>3 DEF T, Iterates

(* Division by a product.                                                  *)
LEMMA DivMod ==
  ASSUME NEW n \in Nat, NEW p \in Nat \ {0}
  PROVE  /\ n \div p \in Nat
         /\ n % p \in 0..(p - 1)
         /\ n = (p * (n \div p)) + (n % p)
OBVIOUS

LEMMA DivModUnique ==
  ASSUME NEW q \in Nat, NEW p \in Nat \ {0}, NEW r \in 0..(p - 1)
  PROVE  /\ (p * q + r) \div p = q
         /\ (p * q + r) % p = r
OBVIOUS

LEMMA DigitBelow ==
  ASSUME NEW b \in Nat \ {0}, NEW c \in 0..(b - 1), NEW p \in Nat \ {0}, NEW r \in 0..(p - 1)
  PROVE  c * p \in Nat /\ b * p \in Nat /\ r + c * p \in 0..(b * p - 1)
<1>1. c * p <= (b - 1) * p
  OBVIOUS
<1>2. (b - 1) * p = b * p - p
  OBVIOUS
<1>3. c * p \in Nat /\ b * p \in Nat
  OBVIOUS
<1> QED
  BY <1>1, <1>2, <1>3

LEMMA ModStep ==
  ASSUME NEW n \in Nat, NEW p \in Nat \ {0}, NEW b \in Nat \ {0}
  PROVE  n % (b * p) = (n % p) + ((n \div p) % b) * p
<1> DEFINE q == n \div p
           r == n % p
           qq == q \div b
           rr == q % b
<1>1. q \in Nat /\ r \in 0..(p - 1) /\ n = p * q + r
  BY DivMod
<1>2. qq \in Nat /\ rr \in 0..(b - 1) /\ q = b * qq + rr
  BY <1>1, DivMod
<1> HIDE DEF q, r, qq, rr
<1>3. n = (b * p) * qq + (r + rr * p)
  <2>1. p * (b * qq + rr) = (b * p) * qq + rr * p
    BY <1>2
  <2> QED
    BY <1>1, <1>2, <2>1
<1>4. r + rr * p \in 0..(b * p - 1)
  BY <1>1, <1>2, DigitBelow
<1>5. b * p \in Nat \ {0}
  OBVIOUS
<1>6. n % (b * p) = r + rr * p
  BY <1>2, <1>3, <1>4, <1>5, DivModUnique
<1> QED
  BY <1>6 DEF q, r, rr

-----------------------------------------------------------------------------
(* Lengths.                                                                *)

LEMMA Weights ==
  /\ Weight \in [0..Width -> Nat \ {0}]
  /\ Weight[0] = 1
  /\ \A i \in 1..Width : Weight[i] = Base * Weight[i - 1]
<1> DEFINE V == Nat \ {0}
           step == [x \in (1..Width) \X V |-> Base * x[2]]
           Stepwise(f) == f = [i \in 0..Width |-> IF i = 0 THEN 1 ELSE Base * f[i - 1]]
<1>1. \A i \in 1..Width, v \in V : step[<<i, v>>] \in V
  BY LengthsAssumption
<1>2. Iterates(Width, 1, V, step) # {}
  <2> HIDE DEF step
  <2>1. Width \in Nat /\ 1 \in V
    BY LengthsAssumption
  <2> HIDE DEF V
  <2> QED
    BY <1>1, <2>1, Iteration
<1>3. PICK f \in [0..Width -> V] :
        f[0] = 1 /\ \A i \in 1..Width : f[i] = step[<<i, f[i - 1]>>]
  <2> HIDE DEF step, V
  <2> QED
    BY <1>2 DEF Iterates
<1>4. \A i \in 1..Width : step[<<i, f[i - 1]>>] = Base * f[i - 1]
  BY LengthsAssumption
<1> HIDE DEF step
<1>5. Stepwise(f)
  <2>1. f[0] = 1 /\ \A i \in 1..Width : f[i] = Base * f[i - 1]
    BY <1>3, <1>4
  <2>2. \A i \in 0..Width : f[i] = IF i = 0 THEN 1 ELSE Base * f[i - 1]
    BY <2>1, LengthsAssumption
  <2> QED
    BY <2>2
<1>6. Weight = CHOOSE g : Stepwise(g)
  BY DEF Weight
<1>7. Stepwise(Weight)
  <2> HIDE DEF Stepwise
  <2> QED
    BY <1>5, <1>6
<1>8. \A i \in 0..Width : Weight[i] = IF i = 0 THEN 1 ELSE Base * Weight[i - 1]
  BY <1>7
<1>9. Weight[0] = 1 /\ \A i \in 1..Width : Weight[i] = Base * Weight[i - 1]
  BY <1>8, LengthsAssumption
<1>10. \A i \in 0..Width : Weight[i] \in V
  <2> DEFINE T == {i \in 0..Width : Weight[i] \in V}
  <2>1. 0 \in T
    BY <1>9, LengthsAssumption
  <2>2. ASSUME NEW i \in 0..(Width - 1), i \in T
        PROVE  i + 1 \in T
    BY <1>9, <2>2, LengthsAssumption
  <2> HIDE DEF T
  <2>3. 0..Width \subseteq T
    BY <2>1, <2>2, Induct, LengthsAssumption
  <2> QED
    BY <2>3 DEF T
<1>11. Weight = [i \in 0..Width |-> Weight[i]]
  BY <1>7
<1> QED
  BY <1>9, <1>10, <1>11

LEMMA SizesRange == Sizes = 0..(Weight[Width] - 1) /\ Sizes \subseteq Nat
BY Weights, LengthsAssumption DEF Sizes

LEMMA ToLeDigits ==
  ASSUME NEW n \in Nat
  PROVE  /\ ToLe(n) \in Seq(Digits)
         /\ Len(ToLe(n)) = Width
         /\ \A i \in 1..Width : ToLe(n)[i] = (n \div Weight[i - 1]) % Base
<1>1. ASSUME NEW i \in 1..Width
      PROVE  (n \div Weight[i - 1]) % Base \in Digits
  <2>1. n \div Weight[i - 1] \in Nat
    <3>1. Weight[i - 1] \in Nat \ {0}
      BY Weights, LengthsAssumption
    <3> QED
      BY <3>1, DivMod
  <2> QED
    BY <2>1, DivMod, LengthsAssumption DEF Digits
<1> QED
  BY <1>1, LengthsAssumption DEF ToLe

(* The value of the first digits.                                          *)
LEMMA FromLeSteps ==
  ASSUME NEW d \in Seq(Digits), Len(d) = Width
  PROVE  \E u \in [0..Width -> Nat] :
           /\ u[0] = 0
           /\ \A i \in 1..Width : u[i] = u[i - 1] + d[i] * Weight[i - 1]
           /\ FromLe(d) = u[Width]
<1> DEFINE step == [x \in (1..Width) \X Nat |-> x[2] + d[x[1]] * Weight[x[1] - 1]]
           Stepwise(f) ==
             f = [i \in 0..Width |-> IF i = 0 THEN 0 ELSE f[i - 1] + d[i] * Weight[i - 1]]
           upTo == CHOOSE g : Stepwise(g)
<1>1. \A i \in 1..Width : d[i] \in Nat /\ Weight[i - 1] \in Nat /\ d[i] * Weight[i - 1] \in Nat
  <2>1. \A i \in 1..Width : d[i] \in Digits
    BY ElementOfSeq
  <2>2. \A i \in 1..Width : d[i] \in Nat
    BY <2>1, LengthsAssumption DEF Digits
  <2>3. \A i \in 1..Width : Weight[i - 1] \in Nat
    <3>1. \A i \in 1..Width : i - 1 \in 0..Width
      BY LengthsAssumption
    <3> QED
      BY <3>1, Weights
  <2>4. \A a, b \in Nat : a * b \in Nat
    OBVIOUS
  <2> QED
    BY <2>2, <2>3, <2>4
<1>2. \A i \in 1..Width, v \in Nat : step[<<i, v>>] \in Nat
  BY <1>1
<1>3. PICK f \in [0..Width -> Nat] :
        f[0] = 0 /\ \A i \in 1..Width : f[i] = step[<<i, f[i - 1]>>]
  <2> HIDE DEF step
  <2>1. Iterates(Width, 0, Nat, step) # {}
    BY <1>2, Iteration, LengthsAssumption
  <2> QED
    BY <2>1 DEF Iterates
<1>4. \A i \in 1..Width : step[<<i, f[i - 1]>>] = f[i - 1] + d[i] * Weight[i - 1]
  BY LengthsAssumption
<1> HIDE DEF step
<1>5. Stepwise(f)
  <2>1. f[0] = 0 /\ \A i \in 1..Width : f[i] = f[i - 1] + d[i] * Weight[i - 1]
    BY <1>3, <1>4
  <2>2. \A i \in 0..Width :
          f[i] = IF i = 0 THEN 0 ELSE f[i - 1] + d[i] * Weight[i - 1]
    BY <2>1, LengthsAssumption
  <2> QED
    BY <2>2
<1>6. Stepwise(upTo)
  <2> HIDE DEF Stepwise
  <2> QED
    BY <1>5
<1>7. FromLe(d) = upTo[Width]
  BY DEF FromLe
<1> HIDE DEF upTo
<1>8. upTo[0] = 0 /\ \A i \in 1..Width : upTo[i] = upTo[i - 1] + d[i] * Weight[i - 1]
  BY <1>6, LengthsAssumption
<1>9. 0..Width \subseteq {i \in 0..Width : upTo[i] \in Nat}
  <2> DEFINE T == {i \in 0..Width : upTo[i] \in Nat}
  <2>1. 0 \in T
    BY <1>8, LengthsAssumption
  <2>2. ASSUME NEW i \in 0..(Width - 1), i \in T
        PROVE  i + 1 \in T
    <3>1. i + 1 \in 1..Width /\ (i + 1) - 1 = i
      BY LengthsAssumption
    <3>2. upTo[i + 1] = upTo[i] + d[i + 1] * Weight[i]
      BY <1>8, <3>1
    <3>3. d[i + 1] * Weight[i] \in Nat
      BY <1>1, <3>1
    <3> QED
      BY <2>2, <3>1, <3>2, <3>3
  <2> HIDE DEF T
  <2>3. 0..Width \subseteq T
    BY <2>1, <2>2, Induct, LengthsAssumption
  <2> QED
    BY <2>3 DEF T
<1>10. upTo \in [0..Width -> Nat]
  <2>1. upTo = [i \in 0..Width |-> upTo[i]]
    BY <1>6
  <2> QED
    BY <1>9, <2>1
<1> QED
  BY <1>7, <1>8, <1>10

(* Reading what was written of a length gives the length.                  *)
LEMMA LengthReadsBack ==
  ASSUME NEW n \in Sizes
  PROVE  FromLe(ToLe(n)) = n
<1> DEFINE d == ToLe(n)
<1>0. n \in Nat /\ n <= Weight[Width] - 1
  BY SizesRange, Weights, LengthsAssumption
<1>1. /\ d \in Seq(Digits)
      /\ Len(d) = Width
      /\ \A i \in 1..Width : d[i] = (n \div Weight[i - 1]) % Base
  BY <1>0, ToLeDigits
<1> HIDE DEF d
<1>2. PICK u \in [0..Width -> Nat] :
        /\ u[0] = 0
        /\ \A i \in 1..Width : u[i] = u[i - 1] + d[i] * Weight[i - 1]
        /\ FromLe(d) = u[Width]
  BY <1>1, FromLeSteps
<1> DEFINE T == {i \in 0..Width : u[i] = n % Weight[i]}
<1>3. 0 \in T
  <2>1. n % 1 = 0
    BY <1>0
  <2> QED
    BY <2>1, <1>2, Weights, LengthsAssumption
<1>4. ASSUME NEW i \in 0..(Width - 1), i \in T
      PROVE  i + 1 \in T
  <2>1. i + 1 \in 1..Width /\ (i + 1) - 1 = i /\ i \in 0..Width
    BY LengthsAssumption
  <2>2. u[i + 1] = u[i] + d[i + 1] * Weight[i] /\ d[i + 1] = (n \div Weight[i]) % Base
    BY <1>1, <1>2, <2>1
  <2>3. Weight[i] \in Nat \ {0} /\ Base \in Nat \ {0} /\ Weight[i + 1] = Base * Weight[i]
    BY <2>1, Weights, LengthsAssumption
  <2>4. n % (Base * Weight[i]) = (n % Weight[i]) + ((n \div Weight[i]) % Base) * Weight[i]
    BY <1>0, <2>3, ModStep
  <2>5. u[i] = n % Weight[i]
    BY <1>4
  <2>6. u[i + 1] = n % Weight[i + 1]
    BY <2>2, <2>3, <2>4, <2>5
  <2> QED
    BY <2>1, <2>6
<1>5. Width \in T
  <2> HIDE DEF T
  <2>1. 0..Width \subseteq T
    BY <1>3, <1>4, Induct, LengthsAssumption
  <2> QED
    BY <2>1, LengthsAssumption
<1>6. n % Weight[Width] = n
  <2>1. Weight[Width] \in Nat \ {0}
    BY Weights, LengthsAssumption
  <2> QED
    BY <1>0, <2>1
<1> QED
  BY <1>2, <1>5, <1>6 DEF d

(* Writing what was read as a length gives the bytes.                      *)
LEMMA LengthWritesBack ==
  ASSUME NEW d \in Seq(Digits), Len(d) = Width
  PROVE  FromLe(d) \in Sizes /\ ToLe(FromLe(d)) = d
<1>1. PICK u \in [0..Width -> Nat] :
        /\ u[0] = 0
        /\ \A i \in 1..Width : u[i] = u[i - 1] + d[i] * Weight[i - 1]
        /\ FromLe(d) = u[Width]
  BY FromLeSteps
<1>2. \A i \in 1..Width : d[i] \in Nat /\ d[i] <= Base - 1
  <2>1. \A i \in 1..Width : d[i] \in Digits
    BY ElementOfSeq
  <2> QED
    BY <2>1, LengthsAssumption DEF Digits
<1>3. \A i \in 0..Width : u[i] <= Weight[i] - 1
  <2> DEFINE T == {i \in 0..Width : u[i] <= Weight[i] - 1}
  <2>1. 0 \in T
    BY <1>1, Weights, LengthsAssumption
  <2>2. ASSUME NEW i \in 0..(Width - 1), i \in T
        PROVE  i + 1 \in T
    <3>1. i + 1 \in 1..Width /\ (i + 1) - 1 = i /\ i \in 0..Width
      BY LengthsAssumption
    <3>2. u[i + 1] = u[i] + d[i + 1] * Weight[i] /\ Weight[i + 1] = Base * Weight[i]
      BY <1>1, <3>1, Weights
    <3>3. /\ Weight[i] \in Nat \ {0} /\ Base \in Nat \ {0}
          /\ u[i] \in 0..(Weight[i] - 1) /\ d[i + 1] \in 0..(Base - 1)
      <4>1. Weight[i] \in Nat \ {0} /\ Base \in Nat \ {0}
        BY <3>1, Weights, LengthsAssumption
      <4>2. u[i] \in 0..(Weight[i] - 1)
        BY <2>2, <3>1, <4>1
      <4>3. d[i + 1] \in 0..(Base - 1)
        BY <1>2, <3>1, <4>1
      <4> QED
        BY <4>1, <4>2, <4>3
    <3>4. u[i] + d[i + 1] * Weight[i] \in 0..(Base * Weight[i] - 1)
      BY <3>3, DigitBelow
    <3>5. u[i + 1] <= Weight[i + 1] - 1
      <4> HIDE DEF T
      <4> QED
        BY <3>2, <3>3, <3>4
    <3> QED
      BY <3>1, <3>5
  <2> HIDE DEF T
  <2>3. 0..Width \subseteq T
    BY <2>1, <2>2, Induct, LengthsAssumption
  <2> QED
    BY <2>3 DEF T
<1>4. FromLe(d) \in Sizes
  BY <1>1, <1>3, SizesRange, Weights, LengthsAssumption
(* Above digit i there are only multiples of its weight times the base.    *)
<1>5. ASSUME NEW i \in 1..Width
      PROVE  \E m \in Nat : u[Width] = u[i] + Weight[i] * m
  <2> DEFINE T == {j \in 0..(Width - i) :
                     \E m, k \in Nat : /\ u[i + j] = u[i] + Weight[i] * m
                                       /\ Weight[i + j] = Weight[i] * k}
  <2>0. Weight[i] \in Nat /\ u[i] \in Nat /\ Width - i \in Nat /\ Base \in Nat
    BY Weights, LengthsAssumption
  <2>1. 0 \in T
    <3>1. u[i + 0] = u[i] + Weight[i] * 0 /\ Weight[i + 0] = Weight[i] * 1
      BY <2>0
    <3> QED
      BY <2>0, <3>1
  <2>2. ASSUME NEW j \in 0..((Width - i) - 1), j \in T
        PROVE  j + 1 \in T
    <3>1. PICK m \in Nat, k \in Nat : /\ u[i + j] = u[i] + Weight[i] * m
                                      /\ Weight[i + j] = Weight[i] * k
      BY <2>2
    <3>2. /\ i + (j + 1) \in 1..Width
          /\ (i + (j + 1)) - 1 = i + j
          /\ j + 1 \in 0..(Width - i)
      BY LengthsAssumption
    <3>3. /\ u[i + (j + 1)] = u[i + j] + d[i + (j + 1)] * Weight[i + j]
          /\ Weight[i + (j + 1)] = Base * Weight[i + j]
      BY <1>1, <3>2, Weights
    <3> DEFINE e == d[i + (j + 1)]
    <3>4. e \in Nat
      BY <1>2, <3>2
    <3> HIDE DEF e
    <3>5. Weight[i] * m + e * (Weight[i] * k) = Weight[i] * (m + e * k)
      BY <2>0, <3>4, SMTT(30)
    <3>6. Base * (Weight[i] * k) = Weight[i] * (Base * k)
      BY <2>0
    <3>7. m + e * k \in Nat /\ Base * k \in Nat /\ Weight[i] * m \in Nat /\ e * (Weight[i] * k) \in Nat
      BY <2>0, <3>4, SMTT(30)
    <3>8. /\ u[i + (j + 1)] = u[i] + Weight[i] * (m + e * k)
          /\ Weight[i + (j + 1)] = Weight[i] * (Base * k)
      BY <2>0, <3>1, <3>3, <3>5, <3>6, <3>7, SMTT(30) DEF e
    <3> QED
      BY <3>2, <3>7, <3>8
  <2>3. Width - i \in T
    <3> HIDE DEF T
    <3>1. 0..(Width - i) \subseteq T
      BY <2>0, <2>1, <2>2, Induct
    <3> QED
      BY <2>0, <3>1
  <2>4. i + (Width - i) = Width
    BY LengthsAssumption
  <2> QED
    BY <2>3, <2>4
<1>6. ASSUME NEW i \in 1..Width
      PROVE  (FromLe(d) \div Weight[i - 1]) % Base = d[i]
  <2> DEFINE p == Weight[i - 1]
             r == u[i - 1]
  <2>1. PICK m \in Nat : u[Width] = u[i] + Weight[i] * m
    BY <1>5
  <2>2. /\ p \in Nat \ {0} /\ r \in 0..(p - 1) /\ Base \in Nat \ {0}
        /\ Weight[i] = Base * p
        /\ u[i] = r + d[i] * p
        /\ d[i] \in 0..(Base - 1)
    <3>1. i - 1 \in 0..Width
      BY LengthsAssumption
    <3>2. p \in Nat \ {0} /\ Weight[i] = Base * p
      BY <3>1, Weights
    <3>3. r \in 0..(p - 1) /\ u[i] = r + d[i] * p
      BY <1>1, <1>3, <3>1
    <3> QED
      BY <1>2, <3>2, <3>3, LengthsAssumption
  <2> HIDE DEF p, r
  <2> DEFINE q == Base * m + d[i]
  <2>3. q \in Nat
    BY <2>2
  <2>4. (Base * p) * m + d[i] * p = p * q
    BY <2>2
  <2>5. (Base * p) * m \in Nat /\ d[i] * p \in Nat /\ p * q \in Nat
    BY <2>2, <2>3
  <2>6. FromLe(d) = p * q + r
    BY <1>1, <2>1, <2>2, <2>4, <2>5
  <2>7. (p * q + r) \div p = q
    <3> HIDE DEF q
    <3> QED
      BY <2>2, <2>3, DivModUnique
  <2>8. q % Base = d[i]
    BY <2>2, DivModUnique
  <2> QED
    BY <2>6, <2>7, <2>8 DEF p
<1>7. FromLe(d) \in Nat
  BY <1>4, SizesRange
<1>8. /\ ToLe(FromLe(d)) \in Seq(Digits)
      /\ Len(ToLe(FromLe(d))) = Width
      /\ \A i \in 1..Width : ToLe(FromLe(d))[i] = d[i]
  BY <1>6, <1>7, ToLeDigits
<1> QED
  BY <1>4, <1>8, SeqEqual

LEMMA LengthsDiffer ==
  ASSUME NEW m \in Sizes, NEW n \in Sizes, ToLe(m) = ToLe(n)
  PROVE  m = n
BY LengthReadsBack

-----------------------------------------------------------------------------
(* Sequences of frames.                                                    *)

(* Hidden, or the provers concatenate without end.                         *)
Regroups(s, t, u) == (s \o t) \o u = s \o (t \o u)

LEMMA Assoc ==
  ASSUME NEW s \in Seq(Digits), NEW t \in Seq(Digits), NEW u \in Seq(Digits)
  PROVE  Regroups(s, t, u)
BY ConcatAssociative DEF Regroups

LEMMA ConcatCancel ==
  ASSUME NEW S, NEW s \in Seq(S), NEW t \in Seq(S), NEW u \in Seq(S), NEW v \in Seq(S),
         Len(s) = Len(u), s \o t = u \o v
  PROVE  s = u /\ t = v
<1>1. Len(t) = Len(v)
  BY ConcatProperties
<1>2. \A i \in 1..Len(s) : s[i] = u[i]
  <2> TAKE i \in 1..Len(s)
  <2>1. (s \o t)[i] = s[i] /\ (u \o v)[i] = u[i]
    OBVIOUS
  <2> QED
    BY <2>1
<1>3. s = u
  BY <1>2, SeqEqual
<1> QED
  BY <1>3, ConcatSimplifications

LEMMA FlattenSteps ==
  ASSUME NEW S, NEW ss \in Seq(Seq(S)), ss # <<>>
  PROVE  \E f \in [1..Len(ss) -> Seq(S)] :
           /\ f[1] = ss[1]
           /\ \A i \in 2..Len(ss) : f[i] = f[i - 1] \o ss[i]
           /\ FlattenSeq(ss) = f[Len(ss)]
<1> DEFINE n == Len(ss)
           V == Seq(S)
           step == [x \in (1..(n - 1)) \X V |-> x[2] \o ss[x[1] + 1]]
           Stepwise(f) == f = [i \in 1..n |-> IF i = 1 THEN ss[1] ELSE f[i - 1] \o ss[i]]
           flatten == CHOOSE f : f = [i \in 1..n |-> IF i = 1 THEN ss[i] ELSE f[i - 1] \o ss[i]]
<1>1. n \in Nat \ {0} /\ \A i \in 1..n : ss[i] \in V
  BY EmptySeq
<1>2. \A i \in 1..(n - 1), v \in V : step[<<i, v>>] = v \o ss[i + 1] /\ step[<<i, v>>] \in V
  <2> TAKE i \in 1..(n - 1), v \in V
  <2>1. ss[i + 1] \in V
    BY <1>1
  <2>2. v \o ss[i + 1] \in V
    BY <2>1
  <2>3. step[<<i, v>>] = v \o ss[i + 1]
    OBVIOUS
  <2> QED
    BY <2>2, <2>3
<1> HIDE DEF step, V, n
<1>3. Iterates(n - 1, ss[1], V, step) # {}
  <2>1. n - 1 \in Nat /\ ss[1] \in V
    BY <1>1
  <2> QED
    BY <1>2, <2>1, Iteration
<1>4. PICK g \in [0..(n - 1) -> V] :
        g[0] = ss[1] /\ \A i \in 1..(n - 1) : g[i] = step[<<i, g[i - 1]>>]
  BY <1>3 DEF Iterates
<1> DEFINE f == [i \in 1..n |-> g[i - 1]]
<1>5. \A i \in 2..n : f[i] = f[i - 1] \o ss[i]
  <2> TAKE i \in 2..n
  <2>1. i - 1 \in 1..(n - 1) /\ (i - 1) - 1 \in 0..(n - 1) /\ (i - 1) + 1 = i
    BY <1>1
  <2>2. g[i - 1] = g[(i - 1) - 1] \o ss[i]
    BY <1>2, <1>4, <2>1
  <2>3. i \in 1..n /\ i - 1 \in 1..n
    BY <1>1
  <2>4. f[i] = g[i - 1] /\ f[i - 1] = g[(i - 1) - 1]
    BY <2>3
  <2> QED
    BY <2>2, <2>4
<1>6. f \in [1..n -> V] /\ f[1] = ss[1]
  BY <1>1, <1>4
<1> HIDE DEF f
<1>7. f = [i \in 1..n |-> IF i = 1 THEN ss[i] ELSE f[i - 1] \o ss[i]]
  <2>1. ASSUME NEW i \in 1..n
        PROVE  f[i] = IF i = 1 THEN ss[i] ELSE f[i - 1] \o ss[i]
    <3>1. CASE i = 1
      BY <1>6, <3>1
    <3>2. CASE i # 1
      <4>1. i \in 2..n
        BY <1>1, <3>2
      <4> QED
        BY <1>5, <3>2, <4>1
    <3> QED
      BY <3>1, <3>2
  <2> QED
    BY <1>6, <2>1
<1>8. flatten = [i \in 1..n |-> IF i = 1 THEN ss[i] ELSE flatten[i - 1] \o ss[i]]
  BY <1>7
<1>9. FlattenSeq(ss) = flatten[n]
  BY <1>1 DEF FlattenSeq, n
<1> HIDE DEF flatten
<1>10. /\ flatten[1] = ss[1]
       /\ \A i \in 2..n : flatten[i] = flatten[i - 1] \o ss[i]
  <2>1. \A i \in 1..n : flatten[i] = IF i = 1 THEN ss[i] ELSE flatten[i - 1] \o ss[i]
    BY <1>8
  <2>2. 1 \in 1..n /\ \A i \in 2..n : i \in 1..n /\ i # 1
    BY <1>1
  <2> QED
    BY <2>1, <2>2
<1>11. \A i \in 1..n : flatten[i] = f[i]
  <2> DEFINE T == {i \in 0..(n - 1) : flatten[i + 1] = f[i + 1]}
  <2>1. 0 \in T
    BY <1>1, <1>6, <1>10
  <2>2. ASSUME NEW i \in 0..((n - 1) - 1), i \in T
        PROVE  i + 1 \in T
    <3>1. (i + 1) + 1 \in 2..n /\ ((i + 1) + 1) - 1 = i + 1 /\ i + 1 \in 0..(n - 1)
      BY <1>1
    <3> QED
      BY <1>5, <1>10, <2>2, <3>1
  <2> HIDE DEF T
  <2>3. 0..(n - 1) \subseteq T
    <3>1. n - 1 \in Nat
      BY <1>1
    <3> DEFINE k == n - 1
    <3>2. \A i \in 0..(k - 1) : i \in T => i + 1 \in T
      BY <2>2
    <3> HIDE DEF k
    <3>3. 0..k \subseteq T
      BY <2>1, <3>1, <3>2, Induct DEF k
    <3> QED
      BY <3>3 DEF k
  <2>4. \A i \in 1..n : i - 1 \in T /\ (i - 1) + 1 = i
    BY <1>1, <2>3
  <2> QED
    BY <2>4 DEF T
<1>12. FlattenSeq(ss) = f[n]
  BY <1>1, <1>9, <1>11
<1> QED
  BY <1>5, <1>6, <1>12 DEF n, V

LEMMA FlattenAppend ==
  ASSUME NEW S, NEW ss \in Seq(Seq(S)), NEW x \in Seq(S)
  PROVE  /\ FlattenSeq(ss) \in Seq(S)
         /\ FlattenSeq(Append(ss, x)) = FlattenSeq(ss) \o x
<1> DEFINE n == Len(ss)
           tt == Append(ss, x)
<1>1. /\ n \in Nat
      /\ tt \in Seq(Seq(S)) /\ tt # <<>> /\ Len(tt) = n + 1
      /\ \A i \in 1..n : tt[i] = ss[i]
      /\ tt[n + 1] = x
  BY AppendProperties
<1> HIDE DEF tt
<1>2. PICK g \in [1..(n + 1) -> Seq(S)] :
        /\ g[1] = tt[1]
        /\ \A i \in 2..(n + 1) : g[i] = g[i - 1] \o tt[i]
        /\ FlattenSeq(tt) = g[n + 1]
  <2>1. \E g \in [1..Len(tt) -> Seq(S)] :
          /\ g[1] = tt[1]
          /\ \A i \in 2..Len(tt) : g[i] = g[i - 1] \o tt[i]
          /\ FlattenSeq(tt) = g[Len(tt)]
    BY <1>1, FlattenSteps
  <2> QED
    BY <1>1, <2>1
<1>3. CASE ss = <<>>
  <2>1. n = 0 /\ FlattenSeq(ss) = <<>>
    BY <1>3 DEF FlattenSeq
  <2>2. FlattenSeq(tt) = x
    BY <1>1, <1>2, <2>1
  <2> QED
    BY <2>1, <2>2, ConcatEmptySeq DEF tt
<1>4. CASE ss # <<>>
  <2>1. PICK f \in [1..n -> Seq(S)] :
          /\ f[1] = ss[1]
          /\ \A i \in 2..n : f[i] = f[i - 1] \o ss[i]
          /\ FlattenSeq(ss) = f[n]
    BY <1>4, FlattenSteps
  <2>2. n \in Nat \ {0}
    BY <1>4, EmptySeq
  <2> DEFINE T == {i \in 0..(n - 1) : g[i + 1] = f[i + 1]}
  <2>3. 0 \in T
    BY <1>1, <1>2, <2>1, <2>2
  <2>4. ASSUME NEW i \in 0..((n - 1) - 1), i \in T
        PROVE  i + 1 \in T
    <3>1. /\ (i + 1) + 1 \in 2..n /\ (i + 1) + 1 \in 2..(n + 1)
          /\ ((i + 1) + 1) - 1 = i + 1
          /\ i + 1 \in 0..(n - 1)
          /\ tt[(i + 1) + 1] = ss[(i + 1) + 1]
      BY <1>1, <2>2
    <3> HIDE DEF n
    <3>2. g[(i + 1) + 1] = f[(i + 1) + 1]
      BY <1>2, <2>1, <2>4, <3>1
    <3> QED
      BY <3>1, <3>2
  <2>5. n - 1 \in T
    <3> DEFINE k == n - 1
    <3>1. k \in Nat /\ k \in 0..k
      BY <2>2
    <3>2. \A i \in 0..(k - 1) : i \in T => i + 1 \in T
      BY <2>4
    <3> HIDE DEF T, k
    <3>3. 0..k \subseteq T
      BY <2>3, <3>1, <3>2, Induct
    <3> QED
      BY <3>1, <3>3 DEF k
  <2>6. g[n] = f[n]
    BY <2>2, <2>5
  <2>7. n + 1 \in 2..(n + 1) /\ (n + 1) - 1 = n /\ n \in 1..n
    BY <2>2
  <2>8. g[n + 1] = f[n] \o x
    BY <1>1, <1>2, <2>6, <2>7
  <2> QED
    BY <1>2, <2>1, <2>7, <2>8 DEF tt
<1> QED
  BY <1>3, <1>4

LEMMA FramedBytes ==
  ASSUME NEW x \in Seq(Digits)
  PROVE  /\ Framed(x) = ToLe(Len(x)) \o x
         /\ ToLe(Len(x)) \in Seq(Digits) /\ Len(ToLe(Len(x))) = Width
         /\ Framed(x) \in Seq(Digits)
         /\ Len(Framed(x)) = Width + Len(x)
<1>1. Len(x) \in Nat
  OBVIOUS
<1>2. ToLe(Len(x)) \in Seq(Digits) /\ Len(ToLe(Len(x))) = Width
  BY <1>1, ToLeDigits
<1> QED
  BY <1>2, ConcatProperties DEF Framed

LEMMA FramesEmpty == AllFramed(<<>>) = <<>>
BY DEF AllFramed, FlattenSeq

LEMMA FramesAppend ==
  ASSUME NEW s \in Seq(Seq(Digits)), NEW x \in Seq(Digits)
  PROVE  /\ AllFramed(s) \in Seq(Digits)
         /\ AllFramed(Append(s, x)) = AllFramed(s) \o Framed(x)
<1> DEFINE ss == [i \in DOMAIN s |-> Framed(s[i])]
           tt == [i \in DOMAIN Append(s, x) |-> Framed(Append(s, x)[i])]
<1>1. \A i \in 1..Len(s) : Framed(s[i]) \in Seq(Digits)
  <2> TAKE i \in 1..Len(s)
  <2>1. s[i] \in Seq(Digits)
    BY ElementOfSeq
  <2> QED
    BY <2>1, FramedBytes
<1>2. /\ ss \in Seq(Seq(Digits))
      /\ Len(ss) = Len(s)
      /\ \A i \in 1..Len(s) : ss[i] = Framed(s[i])
  <2>1. Len(s) \in Nat /\ DOMAIN s = 1..Len(s)
    BY LenProperties
  <2>2. ss \in [1..Len(s) -> Seq(Digits)]
    BY <1>1, <2>1
  <2> QED
    BY <2>1, <2>2
<1>3. Framed(x) \in Seq(Digits)
  BY FramedBytes
<1>4. tt = Append(ss, Framed(x))
  <2> DEFINE a == Append(s, x)
             b == Append(ss, Framed(x))
             n == Len(s) + 1
             V == Seq(Digits)
  <2>1. /\ DOMAIN a = 1..n
        /\ \A i \in 1..Len(s) : a[i] = s[i]
        /\ a[n] = x
        /\ n \in Nat
        /\ \A i \in 1..n : i = n \/ i \in 1..Len(s)
    BY AppendProperties
  <2>2. /\ b \in Seq(Seq(Digits))
        /\ Len(b) = n
        /\ \A i \in 1..Len(s) : b[i] = ss[i]
        /\ b[n] = Framed(x)
    BY <1>2, <1>3, AppendProperties
  <2> HIDE DEF a, b, ss, n
  <2>3. \A i \in 1..n : tt[i] = Framed(a[i])
    BY <2>1 DEF a
  <2> HIDE DEF tt
  <2>4. \A i \in 1..n : tt[i] = b[i]
    BY <1>2, <2>1, <2>2, <2>3
  <2>5. tt \in Seq(V) /\ Len(tt) = n
    <3>1. \A i \in 1..n : tt[i] \in V
      BY <2>2, <2>4, ElementOfSeq
    <3>2. tt \in [1..n -> V]
      BY <2>1, <3>1 DEF tt, a
    <3> HIDE DEF V
    <3> QED
      BY <2>1, <3>2
  <2>6. tt = b
    BY <2>2, <2>4, <2>5, SeqEqual
  <2> QED
    BY <2>6 DEF b
<1> HIDE DEF ss, tt
<1>5. FlattenSeq(ss) \in Seq(Digits) /\ FlattenSeq(tt) = FlattenSeq(ss) \o Framed(x)
  BY <1>2, <1>3, <1>4, FlattenAppend
<1>6. AllFramed(s) = FlattenSeq(ss) /\ AllFramed(Append(s, x)) = FlattenSeq(tt)
  BY DEF AllFramed, ss, tt
<1> QED
  BY <1>5, <1>6

LEMMA TakeOneMore ==
  ASSUME NEW S, NEW s \in Seq(S), NEW k \in 0..(Len(s) - 1)
  PROVE  /\ SubSeq(s, 1, k) \in Seq(S) /\ Len(SubSeq(s, 1, k)) = k
         /\ s[k + 1] \in S
         /\ SubSeq(s, 1, k + 1) = Append(SubSeq(s, 1, k), s[k + 1])
<1>1. Len(s) \in Nat /\ k \in Nat /\ k + 1 \in 1..Len(s) /\ (k + 1) - 1 = k /\ 1 \in 1..Len(s)
  OBVIOUS
<1>2. \A i \in 1..Len(s) : s[i] \in S
  BY ElementOfSeq
<1>3. SubSeq(s, 1, k) \in Seq(S) /\ Len(SubSeq(s, 1, k)) = k
  BY <1>1, <1>2, SubSeqProperties
<1>4. SubSeq(s, 1, k + 1) = SubSeq(s, 1, k) \o <<s[k + 1]>>
  BY <1>1, SubSeqRecursiveSecond
<1> QED
  BY <1>1, <1>2, <1>3, <1>4, AppendIsConcat

LEMMA TakeSome ==
  ASSUME NEW S, NEW s \in Seq(S), NEW k \in 0..Len(s)
  PROVE  /\ SubSeq(s, 1, k) \in Seq(S)
         /\ Len(SubSeq(s, 1, k)) = k
         /\ SubSeq(s, k + 1, Len(s)) \in Seq(S)
         /\ Len(SubSeq(s, k + 1, Len(s))) = Len(s) - k
         /\ s = SubSeq(s, 1, k) \o SubSeq(s, k + 1, Len(s))
<1>1. Len(s) \in Nat /\ k \in Nat /\ \A i \in 1..Len(s) : s[i] \in S
  BY ElementOfSeq
<1>2. SubSeq(s, 1, k) \in Seq(S) /\ Len(SubSeq(s, 1, k)) = k
  BY <1>1, SubSeqProperties
<1>3. SubSeq(s, k + 1, Len(s)) \in Seq(S) /\ Len(SubSeq(s, k + 1, Len(s))) = Len(s) - k
  <2>1. \A i \in (k + 1)..Len(s) : s[i] \in S
    BY <1>1
  <2> QED
    BY <1>1, <2>1, SubSeqProperties
<1>4. SubSeq(s, 1, Len(s)) = s
  BY SubSeqFull
<1>5. SubSeq(s, 1, k) \o SubSeq(s, k + 1, Len(s)) = SubSeq(s, 1, Len(s))
  <2>1. 1 \in 1..(Len(s) + 1) /\ k \in (1 - 1)..Len(s) /\ Len(s) \in k..Len(s)
    BY <1>1
  <2> QED
    BY <2>1, ConcatAdjacentSubSeq
<1> QED
  BY <1>2, <1>3, <1>4, <1>5

(* What is written first stands first.                                     *)
LEMMA FramesBegin ==
  ASSUME NEW s \in Seq(Seq(Digits)), NEW k \in 0..Len(s)
  PROVE  \E u \in Seq(Digits) : AllFramed(s) = AllFramed(SubSeq(s, 1, k)) \o u
<1> DEFINE n == Len(s)
           Begin(j) == \E u \in Seq(Digits) : AllFramed(s) = AllFramed(SubSeq(s, 1, n - j)) \o u
           T == {j \in 0..n : Begin(j)}
<1>0. n \in Nat
  OBVIOUS
<1>1. 0 \in T
  <2>1. SubSeq(s, 1, n - 0) = s
    BY <1>0, SubSeqFull
  <2>2. AllFramed(s) \in Seq(Digits)
    <3>1. <<>> \in Seq(Digits)
      OBVIOUS
    <3> QED
      BY <3>1, FramesAppend
  <2>3. AllFramed(s) = AllFramed(s) \o <<>> /\ <<>> \in Seq(Digits)
    BY <2>2, ConcatEmptySeq
  <2>4. Begin(0)
    BY <2>1, <2>3
  <2> HIDE DEF Begin
  <2> QED
    BY <1>0, <2>4
<1>2. ASSUME NEW j \in 0..(n - 1), j \in T
      PROVE  j + 1 \in T
  <2> DEFINE m == n - (j + 1)
             t == SubSeq(s, 1, m)
             x == s[m + 1]
  <2>1. m \in 0..(n - 1) /\ n - j = m + 1 /\ j + 1 \in 0..n
    BY <1>0
  <2>2. t \in Seq(Seq(Digits)) /\ x \in Seq(Digits) /\ SubSeq(s, 1, m + 1) = Append(t, x)
    BY <2>1, TakeOneMore
  <2>3. PICK u \in Seq(Digits) : AllFramed(s) = AllFramed(SubSeq(s, 1, m + 1)) \o u
    BY <1>2, <2>1
  <2> HIDE DEF m, t, x
  <2>4. AllFramed(t) \in Seq(Digits) /\ AllFramed(Append(t, x)) = AllFramed(t) \o Framed(x)
    BY <2>2, FramesAppend
  <2>5. Framed(x) \in Seq(Digits)
    BY <2>2, FramedBytes
  <2>6. AllFramed(s) = AllFramed(t) \o (Framed(x) \o u)
    <3>1. AllFramed(s) = (AllFramed(t) \o Framed(x)) \o u
      BY <2>2, <2>3, <2>4
    <3>2. (AllFramed(t) \o Framed(x)) \o u = AllFramed(t) \o (Framed(x) \o u)
      <4>1. Regroups(AllFramed(t), Framed(x), u)
        BY <2>4, <2>5, Assoc
      <4> QED
        BY <4>1 DEF Regroups
    <3> QED
      BY <3>1, <3>2
  <2>7. Framed(x) \o u \in Seq(Digits)
    BY <2>5, ConcatProperties
  <2> QED
    BY <2>1, <2>6, <2>7 DEF m, t
<1>3. 0..n \subseteq T
  <2> HIDE DEF T
  <2> QED
    BY <1>0, <1>1, <1>2, Induct
<1>4. n - k \in T /\ n - (n - k) = k
  <2> HIDE DEF T
  <2> QED
    BY <1>0, <1>3
<1> QED
  BY <1>4

LEMMA FramesNext ==
  ASSUME NEW s \in Seq(Seq(Digits)), NEW k \in 0..(Len(s) - 1)
  PROVE  \E u \in Seq(Digits) :
           AllFramed(s) = AllFramed(SubSeq(s, 1, k)) \o (Framed(s[k + 1]) \o u)
<1> DEFINE t == SubSeq(s, 1, k)
           x == s[k + 1]
<1>1. t \in Seq(Seq(Digits)) /\ x \in Seq(Digits) /\ SubSeq(s, 1, k + 1) = Append(t, x)
  BY TakeOneMore
<1>2. k + 1 \in 0..Len(s)
  OBVIOUS
<1>3. PICK u \in Seq(Digits) : AllFramed(s) = AllFramed(SubSeq(s, 1, k + 1)) \o u
  BY <1>2, FramesBegin
<1> HIDE DEF t, x
<1>4. AllFramed(t) \in Seq(Digits) /\ AllFramed(Append(t, x)) = AllFramed(t) \o Framed(x)
  BY <1>1, FramesAppend
<1>5. Framed(x) \in Seq(Digits)
  BY <1>1, FramedBytes
<1>6. AllFramed(s) = AllFramed(t) \o (Framed(x) \o u)
  <2>1. AllFramed(s) = (AllFramed(t) \o Framed(x)) \o u
    BY <1>1, <1>3, <1>4
  <2>2. (AllFramed(t) \o Framed(x)) \o u = AllFramed(t) \o (Framed(x) \o u)
    <3>1. Regroups(AllFramed(t), Framed(x), u)
      BY <1>4, <1>5, Assoc
    <3> QED
      BY <3>1 DEF Regroups
  <2> QED
    BY <2>1, <2>2
<1> QED
  BY <1>6 DEF t, x

(* Every frame takes at least the bytes of its length.                     *)
LEMMA FramesLength ==
  ASSUME NEW s \in Seq(Seq(Digits))
  PROVE  /\ AllFramed(s) \in Seq(Digits)
         /\ Width * Len(s) <= Len(AllFramed(s))
<1> DEFINE n == Len(s)
           F(k) == AllFramed(SubSeq(s, 1, k))
           T == {k \in 0..n : F(k) \in Seq(Digits) /\ Width * k <= Len(F(k))}
<1>0. n \in Nat /\ Width \in Nat
  BY LengthsAssumption
<1>1. 0 \in T
  <2>1. SubSeq(s, 1, 0) = <<>>
    BY SubSeqEmpty
  <2>2. F(0) = <<>>
    BY <2>1, FramesEmpty
  <2> HIDE DEF F
  <2>3. F(0) \in Seq(Digits)
    BY <2>2, EmptySeq
  <2>5. Len(F(0)) = 0
    BY <2>2, EmptySeq
  <2>4. Width * 0 = 0
    BY <1>0
  <2> QED
    BY <1>0, <2>3, <2>4, <2>5
<1>2. ASSUME NEW k \in 0..(n - 1), k \in T
      PROVE  k + 1 \in T
  <2> DEFINE t == SubSeq(s, 1, k)
             x == s[k + 1]
  <2>1. t \in Seq(Seq(Digits)) /\ x \in Seq(Digits) /\ SubSeq(s, 1, k + 1) = Append(t, x)
    BY TakeOneMore
  <2>3. F(k + 1) = F(k) \o Framed(x) /\ F(k) \in Seq(Digits)
    BY <2>1, FramesAppend
  <2> HIDE DEF F, x
  <2>2. Framed(x) \in Seq(Digits) /\ Len(Framed(x)) = Width + Len(x) /\ Len(x) \in Nat
    BY <2>1, FramedBytes
  <2>4. F(k + 1) \in Seq(Digits) /\ Len(F(k + 1)) = Len(F(k)) + Len(Framed(x))
    BY <2>2, <2>3, ConcatProperties
  <2>5. Width * (k + 1) = Width * k + Width
    BY <1>0
  <2>6. Width * k <= Len(F(k)) /\ Width * k \in Nat /\ Len(F(k)) \in Nat
    BY <1>0, <1>2, <2>3
  <2>7. k + 1 \in 0..n
    BY <1>0
  <2>8. Width * (k + 1) <= Len(F(k + 1))
    BY <1>0, <2>2, <2>4, <2>5, <2>6
  <2> QED
    BY <2>4, <2>7, <2>8
<1>3. n \in T
  <2> HIDE DEF T
  <2>1. 0..n \subseteq T
    BY <1>0, <1>1, <1>2, Induct
  <2> QED
    BY <1>0, <2>1
<1>4. SubSeq(s, 1, n) = s
  BY SubSeqFull
<1> QED
  BY <1>3, <1>4

(* What has a length that can be written.                                  *)
Fitting == {b \in Seq(Digits) : Len(b) \in Sizes}

LEMMA FramedCancel ==
  ASSUME NEW x \in Fitting, NEW y \in Fitting
  PROVE  \A u, v \in Seq(Digits) : Framed(x) \o u = Framed(y) \o v => x = y /\ u = v
<1> SUFFICES ASSUME NEW u \in Seq(Digits), NEW v \in Seq(Digits), Framed(x) \o u = Framed(y) \o v
             PROVE  x = y /\ u = v
  OBVIOUS
<1> DEFINE m == ToLe(Len(x))
           n == ToLe(Len(y))
<1>1. x \in Seq(Digits) /\ y \in Seq(Digits) /\ Len(x) \in Sizes /\ Len(y) \in Sizes
  BY DEF Fitting
<1>2. /\ Framed(x) = m \o x /\ m \in Seq(Digits) /\ Len(m) = Width
      /\ Framed(y) = n \o y /\ n \in Seq(Digits) /\ Len(n) = Width
  BY <1>1, FramedBytes
<1> HIDE DEF m, n
<1>3. x \o u \in Seq(Digits) /\ y \o v \in Seq(Digits)
  BY <1>1, ConcatProperties
<1>4. m \o (x \o u) = n \o (y \o v)
  <2>1. (m \o x) \o u = m \o (x \o u)
    <3>1. Regroups(m, x, u)
      BY <1>1, <1>2, Assoc
    <3> QED
      BY <3>1 DEF Regroups
  <2>2. (n \o y) \o v = n \o (y \o v)
    <3>1. Regroups(n, y, v)
      BY <1>1, <1>2, Assoc
    <3> QED
      BY <3>1 DEF Regroups
  <2> QED
    BY <1>2, <2>1, <2>2
<1>5. m = n /\ x \o u = y \o v
  BY <1>2, <1>3, <1>4, ConcatCancel
<1>6. Len(x) = Len(y)
  BY <1>1, <1>5, LengthsDiffer DEF m, n
<1> QED
  BY <1>1, <1>5, <1>6, ConcatCancel

(* As many frames cannot be read in two ways.                              *)
LEMMA FramesCancel ==
  ASSUME NEW a \in Seq(Fitting), NEW b \in Seq(Fitting), Len(a) = Len(b)
  PROVE  \A u, v \in Seq(Digits) : AllFramed(a) \o u = AllFramed(b) \o v => a = b /\ u = v
<1> DEFINE n == Len(a)
           F(s, k) == AllFramed(SubSeq(s, 1, k))
           (* From the back: the first n - j frames are followed by the    *)
           (* same, as long as those after them are.                       *)
           Same(j) == \A p, q \in Seq(Digits) :
                        F(a, j) \o p = F(b, j) \o q => SubSeq(a, 1, j) = SubSeq(b, 1, j) /\ p = q
           T == {j \in 0..n : Same(j)}
<1>0. n \in Nat /\ a \in Seq(Seq(Digits)) /\ b \in Seq(Seq(Digits))
  <2>1. Fitting \subseteq Seq(Digits)
    BY DEF Fitting
  <2> QED
    BY <2>1, SeqMonotonic
<1>1. 0 \in T
  <2>1. SubSeq(a, 1, 0) = <<>> /\ SubSeq(b, 1, 0) = <<>>
    BY SubSeqEmpty
  <2>2. F(a, 0) = <<>> /\ F(b, 0) = <<>>
    BY <2>1, FramesEmpty
  <2> HIDE DEF F
  <2>3. ASSUME NEW p \in Seq(Digits), NEW q \in Seq(Digits), F(a, 0) \o p = F(b, 0) \o q
        PROVE  p = q
    BY <2>2, <2>3, ConcatEmptySeq
  <2>4. Same(0)
    BY <2>1, <2>3
  <2> HIDE DEF Same
  <2> QED
    BY <1>0, <2>4
<1>2. ASSUME NEW j \in 0..(n - 1), j \in T
      PROVE  j + 1 \in T
  <2> DEFINE s == SubSeq(a, 1, j)
             t == SubSeq(b, 1, j)
             x == a[j + 1]
             y == b[j + 1]
  <2>1. /\ s \in Seq(Fitting) /\ x \in Fitting /\ SubSeq(a, 1, j + 1) = Append(s, x)
        /\ t \in Seq(Fitting) /\ y \in Fitting /\ SubSeq(b, 1, j + 1) = Append(t, y)
    BY TakeOneMore
  <2>2. /\ s \in Seq(Seq(Digits)) /\ x \in Seq(Digits)
        /\ t \in Seq(Seq(Digits)) /\ y \in Seq(Digits)
    <3>1. Fitting \subseteq Seq(Digits)
      BY DEF Fitting
    <3> QED
      BY <2>1, <3>1, SeqMonotonic
  <2>3. /\ F(a, j) = AllFramed(s) /\ AllFramed(s) \in Seq(Digits)
        /\ F(b, j) = AllFramed(t) /\ AllFramed(t) \in Seq(Digits)
        /\ F(a, j + 1) = AllFramed(s) \o Framed(x) /\ Framed(x) \in Seq(Digits)
        /\ F(b, j + 1) = AllFramed(t) \o Framed(y) /\ Framed(y) \in Seq(Digits)
    <3>1. F(a, j + 1) = AllFramed(Append(s, x)) /\ F(b, j + 1) = AllFramed(Append(t, y))
      BY <2>1
    <3> HIDE DEF F, s, t, x, y
    <3>2. AllFramed(s) \in Seq(Digits) /\ AllFramed(Append(s, x)) = AllFramed(s) \o Framed(x)
      BY <2>2, FramesAppend
    <3>3. AllFramed(t) \in Seq(Digits) /\ AllFramed(Append(t, y)) = AllFramed(t) \o Framed(y)
      BY <2>2, FramesAppend
    <3>4. Framed(x) \in Seq(Digits) /\ Framed(y) \in Seq(Digits)
      BY <2>2, FramedBytes
    <3>5. F(a, j) = AllFramed(s) /\ F(b, j) = AllFramed(t)
      BY DEF F, s, t
    <3> QED
      BY <3>1, <3>2, <3>3, <3>4, <3>5
  <2> HIDE DEF F, s, t, x, y
  <2>4. ASSUME NEW p \in Seq(Digits), NEW q \in Seq(Digits),
               F(a, j + 1) \o p = F(b, j + 1) \o q
        PROVE  Append(s, x) = Append(t, y) /\ p = q
    <3>1. /\ F(a, j + 1) \o p = AllFramed(s) \o (Framed(x) \o p)
          /\ F(b, j + 1) \o q = AllFramed(t) \o (Framed(y) \o q)
      <4>1. (AllFramed(s) \o Framed(x)) \o p = AllFramed(s) \o (Framed(x) \o p)
        <5>1. Regroups(AllFramed(s), Framed(x), p)
          BY <2>3, Assoc
        <5> QED
          BY <5>1 DEF Regroups
      <4>2. (AllFramed(t) \o Framed(y)) \o q = AllFramed(t) \o (Framed(y) \o q)
        <5>1. Regroups(AllFramed(t), Framed(y), q)
          BY <2>3, Assoc
        <5> QED
          BY <5>1 DEF Regroups
      <4> QED
        BY <2>3, <4>1, <4>2
    <3>2. Framed(x) \o p \in Seq(Digits) /\ Framed(y) \o q \in Seq(Digits)
      BY <2>3, ConcatProperties
    <3>3. F(a, j) \o (Framed(x) \o p) = F(b, j) \o (Framed(y) \o q)
      BY <2>3, <2>4, <3>1
    <3>4. s = t /\ Framed(x) \o p = Framed(y) \o q
      BY <1>2, <3>2, <3>3 DEF s, t
    <3>5. x = y /\ p = q
      <4>1. x \in Fitting /\ y \in Fitting
        BY <2>1
      <4>2. \A f, g \in Seq(Digits) : Framed(x) \o f = Framed(y) \o g => x = y /\ f = g
        BY <4>1, FramedCancel
      <4> QED
        BY <3>4, <4>2
    <3> QED
      BY <3>4, <3>5
  <2>5. j + 1 \in 0..n
    BY <1>0
  <2> QED
    BY <2>1, <2>4, <2>5
<1>3. n \in T
  <2> HIDE DEF T
  <2>1. 0..n \subseteq T
    BY <1>0, <1>1, <1>2, Induct
  <2>2. n \in 0..n
    BY <1>0
  <2> QED
    BY <2>1, <2>2
<1>4. SubSeq(a, 1, n) = a /\ SubSeq(b, 1, n) = b
  BY SubSeqFull
<1> QED
  BY <1>3, <1>4

-----------------------------------------------------------------------------
(* Framing: the inductive invariant.                                       *)

(* The bytes of a frame that is being read.                                *)
Taken == (IF want = <<>> THEN <<>> ELSE ToLe(want[1])) \o got

(* Whether the stream was written by write_frame and nobody else.          *)
Ours == begun # <<>> \/ writer = "idle"

FramingTyped == /\ writer \in {"idle", "writing", "closed", "foreign"}
                /\ unsent \in Seq(Digits)
                /\ begun \in Seq(Payloads)
                /\ stream \in Seq(Digits)
                /\ wire \in Seq(Digits)
                /\ got \in Seq(Digits)
                /\ want = <<>> \/ \E n \in Sizes : want = <<n>>
                /\ delivered \in Seq(Payloads)

(* What was handed over is delivered, in hand or on the wire.              *)
Accounted == /\ Len(got) <= Need
             /\ AllFramed(delivered) \o (Taken \o wire) = stream

(* What was begun is handed over or unsent.                               *)
WrittenSoFar == /\ Ours => stream \o unsent = AllFramed(begun)
                /\ writer = "idle" \/ ~Ours => unsent = <<>>

DeliveredBegun == Ours => /\ Len(delivered) <= Len(begun)
                          /\ delivered = SubSeq(begun, 1, Len(delivered))

FramingInv == FramingTyped /\ Accounted /\ WrittenSoFar /\ DeliveredBegun

LEMMA PayloadsFit == Payloads \subseteq Fitting /\ Payloads \subseteq Seq(Digits)
BY FramingAssumption DEF Fitting

LEMMA FramingTypes ==
  ASSUME FramingTyped
  PROVE  /\ AllFramed(delivered) \in Seq(Digits)
         /\ AllFramed(begun) \in Seq(Digits)
         /\ (IF want = <<>> THEN <<>> ELSE ToLe(want[1])) \in Seq(Digits)
         /\ Taken \in Seq(Digits)
         /\ Need \in Nat
         /\ Len(got) \in Nat
<1>1. delivered \in Seq(Seq(Digits)) /\ begun \in Seq(Seq(Digits))
  BY PayloadsFit, SeqMonotonic DEF FramingTyped
<1>2. want # <<>> => want[1] \in Sizes /\ want[1] \in Nat
  BY SizesRange DEF FramingTyped
<1>3. (IF want = <<>> THEN <<>> ELSE ToLe(want[1])) \in Seq(Digits)
  <2>1. CASE want = <<>>
    BY <2>1, EmptySeq
  <2>2. CASE want # <<>>
    BY <1>2, <2>2, ToLeDigits
  <2> QED
    BY <2>1, <2>2
<1>4. Taken \in Seq(Digits)
  BY <1>3, ConcatProperties DEF Taken, FramingTyped
<1>5. Need \in Nat
  BY <1>2, LengthsAssumption DEF Need
<1>6. AllFramed(delivered) \in Seq(Digits) /\ AllFramed(begun) \in Seq(Digits)
  BY <1>1, FramesLength
<1> QED
  BY <1>3, <1>4, <1>5, <1>6 DEF FramingTyped

LEMMA FramingInitInv == FramingInit => FramingInv
<1> SUFFICES ASSUME FramingInit PROVE FramingInv
  OBVIOUS
<1>1. wire \in Seq(Digits) /\ stream = wire /\ unsent = <<>> /\ (writer = "idle" => wire = <<>>)
  BY FramingAssumption, EmptySeq DEF FramingInit
<1>2. begun = <<>> /\ delivered = <<>> /\ got = <<>> /\ want = <<>>
  BY DEF FramingInit
<1>3. FramingTyped
  BY <1>1, <1>2, EmptySeq DEF FramingTyped, FramingInit
<1>4. Accounted
  <2>1. Taken = <<>>
    <3>1. Taken = <<>> \o <<>>
      BY <1>2 DEF Taken
    <3> QED
      BY <3>1, EmptySeq, ConcatEmptySeq
  <2>2. <<>> \o (<<>> \o wire) = wire
    BY <1>1, ConcatEmptySeq
  <2>3. AllFramed(delivered) = <<>>
    BY <1>2, FramesEmpty
  <2>4. Len(got) <= Need
    BY <1>2, LengthsAssumption DEF Need
  <2> QED
    BY <1>1, <2>1, <2>2, <2>3, <2>4 DEF Accounted
<1>5. WrittenSoFar
  <2>1. ASSUME Ours PROVE stream \o unsent = AllFramed(begun)
    <3>1. stream = <<>>
      BY <1>1, <1>2, <2>1 DEF Ours
    <3>2. <<>> \o <<>> = <<>>
      BY EmptySeq, ConcatEmptySeq
    <3> QED
      BY <1>1, <1>2, <3>1, <3>2, FramesEmpty
  <2> QED
    BY <1>1, <2>1 DEF WrittenSoFar
<1>6. DeliveredBegun
  <2>1. SubSeq(<<>>, 1, 0) = <<>> /\ Len(<<>>) = 0
    BY SubSeqEmpty, EmptySeq
  <2> QED
    BY <1>2, <2>1 DEF DeliveredBegun
<1> QED
  BY <1>3, <1>4, <1>5, <1>6 DEF FramingInv

(* A frame that is complete is the next one that was begun.                *)
LEMMA NextBegun ==
  ASSUME FramingInv, Ours, want # <<>>, Missing = 0
  PROVE  Len(delivered) < Len(begun) /\ got = begun[Len(delivered) + 1]
<1> DEFINE k == Len(delivered)
           rest == wire \o unsent
           A == AllFramed(delivered)
<1>1. /\ got \in Seq(Digits) /\ wire \in Seq(Digits) /\ unsent \in Seq(Digits)
      /\ Taken \in Seq(Digits) /\ A \in Seq(Digits)
      /\ Need \in Nat /\ Len(got) \in Nat
      /\ begun \in Seq(Payloads) /\ begun \in Seq(Seq(Digits))
      /\ k \in Nat /\ Len(begun) \in Nat
  BY FramingTypes, PayloadsFit, SeqMonotonic DEF FramingInv, FramingTyped
<1>2. Len(got) = want[1] /\ want[1] \in Sizes
  BY <1>1 DEF Missing, Need, FramingInv, FramingTyped
<1>3. Taken = Framed(got) /\ got \in Fitting
  BY <1>1, <1>2 DEF Taken, Framed, Fitting
<1>4. rest \in Seq(Digits) /\ Taken \o rest \in Seq(Digits)
  BY <1>1, ConcatProperties
<1>5. AllFramed(begun) = A \o (Taken \o rest)
  <2>1. AllFramed(begun) = (A \o (Taken \o wire)) \o unsent
    BY DEF FramingInv, Accounted, WrittenSoFar
  <2>2. Taken \o wire \in Seq(Digits)
    BY <1>1, ConcatProperties
  <2>3. (A \o (Taken \o wire)) \o unsent = A \o ((Taken \o wire) \o unsent)
    <3>1. Regroups(A, Taken \o wire, unsent)
      BY <1>1, <2>2, Assoc
    <3> QED
      BY <3>1 DEF Regroups
  <2>4. (Taken \o wire) \o unsent = Taken \o rest
    <3>1. Regroups(Taken, wire, unsent)
      BY <1>1, Assoc
    <3> QED
      BY <3>1 DEF Regroups
  <2> QED
    BY <2>1, <2>3, <2>4
<1>6. k <= Len(begun) /\ delivered = SubSeq(begun, 1, k)
  BY DEF FramingInv, DeliveredBegun
<1> HIDE DEF A, rest, k
<1>7. k # Len(begun)
  <2>1. SUFFICES ASSUME k = Len(begun) PROVE FALSE
    OBVIOUS
  <2>2. delivered = begun
    BY <1>1, <1>6, <2>1, SubSeqFull
  <2>3. A = A \o (Taken \o rest)
    BY <1>5, <2>2 DEF A
  <2>4. Taken \o rest = <<>>
    BY <1>1, <1>4, <2>3, ConcatSimplifications
  <2>5. Len(Taken \o rest) = Len(Taken) + Len(rest) /\ Len(rest) \in Nat
    BY <1>1, <1>4, ConcatProperties
  <2>6. Len(Taken) = Width + Len(got)
    BY <1>1, <1>3, FramedBytes
  <2> QED
    BY <1>1, <2>4, <2>5, <2>6, EmptySeq, LengthsAssumption
<1>8. k \in 0..(Len(begun) - 1) /\ k + 1 \in 1..Len(begun)
  BY <1>1, <1>6, <1>7
<1> DEFINE y == begun[k + 1]
<1>9. PICK u \in Seq(Digits) : AllFramed(begun) = A \o (Framed(y) \o u)
  BY <1>1, <1>6, <1>8, FramesNext DEF A
<1>10. y \in Fitting /\ y \in Seq(Digits)
  BY <1>1, <1>8, ElementOfSeq, PayloadsFit
<1> HIDE DEF y
<1>11. Framed(got) \o rest = Framed(y) \o u
  <2>1. Framed(y) \o u \in Seq(Digits)
    BY <1>10, FramedBytes, ConcatProperties
  <2>2. A \o (Taken \o rest) = A \o (Framed(y) \o u)
    BY <1>5, <1>9
  <2>3. Taken \o rest = Framed(y) \o u
    BY <1>1, <1>4, <2>1, <2>2, ConcatCancel
  <2> QED
    BY <1>3, <2>3
<1>12. \A f, g \in Seq(Digits) :
         Framed(got) \o f = Framed(y) \o g => got = y /\ f = g
  BY <1>3, <1>10, FramedCancel
<1>13. got = y
  BY <1>4, <1>11, <1>12
<1> QED
  BY <1>1, <1>6, <1>7, <1>13 DEF k, y

(* Steps that move no byte.                                                *)
LEMMA NoByteMoves ==
  ASSUME FramingInv,
         UNCHANGED <<unsent, begun, stream, wire, got, want, delivered>>,
         writer' \in {"idle", "writing", "closed", "foreign"},
         writer' = "idle" => writer = "idle"
  PROVE  FramingInv'
<1>1. FramingTyped'
  BY DEF FramingInv, FramingTyped
<1>2. Accounted'
  BY DEF FramingInv, Accounted, Taken, Need
<1>3. Ours' => Ours
  BY DEF Ours
<1>4. WrittenSoFar'
  <2>1. writer' = "idle" \/ ~Ours' => writer = "idle" \/ ~Ours
    BY DEF Ours
  <2> QED
    BY <1>3, <2>1 DEF FramingInv, WrittenSoFar
<1>5. DeliveredBegun'
  BY <1>3 DEF FramingInv, DeliveredBegun
<1> QED
  BY <1>1, <1>2, <1>4, <1>5 DEF FramingInv

LEMMA WriteFrameKeeps ==
  ASSUME FramingInv, NEW p \in Payloads, WriteFrame(p)
  PROVE  FramingInv'
<1>1. /\ p \in Seq(Digits)
      /\ Framed(p) \in Seq(Digits)
      /\ begun \in Seq(Payloads) /\ begun \in Seq(Seq(Digits))
      /\ begun' = Append(begun, p) /\ begun' \in Seq(Payloads) /\ begun' # <<>>
      /\ stream \in Seq(Digits) /\ unsent = <<>> /\ Ours
  <2>1. p \in Seq(Digits)
    BY PayloadsFit
  <2>2. Framed(p) \in Seq(Digits)
    BY <2>1, PayloadsFit, FramedBytes
  <2>3. begun \in Seq(Payloads) /\ stream \in Seq(Digits)
    BY DEF FramingInv, FramingTyped
  <2>4. begun \in Seq(Seq(Digits))
    BY <2>3, PayloadsFit, SeqMonotonic
  <2>5. begun' = Append(begun, p) /\ writer = "idle"
    BY DEF WriteFrame
  <2>6. begun' \in Seq(Payloads) /\ Len(begun') = Len(begun) + 1 /\ Len(begun) \in Nat
    BY <2>3, <2>5, AppendProperties
  <2>7. begun' # <<>>
    BY <2>6, EmptySeq
  <2>8. unsent = <<>> /\ Ours
    BY <2>5 DEF FramingInv, WrittenSoFar, Ours
  <2> QED
    BY <2>1, <2>2, <2>3, <2>4, <2>5, <2>6, <2>7, <2>8
<1>2. FramingTyped'
  BY <1>1 DEF WriteFrame, FramingInv, FramingTyped
<1>3. Accounted'
  BY DEF WriteFrame, FramingInv, Accounted, Taken, Need
<1>4. WrittenSoFar'
  <2>1. stream = AllFramed(begun)
    <3>1. stream \o unsent = AllFramed(begun)
      BY <1>1 DEF FramingInv, WrittenSoFar
    <3>2. stream \o <<>> = stream
      BY <1>1, ConcatEmptySeq
    <3> QED
      BY <1>1, <3>1, <3>2
  <2>2. AllFramed(begun') = AllFramed(begun) \o Framed(p)
    BY <1>1, FramesAppend
  <2>3. stream' = stream /\ unsent' = Framed(p) /\ writer' = "writing" /\ Ours'
    BY <1>1 DEF WriteFrame, Ours
  <2> QED
    BY <2>1, <2>2, <2>3 DEF WrittenSoFar
<1>5. DeliveredBegun'
  <2> DEFINE k == Len(delivered)
  <2>1. k <= Len(begun) /\ delivered = SubSeq(begun, 1, k)
    BY <1>1 DEF FramingInv, DeliveredBegun
  <2>2. k \in 0..Len(begun) /\ Len(begun) \in Nat /\ Len(begun') = Len(begun) + 1
    BY <1>1, <2>1, AppendProperties DEF FramingInv, FramingTyped
  <2>3. SubSeq(begun', 1, k) = SubSeq(begun, 1, k)
    <3>1. /\ begun' \in Seq(Payloads) /\ k \in 0..Len(begun')
          /\ \A i \in 1..k : begun'[i] = begun[i]
      BY <1>1, <2>2, AppendProperties
    <3> HIDE DEF k
    <3>2. /\ SubSeq(begun', 1, k) \in Seq(Payloads) /\ Len(SubSeq(begun', 1, k)) = k
          /\ SubSeq(begun, 1, k) \in Seq(Payloads) /\ Len(SubSeq(begun, 1, k)) = k
      BY <1>1, <2>2, <3>1, TakeSome
    <3>3. \A i \in 1..k : SubSeq(begun', 1, k)[i] = SubSeq(begun, 1, k)[i]
      BY <1>1, <2>2, <3>1
    <3> QED
      BY <3>2, <3>3, SeqEqual
  <2>4. delivered' = delivered
    BY DEF WriteFrame
  <2> QED
    BY <2>1, <2>2, <2>3, <2>4 DEF DeliveredBegun
<1> QED
  BY <1>2, <1>3, <1>4, <1>5 DEF FramingInv

LEMMA WriteSomeKeeps ==
  ASSUME FramingInv, NEW n \in 1..Len(unsent), WriteSome(n)
  PROVE  FramingInv'
<1> DEFINE x == SubSeq(unsent, 1, n)
           y == SubSeq(unsent, n + 1, Len(unsent))
<1>1. /\ unsent \in Seq(Digits) /\ wire \in Seq(Digits) /\ stream \in Seq(Digits)
      /\ Taken \in Seq(Digits) /\ AllFramed(delivered) \in Seq(Digits)
  BY FramingTypes DEF FramingInv, FramingTyped
<1>2. n \in 0..Len(unsent) /\ Len(unsent) \in Nat
  BY <1>1
<1>3. /\ x \in Seq(Digits) /\ y \in Seq(Digits)
      /\ Len(y) = Len(unsent) - n
      /\ unsent = x \o y
  BY <1>1, <1>2, TakeSome
<1>a. x \in Seq(Digits) /\ y \in Seq(Digits)
  BY <1>3
<1>b. stream \in Seq(Digits) /\ wire \in Seq(Digits) /\ Taken \in Seq(Digits)
  BY <1>1
<1>4. /\ wire' = wire \o x /\ stream' = stream \o x /\ unsent' = y
      /\ begun' = begun /\ got' = got /\ want' = want /\ delivered' = delivered
      /\ writer = "writing" /\ writer' = IF n = Len(unsent) THEN "idle" ELSE "writing"
  BY DEF WriteSome
<1> HIDE DEF x, y
<1>5. FramingTyped'
  <2>1. wire' \in Seq(Digits) /\ stream' \in Seq(Digits)
    BY <1>1, <1>3, <1>4, ConcatProperties
  <2> QED
    BY <1>3, <1>4, <2>1 DEF FramingInv, FramingTyped
<1>6. Accounted'
  <2>1. Taken' = Taken /\ Len(got') <= Need'
    BY <1>4 DEF Taken, Need, FramingInv, Accounted
  <2> DEFINE A == AllFramed(delivered)
  <2>2. A \o (Taken \o wire) = stream
    BY DEF FramingInv, Accounted
  <2> HIDE DEF A
  <2>3. Taken \o wire \in Seq(Digits) /\ A \in Seq(Digits)
    BY <1>1, ConcatProperties DEF A
  <2>4. Taken \o (wire \o x) = (Taken \o wire) \o x
    <3>1. Regroups(Taken, wire, x)
      BY <1>a, <1>b, Assoc
    <3> QED
      BY <3>1 DEF Regroups
  <2>5. A \o ((Taken \o wire) \o x) = (A \o (Taken \o wire)) \o x
    <3>1. Regroups(A, Taken \o wire, x)
      BY <1>3, <2>3, Assoc
    <3> QED
      BY <3>1 DEF Regroups
  <2>6. A \o (Taken' \o wire') = stream'
    BY <1>4, <2>1, <2>2, <2>4, <2>5
  <2> QED
    BY <1>4, <2>1, <2>6 DEF A, Accounted
<1>7. WrittenSoFar'
  <2>1. Ours' => begun # <<>>
    BY <1>3, <1>4, EmptySeq DEF Ours, FramingInv, WrittenSoFar
  <2>2. ASSUME Ours' PROVE stream' \o unsent' = AllFramed(begun')
    <3>1. stream \o unsent = AllFramed(begun)
      BY <2>1, <2>2 DEF FramingInv, WrittenSoFar, Ours
    <3>2. (stream \o x) \o y = stream \o (x \o y)
      <4>1. Regroups(stream, x, y)
        BY <1>a, <1>b, Assoc
      <4> QED
        BY <4>1 DEF Regroups
    <3> QED
      BY <1>3, <1>4, <3>1, <3>2
  <2>3. ASSUME writer' = "idle" \/ ~Ours' PROVE unsent' = <<>>
    <3>1. CASE writer' = "idle"
      BY <1>2, <1>3, <1>4, <3>1, EmptySeq
    <3>2. CASE ~Ours'
      <4>1. ~Ours
        BY <1>4, <3>2 DEF Ours
      <4>2. unsent = <<>>
        BY <4>1 DEF FramingInv, WrittenSoFar
      <4> QED
        BY <1>2, <4>2, EmptySeq
    <3> QED
      BY <2>3, <3>1, <3>2
  <2> QED
    BY <2>2, <2>3 DEF WrittenSoFar
<1>8. DeliveredBegun'
  <2>1. Ours
    <3>1. unsent # <<>>
      BY <1>2, EmptySeq
    <3> QED
      BY <3>1 DEF FramingInv, WrittenSoFar
  <2> QED
    BY <1>4, <2>1 DEF FramingInv, DeliveredBegun
<1> QED
  BY <1>5, <1>6, <1>7, <1>8 DEF FramingInv

LEMMA ReadSomeKeeps ==
  ASSUME FramingInv, NEW n \in 1..Len(wire), ReadSome(n)
  PROVE  FramingInv'
<1> DEFINE x == SubSeq(wire, 1, n)
           y == SubSeq(wire, n + 1, Len(wire))
           prefix == IF want = <<>> THEN <<>> ELSE ToLe(want[1])
<1>1. /\ wire \in Seq(Digits) /\ got \in Seq(Digits) /\ prefix \in Seq(Digits)
      /\ Need \in Nat /\ Len(got) \in Nat
  BY FramingTypes DEF FramingInv, FramingTyped
<1>2. n \in 0..Len(wire)
  BY <1>1
<1>3. x \in Seq(Digits) /\ Len(x) = n /\ y \in Seq(Digits) /\ wire = x \o y
  BY <1>1, <1>2, TakeSome
<1>4. /\ got' = got \o x /\ wire' = y /\ n \in 1..Missing
      /\ UNCHANGED <<writer, unsent, begun, stream, want, delivered>>
  BY DEF ReadSome, writerVars
<1>5. Taken = prefix \o got /\ Taken' = prefix \o got'
  BY <1>4 DEF Taken
<1> HIDE DEF x, y, prefix
<1>6. got' \in Seq(Digits) /\ Len(got') = Len(got) + n
  BY <1>1, <1>3, <1>4, ConcatProperties
<1>7. FramingTyped'
  BY <1>3, <1>4, <1>6 DEF FramingInv, FramingTyped
<1>8. Accounted'
  <2>1. Need' = Need
    BY <1>4 DEF Need
  <2>2. Len(got') <= Need'
    BY <1>1, <1>4, <1>6, <2>1 DEF Missing
  <2>3. Taken' = Taken \o x
    <3>1. (prefix \o got) \o x = prefix \o (got \o x)
      <4>1. Regroups(prefix, got, x)
        BY <1>1, <1>3, Assoc
      <4> QED
        BY <4>1 DEF Regroups
    <3> QED
      BY <1>4, <1>5, <3>1
  <2>4. Taken' \o wire' = Taken \o wire
    <3>1. Taken \in Seq(Digits)
      BY <1>1, <1>5, ConcatProperties
    <3>2. (Taken \o x) \o y = Taken \o (x \o y)
      <4>1. Regroups(Taken, x, y)
        BY <1>3, <3>1, Assoc
      <4> QED
        BY <4>1 DEF Regroups
    <3> QED
      BY <1>3, <1>4, <2>3, <3>2
  <2> QED
    BY <1>4, <2>2, <2>4 DEF FramingInv, Accounted
<1>9. WrittenSoFar' /\ DeliveredBegun'
  BY <1>4 DEF FramingInv, WrittenSoFar, DeliveredBegun, Ours
<1> QED
  BY <1>7, <1>8, <1>9 DEF FramingInv

LEMMA TakePrefixKeeps ==
  ASSUME FramingInv, TakePrefix
  PROVE  FramingInv'
<1>1. CASE FromLe(got) > MaxFrame
  <2>1. UNCHANGED <<writer, unsent, begun, stream, wire, got, want, delivered>>
    BY <1>1 DEF TakePrefix, Fail, writerVars
  <2>2. writer' \in {"idle", "writing", "closed", "foreign"}
    BY <2>1 DEF FramingInv, FramingTyped
  <2> QED
    BY <2>1, <2>2, NoByteMoves
<1>2. CASE ~(FromLe(got) > MaxFrame)
  <2>1. /\ want = <<>> /\ want' = <<FromLe(got)>> /\ got' = <<>>
        /\ UNCHANGED <<writer, unsent, begun, stream, wire, delivered>>
    BY <1>2 DEF TakePrefix, writerVars
  <2>2. got \in Seq(Digits) /\ Len(got) = Width
    <3>1. Len(got) \in Nat /\ got \in Seq(Digits)
      BY FramingTypes DEF FramingInv, FramingTyped
    <3>2. Need = Width /\ Need - Len(got) = 0
      BY <2>1 DEF Need, TakePrefix, Missing
    <3> QED
      BY <3>1, <3>2, LengthsAssumption
  <2>3. FromLe(got) \in Sizes /\ ToLe(FromLe(got)) = got
    BY <2>2, LengthWritesBack
  <2>4. FramingTyped'
    BY <2>1, <2>3, EmptySeq DEF FramingInv, FramingTyped
  <2>5. Accounted'
    <3>1. Taken = <<>> \o got /\ Taken' = got \o <<>>
      BY <2>1, <2>3 DEF Taken
    <3>2. Taken' = Taken
      BY <2>2, <3>1, ConcatEmptySeq
    <3>3. Len(got') <= Need'
      BY <2>1, <2>3, SizesRange DEF Need
    <3> QED
      BY <2>1, <3>2, <3>3 DEF FramingInv, Accounted
  <2>6. WrittenSoFar' /\ DeliveredBegun'
    BY <2>1 DEF FramingInv, WrittenSoFar, DeliveredBegun, Ours
  <2> QED
    BY <2>4, <2>5, <2>6 DEF FramingInv
<1> QED
  BY <1>1, <1>2

LEMMA TakePayloadKeeps ==
  ASSUME FramingInv, TakePayload
  PROVE  FramingInv'
<1>1. CASE got \notin Payloads
  <2>1. UNCHANGED <<writer, unsent, begun, stream, wire, got, want, delivered>>
    BY <1>1 DEF TakePayload, Fail, writerVars
  <2>2. writer' \in {"idle", "writing", "closed", "foreign"}
    BY <2>1 DEF FramingInv, FramingTyped
  <2> QED
    BY <2>1, <2>2, NoByteMoves
<1>2. CASE got \in Payloads
  <2>1. /\ want # <<>> /\ Missing = 0
        /\ delivered' = Append(delivered, got) /\ got' = <<>> /\ want' = <<>>
        /\ UNCHANGED <<writer, unsent, begun, stream, wire>>
    BY <1>2 DEF TakePayload, writerVars
  <2>2. /\ got \in Seq(Digits) /\ wire \in Seq(Digits) /\ Len(got) \in Nat
        /\ AllFramed(delivered) \in Seq(Digits) /\ Taken \in Seq(Digits)
        /\ delivered \in Seq(Payloads) /\ delivered \in Seq(Seq(Digits))
    BY FramingTypes, PayloadsFit, SeqMonotonic DEF FramingInv, FramingTyped
  <2>3. Taken = Framed(got)
    <3>1. Len(got) = want[1]
      BY <2>1, <2>2, SizesRange DEF Missing, Need, FramingInv, FramingTyped
    <3> QED
      BY <2>1, <3>1 DEF Taken, Framed
  <2>4. FramingTyped'
    BY <1>2, <2>1, <2>2, EmptySeq, AppendProperties DEF FramingInv, FramingTyped
  <2>5. Accounted'
    <3> DEFINE A == AllFramed(delivered)
    <3>1. AllFramed(delivered') = A \o Taken
      BY <2>1, <2>2, <2>3, FramesAppend
    <3>2. Taken' = <<>>
      <4>1. Taken' = <<>> \o <<>>
        BY <2>1 DEF Taken
      <4> QED
        BY <4>1, EmptySeq, ConcatEmptySeq
    <3> HIDE DEF A
    <3>3. (A \o Taken) \o wire = A \o (Taken \o wire)
      <4>1. Regroups(A, Taken, wire)
        BY <2>2, Assoc DEF A
      <4> QED
        BY <4>1 DEF Regroups
    <3>4. <<>> \o wire = wire
      BY <2>2, ConcatEmptySeq
    <3>5. A \o (Taken \o wire) = stream
      BY DEF FramingInv, Accounted, A
    <3>6. Len(got') <= Need'
      BY <2>1, LengthsAssumption DEF Need
    <3> QED
      BY <2>1, <3>1, <3>2, <3>3, <3>4, <3>5, <3>6 DEF Accounted
  <2>6. WrittenSoFar'
    BY <2>1 DEF FramingInv, WrittenSoFar, Ours
  <2>7. DeliveredBegun'
    <3> SUFFICES ASSUME Ours PROVE DeliveredBegun'
      BY <2>1 DEF DeliveredBegun, Ours
    <3> DEFINE k == Len(delivered)
    <3>1. k < Len(begun) /\ got = begun[k + 1]
      BY <2>1, NextBegun
    <3>2. k \in 0..(Len(begun) - 1) /\ begun \in Seq(Payloads) /\ Len(begun) \in Nat
      BY <2>2, <3>1 DEF FramingInv, FramingTyped
    <3>3. SubSeq(begun, 1, k + 1) = Append(SubSeq(begun, 1, k), begun[k + 1])
      BY <3>2, TakeOneMore
    <3>4. delivered = SubSeq(begun, 1, k)
      BY DEF FramingInv, DeliveredBegun
    <3>5. Len(delivered') = k + 1
      BY <2>1, <2>2, <1>2, AppendProperties
    <3> HIDE DEF k
    <3>6. delivered' = SubSeq(begun, 1, k + 1)
      BY <2>1, <3>1, <3>3, <3>4
    <3> QED
      BY <2>1, <3>2, <3>5, <3>6 DEF DeliveredBegun
  <2> QED
    BY <2>4, <2>5, <2>6, <2>7 DEF FramingInv
<1> QED
  BY <1>1, <1>2

LEMMA FramingNextInv == FramingInv /\ [FramingNext]_framingVars => FramingInv'
<1> SUFFICES ASSUME FramingInv, [FramingNext]_framingVars PROVE FramingInv'
  OBVIOUS
<1>0. writer \in {"idle", "writing", "closed", "foreign"}
  BY DEF FramingInv, FramingTyped
<1>1. ASSUME NEW p \in Payloads, WriteFrame(p) PROVE FramingInv'
  BY <1>1, WriteFrameKeeps
<1>2. ASSUME NEW p \in Payloads, WriteRefused(p) PROVE FramingInv'
  BY <1>0, <1>2, NoByteMoves DEF WriteRefused, framingVars, writerVars
<1>3. ASSUME NEW n \in 1..Len(unsent), WriteSome(n) PROVE FramingInv'
  BY <1>3, WriteSomeKeeps
<1>4. ASSUME WriteFails \/ WriterLeaves PROVE FramingInv'
  BY <1>4, NoByteMoves DEF WriteFails, WriterLeaves
<1>5. ASSUME NEW n \in 1..Len(wire), ReadSome(n) PROVE FramingInv'
  BY <1>5, ReadSomeKeeps
<1>6. ASSUME ReachEnd \/ TimeOut PROVE FramingInv'
  BY <1>0, <1>6, NoByteMoves DEF ReachEnd, TimeOut, Fail, writerVars
<1>7. CASE UNCHANGED framingVars
  BY <1>0, <1>7, NoByteMoves DEF framingVars, writerVars
<1> QED
  BY <1>1, <1>2, <1>3, <1>4, <1>5, <1>6, <1>7, TakePrefixKeeps, TakePayloadKeeps
     DEF FramingNext, ReaderStep

(* The inductive invariant of a connection: what was delivered, is in hand *)
(* and is on the wire is what was handed over, which with what is unsent  *)
(* is the frames that were begun, so long as this program writes them.     *)
THEOREM FramingInvariance == FramingSpec => []FramingInv
BY FramingInitInv, FramingNextInv, PTL DEF FramingSpec

(* What is left of a queue, when something is put in, and when the first   *)
(* is taken out.                                                           *)
LEMMA Rest ==
  ASSUME NEW S, NEW s \in Seq(S), NEW k \in 0..Len(s)
  PROVE  /\ SubSeq(s, k + 1, Len(s)) \in Seq(S)
         /\ Len(SubSeq(s, k + 1, Len(s))) = Len(s) - k
         /\ \A i \in 1..(Len(s) - k) : SubSeq(s, k + 1, Len(s))[i] = s[k + i]
<1> DEFINE n == Len(s)
           u == SubSeq(s, k + 1, n)
<1>1. n \in Nat /\ k \in Nat /\ k <= n
  OBVIOUS
<1>2. \A i \in (k + 1)..n : s[i] \in S
  BY <1>1, ElementOfSeq
<1>3. /\ u \in Seq(S)
      /\ Len(u) = IF k + 1 <= n THEN n - (k + 1) + 1 ELSE 0
      /\ \A i \in 1..(n - (k + 1) + 1) : u[i] = s[(k + 1) + i - 1]
  BY <1>1, <1>2, SubSeqProperties
<1> HIDE DEF u, n
<1>4. Len(u) = n - k
  BY <1>1, <1>3
<1>5. ASSUME NEW i \in 1..(n - k) PROVE u[i] = s[k + i]
  <2>1. i \in 1..(n - (k + 1) + 1) /\ (k + 1) + i - 1 = k + i
    BY <1>1
  <2>2. u[i] = s[(k + 1) + i - 1]
    BY <1>3, <2>1
  <2> QED
    BY <2>1, <2>2
<1> QED
  BY <1>3, <1>4, <1>5 DEF u, n

LEMMA RestAppend ==
  ASSUME NEW S, NEW s \in Seq(S), NEW x \in S, NEW k \in 0..Len(s)
  PROVE  SubSeq(Append(s, x), k + 1, Len(Append(s, x))) = Append(SubSeq(s, k + 1, Len(s)), x)
<1> DEFINE n == Len(s)
           t == Append(s, x)
           u == SubSeq(s, k + 1, n)
           v == SubSeq(t, k + 1, Len(t))
<1>1. /\ n \in Nat /\ k \in Nat /\ k <= n
      /\ t \in Seq(S) /\ Len(t) = n + 1
      /\ \A i \in 1..n : t[i] = s[i]
      /\ t[n + 1] = x
  BY AppendProperties
<1>2. u \in Seq(S) /\ Len(u) = n - k /\ \A i \in 1..(n - k) : u[i] = s[k + i]
  BY Rest
<1> HIDE DEF t
<1>3. /\ v \in Seq(S) /\ Len(v) = Len(t) - k
      /\ \A i \in 1..(Len(t) - k) : v[i] = t[k + i]
  <2>1. k \in 0..Len(t)
    BY <1>1
  <2> QED
    BY <1>1, <2>1, Rest
<1> HIDE DEF u, v, n
<1>4. Len(t) - k = (n - k) + 1 /\ n - k \in Nat
  BY <1>1
<1> DEFINE w == Append(u, x)
<1>5. /\ w \in Seq(S) /\ Len(w) = (n - k) + 1
      /\ \A i \in 1..(n - k) : w[i] = u[i]
      /\ w[(n - k) + 1] = x
  BY <1>2, AppendProperties
<1> HIDE DEF w
<1>6. ASSUME NEW i \in 1..((n - k) + 1) PROVE v[i] = w[i]
  <2>0. v[i] = t[k + i]
    BY <1>3, <1>4
  <2>1. CASE i \in 1..(n - k)
    <3>1. k + i \in 1..n
      BY <1>1, <2>1
    <3>2. t[k + i] = s[k + i]
      BY <1>1, <3>1
    <3>3. w[i] = s[k + i]
      BY <1>2, <1>5, <2>1
    <3> QED
      BY <2>0, <3>2, <3>3
  <2>2. CASE i = (n - k) + 1
    <3>1. k + i = n + 1
      BY <1>1, <2>2
    <3> QED
      BY <1>1, <1>5, <2>0, <2>2, <3>1
  <2> QED
    BY <1>4, <2>1, <2>2
<1>7. v = w
  BY <1>3, <1>4, <1>5, <1>6, SeqEqual
<1> QED
  BY <1>7 DEF u, v, w, t, n

LEMMA RestFirst ==
  ASSUME NEW S, NEW s \in Seq(S), NEW k \in 0..(Len(s) - 1)
  PROVE  /\ SubSeq(s, k + 1, Len(s)) # <<>>
         /\ Head(SubSeq(s, k + 1, Len(s))) = s[k + 1]
         /\ Tail(SubSeq(s, k + 1, Len(s))) = SubSeq(s, (k + 1) + 1, Len(s))
<1> DEFINE n == Len(s)
           u == SubSeq(s, k + 1, n)
           v == SubSeq(s, (k + 1) + 1, n)
<1>1. n \in Nat /\ k \in Nat /\ k < n /\ k \in 0..n /\ k + 1 \in 0..n
  OBVIOUS
<1>2. u \in Seq(S) /\ Len(u) = n - k /\ \A i \in 1..(n - k) : u[i] = s[k + i]
  BY <1>1, Rest
<1>3. v \in Seq(S) /\ Len(v) = n - (k + 1) /\ \A i \in 1..(n - (k + 1)) : v[i] = s[(k + 1) + i]
  BY <1>1, Rest
<1> HIDE DEF u, v, n
<1>4. u # <<>>
  BY <1>1, <1>2, EmptySeq
<1> DEFINE w == Tail(u)
<1>5. /\ w \in Seq(S) /\ Len(w) = Len(u) - 1
      /\ \A i \in 1..Len(w) : w[i] = u[i + 1]
  BY <1>2, <1>4, HeadTailProperties
<1> HIDE DEF w
<1>6. Len(w) = n - (k + 1)
  BY <1>1, <1>2, <1>5
<1>7. ASSUME NEW i \in 1..Len(w) PROVE w[i] = v[i]
  <2>1. i + 1 \in 1..(n - k) /\ k + (i + 1) = (k + 1) + i
    BY <1>1, <1>6
  <2>2. w[i] = s[(k + 1) + i]
    BY <1>2, <1>5, <2>1
  <2> QED
    BY <1>3, <1>6, <2>2
<1>8. w = v
  BY <1>3, <1>5, <1>6, <1>7, SeqEqual
<1>9. Head(u) = s[k + 1]
  <2>1. 1 \in 1..(n - k)
    BY <1>1
  <2>2. Head(u) = u[1]
    BY <1>2, <1>4
  <2> QED
    BY <1>2, <2>1, <2>2
<1> QED
  BY <1>4, <1>8, <1>9 DEF u, v, n, w

-----------------------------------------------------------------------------
(* Framing: the properties.                                                *)

(* No byte is skipped, read twice or made up, wherever read_exact and      *)
(* write_all break and whoever wrote.                                      *)
THEOREM BytesAreAccountedFor == FramingSpec => []StreamAccountedFor
<1>1. FramingInv => StreamAccountedFor
  <2> SUFFICES ASSUME FramingInv PROVE StreamAccountedFor
    OBVIOUS
  <2> DEFINE A == AllFramed(delivered)
             p == IF want = <<>> THEN <<>> ELSE ToLe(want[1])
  <2>1. A \in Seq(Digits) /\ p \in Seq(Digits) /\ got \in Seq(Digits) /\ wire \in Seq(Digits)
    BY FramingTypes DEF FramingInv, FramingTyped
  <2>2. A \o ((p \o got) \o wire) = stream
    BY DEF FramingInv, Accounted, Taken
  <2>3. StreamAccountedFor = (((A \o p) \o got) \o wire = stream)
    BY DEF StreamAccountedFor
  <2> HIDE DEF A, p
  <2>4. (A \o p) \o got = A \o (p \o got)
    <3>1. Regroups(A, p, got)
      BY <2>1, Assoc
    <3> QED
      BY <3>1 DEF Regroups
  <2>5. p \o got \in Seq(Digits)
    BY <2>1, ConcatProperties
  <2>6. (A \o (p \o got)) \o wire = A \o ((p \o got) \o wire)
    <3>1. Regroups(A, p \o got, wire)
      BY <2>1, <2>5, Assoc
    <3> QED
      BY <3>1 DEF Regroups
  <2> QED
    BY <2>2, <2>3, <2>4, <2>6
<1> QED
  BY <1>1, FramingInvariance, PTL

(* A frame of which write_frame has not handed over the last byte is not   *)
(* returned by read_frame, in whole or in part.                            *)
THEOREM CutOffFrameIsLost == FramingSpec => []CutOffIsLost
<1>1. FramingInv => CutOffIsLost
  <2> SUFFICES ASSUME FramingInv, unsent # <<>>, ~(Len(delivered) < Len(begun)) PROVE FALSE
    BY DEF CutOffIsLost
  <2> DEFINE A == AllFramed(delivered)
             r == Taken \o wire
  <2>1. Ours
    BY DEF FramingInv, WrittenSoFar
  <2>2. /\ begun \in Seq(Payloads) /\ delivered \in Seq(Payloads)
        /\ unsent \in Seq(Digits) /\ wire \in Seq(Digits)
    BY DEF FramingInv, FramingTyped
  <2>3. Len(delivered) = Len(begun) /\ delivered = SubSeq(begun, 1, Len(delivered))
    BY <2>1, <2>2 DEF FramingInv, DeliveredBegun
  <2>4. delivered = begun
    BY <2>2, <2>3, SubSeqFull
  <2>5. Taken \in Seq(Digits) /\ A \in Seq(Digits)
    BY FramingTypes DEF FramingInv
  <2>6. r \in Seq(Digits) /\ r \o unsent \in Seq(Digits)
    BY <2>2, <2>5, ConcatProperties
  <2>7. (A \o r) \o unsent = A
    BY <2>1, <2>4 DEF FramingInv, Accounted, WrittenSoFar
  <2> HIDE DEF A, r
  <2>8. (A \o r) \o unsent = A \o (r \o unsent)
    <3>1. Regroups(A, r, unsent)
      BY <2>2, <2>5, <2>6, Assoc
    <3> QED
      BY <3>1 DEF Regroups
  <2>9. r \o unsent = <<>>
    BY <2>5, <2>6, <2>7, <2>8, ConcatSimplifications
  <2>10. Len(r \o unsent) = Len(r) + Len(unsent) /\ Len(r) \in Nat /\ Len(unsent) \in Nat
    BY <2>2, <2>6, ConcatProperties
  <2>11. Len(unsent) = 0
    BY <2>9, <2>10, EmptySeq
  <2> QED
    BY <2>2, <2>11, EmptySeq
<1> QED
  BY <1>1, FramingInvariance, PTL

-----------------------------------------------------------------------------
(* Framing: what it implements.                                            *)

LEMMA FramingStartsChannel == FramingInit => Channel!ChannelInit
<1> SUFFICES ASSUME FramingInit PROVE Channel!ChannelInit
  OBVIOUS
<1>1. begun = <<>> /\ delivered = <<>>
  BY DEF FramingInit
<1>2. SubSeq(<<>>, Len(<<>>) + 1, Len(<<>>)) = <<>>
  BY EmptySeq, SubSeqEmpty
<1> QED
  BY <1>1, <1>2 DEF Channel!ChannelInit, Undelivered

LEMMA WriteFrameGives ==
  ASSUME FramingInv, NEW p \in Payloads, WriteFrame(p)
  PROVE  Channel!Give
<1> DEFINE k == Len(delivered)
<1>1. Ours /\ begun' = Append(begun, p) /\ delivered' = delivered
  BY DEF WriteFrame, Ours
<1>2. begun \in Seq(Payloads) /\ delivered \in Seq(Payloads)
  BY DEF FramingInv, FramingTyped
<1>3. k \in Nat /\ Len(begun) \in Nat /\ k <= Len(begun)
  BY <1>1, <1>2 DEF FramingInv, DeliveredBegun
<1>4. k \in 0..Len(begun)
  BY <1>3
<1>5. begun' # <<>>
  BY <1>1, <1>2, AppendProperties
<1>6. begun = <<>> => delivered = <<>>
  <2> SUFFICES ASSUME begun = <<>> PROVE delivered = <<>>
    OBVIOUS
  <2>1. k = 0
    BY <1>3, EmptySeq
  <2> QED
    BY <1>2, <2>1, EmptySeq
<1>7. SubSeq(Append(begun, p), k + 1, Len(Append(begun, p))) = Append(SubSeq(begun, k + 1, Len(begun)), p)
  <2> HIDE DEF k
  <2> QED
    BY <1>2, <1>4, RestAppend
<1>8. Undelivered' = Append(Undelivered, p)
  BY <1>1, <1>7 DEF Undelivered
<1> QED
  BY <1>1, <1>5, <1>6, <1>8 DEF Channel!Give

LEMMA TakePayloadReceives ==
  ASSUME FramingInv, TakePayload
  PROVE  Channel!Receive \/ UNCHANGED Channel!channelVars
<1>1. CASE begun = <<>>
  <2>1. begun' = <<>>
    BY <1>1 DEF TakePayload, Fail, writerVars
  <2>2. delivered \in Seq(Payloads) /\ delivered' \in Seq(Payloads)
    BY TakePayloadKeeps DEF FramingInv, FramingTyped
  <2>3. Undelivered = <<>> /\ Undelivered' = <<>>
    <3>1. \A n \in Nat : SubSeq(<<>>, n + 1, Len(<<>>)) = <<>>
      BY EmptySeq, SubSeqEmpty
    <3> QED
      BY <1>1, <2>1, <2>2, <3>1 DEF Undelivered
  <2> QED
    BY <1>1, <2>1, <2>3 DEF Channel!channelVars
<1>2. CASE begun # <<>> /\ got \notin Payloads
  <2>1. begun' = begun /\ delivered' = delivered
    BY <1>2 DEF TakePayload, Fail, writerVars
  <2> QED
    BY <2>1 DEF Channel!channelVars, Undelivered
<1>3. CASE begun # <<>> /\ got \in Payloads
  <2> DEFINE k == Len(delivered)
  <2>1. /\ want # <<>> /\ Missing = 0 /\ begun' = begun
        /\ delivered' = Append(delivered, got)
    BY <1>3 DEF TakePayload, writerVars
  <2>2. k < Len(begun) /\ got = begun[k + 1]
    BY <1>3, <2>1, NextBegun DEF Ours
  <2>3. begun \in Seq(Payloads) /\ delivered \in Seq(Payloads)
    BY DEF FramingInv, FramingTyped
  <2>4. k \in 0..(Len(begun) - 1) /\ Len(delivered') = k + 1
    BY <1>3, <2>1, <2>2, <2>3, AppendProperties
  <2> HIDE DEF k
  <2>5. /\ SubSeq(begun, k + 1, Len(begun)) # <<>>
        /\ Head(SubSeq(begun, k + 1, Len(begun))) = begun[k + 1]
        /\ Tail(SubSeq(begun, k + 1, Len(begun))) = SubSeq(begun, (k + 1) + 1, Len(begun))
    BY <2>3, <2>4, RestFirst
  <2>6. Undelivered # <<>> /\ Head(Undelivered) = got /\ Tail(Undelivered) = Undelivered'
    BY <2>1, <2>2, <2>4, <2>5 DEF Undelivered, k
  <2> QED
    BY <1>3, <2>1, <2>6 DEF Channel!Receive
<1> QED
  BY <1>1, <1>2, <1>3

LEMMA FramingStepsChannel ==
  FramingInv /\ [FramingNext]_framingVars => [Channel!Give \/ Channel!Receive]_Channel!channelVars
<1> SUFFICES ASSUME FramingInv, [FramingNext]_framingVars
             PROVE  Channel!Give \/ Channel!Receive \/ UNCHANGED Channel!channelVars
  OBVIOUS
<1>1. ASSUME UNCHANGED <<begun, delivered>> PROVE UNCHANGED Channel!channelVars
  BY <1>1 DEF Channel!channelVars, Undelivered
<1>2. ASSUME NEW p \in Payloads, WriteFrame(p) PROVE Channel!Give
  BY <1>2, WriteFrameGives
<1>3. ASSUME NEW p \in Payloads, WriteRefused(p) PROVE UNCHANGED <<begun, delivered>>
  BY <1>3 DEF WriteRefused, framingVars, writerVars
<1>4. ASSUME NEW n \in 1..Len(unsent), WriteSome(n) PROVE UNCHANGED <<begun, delivered>>
  BY <1>4 DEF WriteSome
<1>5. ASSUME WriteFails \/ WriterLeaves PROVE UNCHANGED <<begun, delivered>>
  BY <1>5 DEF WriteFails, WriterLeaves
<1>6. ASSUME NEW n \in 1..Len(wire), ReadSome(n) PROVE UNCHANGED <<begun, delivered>>
  BY <1>6 DEF ReadSome, writerVars
<1>7. ASSUME TakePrefix PROVE UNCHANGED <<begun, delivered>>
  BY <1>7 DEF TakePrefix, Fail, writerVars
<1>8. ASSUME ReachEnd \/ TimeOut PROVE UNCHANGED <<begun, delivered>>
  BY <1>8 DEF ReachEnd, TimeOut, Fail, writerVars
<1>9. ASSUME UNCHANGED framingVars PROVE UNCHANGED <<begun, delivered>>
  BY <1>9 DEF framingVars, writerVars
<1>10. CASE TakePayload
  BY <1>10, TakePayloadReceives
<1> QED
  BY <1>1, <1>2, <1>3, <1>4, <1>5, <1>6, <1>7, <1>8, <1>9, <1>10 DEF FramingNext, ReaderStep

(* Between two programs that use write_frame and read_frame, frames arrive *)
(* whole, once each and in the order they were written, wherever reads and *)
(* writes break and however the stream ends; nothing is received after a   *)
(* loss.                                                                   *)
THEOREM FramingImplementsChannel == FramingSpec => ImplementsChannel
BY FramingStartsChannel, FramingStepsChannel, FramingInvariance, PTL
   DEF FramingSpec, ImplementsChannel, Channel!ChannelSpec

-----------------------------------------------------------------------------
(* Fields: what the writers write.                                         *)

Formats == {"database", "structure", "node"}

Heading(f, items) == SubSeq(items, 1, HeadFields(f))

Entries(f, items) == SubSeq(items, HeadFields(f) + 1, Len(items))

(* A list of as many fields as the format has, with c entries if it counts *)
(* them.                                                                   *)
Shaped(f, items, c) == IF HasCount(f)
                       THEN Len(items) = HeadFields(f) + c * PerEntry(f)
                       ELSE Len(items) = HeadFields(f)

LEMMA FormatSizes ==
  ASSUME NEW f \in Formats
  PROVE  /\ HeadFields(f) \in Nat
         /\ PerEntry(f) \in {1, 2} /\ PerEntry(f) \in Nat \ {0}
         /\ f = "database" => HeadFields(f) = 0 /\ PerEntry(f) = 2 /\ HasCount(f)
         /\ f = "structure" => HeadFields(f) = 2 /\ PerEntry(f) = 1 /\ HasCount(f)
         /\ f = "node" => HeadFields(f) = 4 /\ PerEntry(f) = 1 /\ ~HasCount(f)
BY DEF Formats, HeadFields, PerEntry, HasCount

LEMMA DecodableFit == Decodable \subseteq Fitting /\ Decodable \subseteq Seq(Digits)
BY FieldsAssumption DEF Fitting

LEMMA ListsFit ==
  ASSUME NEW l \in Seq(Decodable)
  PROVE  l \in Seq(Fitting) /\ l \in Seq(Seq(Digits)) /\ Len(l) \in Nat
BY DecodableFit, SeqMonotonic

LEMMA SizesBelow ==
  ASSUME NEW n \in Sizes, NEW m \in Nat, m <= n
  PROVE  m \in Sizes
<1>1. Weight[Width] \in Nat
  BY Weights, LengthsAssumption
<1> QED
  BY <1>1, SizesRange

LEMMA ProductBounds ==
  ASSUME NEW c \in Nat, NEW p \in Nat \ {0}
  PROVE  /\ c * p \in Nat /\ c <= c * p
         /\ (c * p) \div p = c
<1>1. c * p \in Nat
  BY SMT
<1>2. c <= c * p
  BY SMT
<1>3. c * p = p * c + 0 /\ 0 \in 0..(p - 1)
  BY SMT
<1> QED
  BY <1>1, <1>2, <1>3, DivModUnique

LEMMA WrittenCounted ==
  ASSUME NEW f \in Formats, NEW l \in Seq(Decodable), NEW c \in Nat,
         Shaped(f, l, c), HasCount(f)
  PROVE  /\ Heading(f, l) \in Seq(Decodable) /\ Len(Heading(f, l)) = HeadFields(f)
         /\ Entries(f, l) \in Seq(Decodable) /\ Len(Entries(f, l)) = c * PerEntry(f)
         /\ c * PerEntry(f) \in Nat
         /\ AllFramed(Heading(f, l)) \in Seq(Digits)
         /\ AllFramed(Entries(f, l)) \in Seq(Digits)
         /\ ToLe(c) \in Seq(Digits) /\ Len(ToLe(c)) = Width
         /\ Written(f, l) = AllFramed(Heading(f, l)) \o (ToLe(c) \o AllFramed(Entries(f, l)))
<1> DEFINE H == HeadFields(f)
           P == PerEntry(f)
           hd == Heading(f, l)
           en == Entries(f, l)
<1>1. H \in Nat /\ P \in Nat \ {0}
  BY FormatSizes
<1>2. c * P \in Nat /\ (c * P) \div P = c
  BY <1>1, ProductBounds
<1>3. Len(l) = H + c * P
  BY DEF Shaped
<1> HIDE DEF H, P
<1>4. Len(l) \in Nat /\ H \in 0..Len(l) /\ Len(l) - H = c * P
  BY <1>1, <1>2, <1>3
<1>5. /\ SubSeq(l, 1, H) \in Seq(Decodable) /\ Len(SubSeq(l, 1, H)) = H
      /\ SubSeq(l, H + 1, Len(l)) \in Seq(Decodable) /\ Len(SubSeq(l, H + 1, Len(l))) = c * P
  BY <1>4, TakeSome
<1>6. /\ hd \in Seq(Decodable) /\ Len(hd) = H
      /\ en \in Seq(Decodable) /\ Len(en) = c * P
  BY <1>5 DEF Heading, Entries, H
<1>7. Written(f, l) = AllFramed(hd) \o (ToLe(Len(en) \div P) \o AllFramed(en))
  BY DEF Written, Heading, Entries, P
<1> HIDE DEF hd, en
<1>8. Written(f, l) = AllFramed(hd) \o (ToLe(c) \o AllFramed(en))
  BY <1>2, <1>6, <1>7
<1>9. AllFramed(hd) \in Seq(Digits) /\ AllFramed(en) \in Seq(Digits)
  BY <1>6, ListsFit, FramesLength
<1>10. ToLe(c) \in Seq(Digits) /\ Len(ToLe(c)) = Width
  BY ToLeDigits
<1> QED
  BY <1>2, <1>6, <1>8, <1>9, <1>10 DEF hd, en, H, P

LEMMA WrittenUncounted ==
  ASSUME NEW f \in Formats, NEW l \in Seq(Decodable), ~HasCount(f), Len(l) = HeadFields(f)
  PROVE  Written(f, l) = AllFramed(l) /\ AllFramed(l) \in Seq(Digits)
<1>1. SubSeq(l, 1, HeadFields(f)) = l
  BY SubSeqFull
<1>2. AllFramed(l) \in Seq(Digits)
  BY ListsFit, FramesLength
<1>3. Written(f, l) = AllFramed(l) \o <<>>
  BY <1>1 DEF Written
<1> QED
  BY <1>2, <1>3, ConcatEmptySeq

(* What the writers are given has the shape of its format.                 *)
LEMMA ShapeOfLists ==
  ASSUME NEW f \in Formats, NEW l \in Lists, WellShaped(f, l)
  PROVE  \E c \in Sizes : Shaped(f, l, c)
<1>1. l \in Seq(Decodable) /\ Len(l) \in Sizes /\ Len(l) \in Nat
  BY FieldsAssumption, SizesRange
<1>2. CASE f = "database"
  <2>1. Len(l) % 2 = 0
    BY <1>2 DEF WellShaped
  <2>2. PICK c \in Nat : Len(l) = c * 2 /\ c <= Len(l)
    <3> Len(l) = (Len(l) \div 2) * 2 /\ Len(l) \div 2 \in Nat /\ Len(l) \div 2 <= Len(l)
      BY <1>1, <2>1
    <3> QED
      OBVIOUS
  <2>3. c \in Sizes
    BY <1>1, <2>2, SizesBelow
  <2>4. Shaped(f, l, c)
    BY <1>1, <1>2, <2>2, FormatSizes DEF Shaped
  <2> QED
    BY <2>3, <2>4
<1>3. CASE f = "structure"
  <2>1. Len(l) >= 2
    BY <1>3 DEF WellShaped
  <2> DEFINE c == Len(l) - 2
  <2>2. c \in Nat /\ c <= Len(l) /\ Len(l) = 2 + c * 1
    BY <1>1, <2>1
  <2>3. c \in Sizes
    BY <1>1, <2>2, SizesBelow
  <2>4. Shaped(f, l, c)
    BY <1>3, <2>2, FormatSizes DEF Shaped
  <2> QED
    BY <2>3, <2>4
<1>4. CASE f = "node"
  <2>1. Len(l) = 4
    BY <1>4 DEF WellShaped
  <2>2. Shaped(f, l, Len(l))
    BY <1>4, <2>1, FormatSizes DEF Shaped
  <2> QED
    BY <1>1, <2>2
<1> QED
  BY <1>2, <1>3, <1>4 DEF Formats

(* A file says where it ends: none continues another.                      *)
LEMMA NoneContinues ==
  ASSUME NEW f \in Formats, NEW a \in Seq(Decodable), NEW b \in Seq(Decodable),
         NEW c \in Sizes, NEW d \in Sizes, Shaped(f, a, c), Shaped(f, b, d),
         NEW u \in Seq(Digits), Written(f, a) \o u = Written(f, b)
  PROVE  u = <<>>
<1>0. <<>> \in Seq(Digits) /\ c \in Nat /\ d \in Nat
  BY EmptySeq, SizesRange
<1>1. CASE HasCount(f)
  <2> DEFINE ha == Heading(f, a)
             hb == Heading(f, b)
             ea == Entries(f, a)
             eb == Entries(f, b)
             lc == ToLe(c)
             ld == ToLe(d)
  <2>1. /\ ha \in Seq(Decodable) /\ Len(ha) = HeadFields(f)
        /\ ea \in Seq(Decodable) /\ Len(ea) = c * PerEntry(f)
        /\ AllFramed(ha) \in Seq(Digits) /\ AllFramed(ea) \in Seq(Digits)
        /\ lc \in Seq(Digits) /\ Len(lc) = Width
        /\ Written(f, a) = AllFramed(ha) \o (lc \o AllFramed(ea))
    BY <1>0, <1>1, WrittenCounted
  <2>2. /\ hb \in Seq(Decodable) /\ Len(hb) = HeadFields(f)
        /\ eb \in Seq(Decodable) /\ Len(eb) = d * PerEntry(f)
        /\ AllFramed(hb) \in Seq(Digits) /\ AllFramed(eb) \in Seq(Digits)
        /\ ld \in Seq(Digits) /\ Len(ld) = Width
        /\ Written(f, b) = AllFramed(hb) \o (ld \o AllFramed(eb))
    BY <1>0, <1>1, WrittenCounted
  <2> HIDE DEF ha, hb, ea, eb
  <2> DEFINE A == AllFramed(ha)
             E == AllFramed(ea)
             F == AllFramed(eb)
  <2>3. A \in Seq(Digits) /\ E \in Seq(Digits) /\ F \in Seq(Digits)
    BY <2>1, <2>2
  <2>4. lc \in Seq(Digits) /\ ld \in Seq(Digits) /\ Len(lc) = Len(ld)
    BY <2>1, <2>2
  <2> HIDE DEF lc, ld
  <2>5. ha \in Seq(Fitting) /\ hb \in Seq(Fitting) /\ ea \in Seq(Fitting) /\ eb \in Seq(Fitting)
    BY <2>1, <2>2, ListsFit
  <2>6. A \o (lc \o (E \o u)) = AllFramed(hb) \o (ld \o F)
    <3>1. (A \o (lc \o E)) \o u = AllFramed(hb) \o (ld \o F)
      BY <2>1, <2>2
    <3> HIDE DEF A, E, F
    <3>2. lc \o E \in Seq(Digits)
      BY <2>3, <2>4, ConcatProperties
    <3>3. (A \o (lc \o E)) \o u = A \o ((lc \o E) \o u)
      <4>1. Regroups(A, lc \o E, u)
        BY <2>3, <3>2, Assoc
      <4> QED
        BY <4>1 DEF Regroups
    <3>4. (lc \o E) \o u = lc \o (E \o u)
      <4>1. Regroups(lc, E, u)
        BY <2>3, <2>4, Assoc
      <4> QED
        BY <4>1 DEF Regroups
    <3> QED
      BY <3>1, <3>3, <3>4
  <2>7. E \o u \in Seq(Digits)
    BY <2>3, ConcatProperties
  <2>8. lc \o (E \o u) \in Seq(Digits) /\ ld \o F \in Seq(Digits)
    BY <2>3, <2>4, <2>7, ConcatProperties
  <2>9. lc \o (E \o u) = ld \o F
    <3>0. Len(ha) = Len(hb)
      BY <2>1, <2>2
    <3>1. \A v, w \in Seq(Digits) : AllFramed(ha) \o v = AllFramed(hb) \o w => ha = hb /\ v = w
      BY <2>5, <3>0, FramesCancel
    <3> HIDE DEF E, F
    <3> QED
      BY <2>6, <2>8, <3>1 DEF A
  <2> HIDE DEF A, E, F
  <2>10. lc = ld /\ E \o u = F
    BY <2>3, <2>4, <2>7, <2>9, ConcatCancel
  <2>11. c = d
    BY <2>10, LengthsDiffer DEF lc, ld
  <2>12. \A v, w \in Seq(Digits) : AllFramed(ea) \o v = AllFramed(eb) \o w => ea = eb /\ v = w
    <3>1. Len(ea) = Len(eb)
      BY <2>1, <2>2, <2>11
    <3> QED
      BY <2>5, <3>1, FramesCancel
  <2>13. F \o <<>> = F
    BY <2>3, ConcatEmptySeq
  <2>14. AllFramed(ea) \o u = AllFramed(eb) \o <<>>
    BY <2>10, <2>13 DEF E, F
  <2> QED
    BY <1>0, <2>12, <2>14
<1>2. CASE ~HasCount(f)
  <2>1. Len(a) = HeadFields(f) /\ Len(b) = HeadFields(f)
    BY <1>2 DEF Shaped
  <2>2. /\ Written(f, a) = AllFramed(a) /\ AllFramed(a) \in Seq(Digits)
        /\ Written(f, b) = AllFramed(b) /\ AllFramed(b) \in Seq(Digits)
    BY <1>2, <2>1, WrittenUncounted
  <2>3. AllFramed(b) \o <<>> = AllFramed(b)
    BY <2>2, ConcatEmptySeq
  <2>4. a \in Seq(Fitting) /\ b \in Seq(Fitting)
    BY ListsFit
  <2>5. \A v, w \in Seq(Digits) : AllFramed(a) \o v = AllFramed(b) \o w => a = b /\ v = w
    <3>1. Len(a) = Len(b)
      BY <2>1
    <3> QED
      BY <2>4, <3>1, FramesCancel
  <2>6. AllFramed(a) \o u = AllFramed(b) \o <<>>
    BY <2>2, <2>3
  <2> QED
    BY <1>0, <2>5, <2>6
<1> QED
  BY <1>1, <1>2

-----------------------------------------------------------------------------
(* Fields: what is found in the bytes.                                     *)

LEMMA PartUpTo ==
  ASSUME NEW S, NEW s \in Seq(S), NEW i \in Nat, NEW n \in Nat, i + n <= Len(s)
  PROVE  /\ i \in 0..Len(s) /\ i + n \in 0..Len(s)
         /\ SubSeq(s, 1, i) \in Seq(S) /\ Len(SubSeq(s, 1, i)) = i
         /\ SubSeq(s, i + 1, i + n) \in Seq(S) /\ Len(SubSeq(s, i + 1, i + n)) = n
         /\ \A j \in 1..n : SubSeq(s, i + 1, i + n)[j] = s[i + j]
         /\ SubSeq(s, 1, i + n) = SubSeq(s, 1, i) \o SubSeq(s, i + 1, i + n)
<1>1. Len(s) \in Nat /\ i \in 0..Len(s) /\ i + n \in 0..Len(s)
  OBVIOUS
<1>2. SubSeq(s, 1, i) \in Seq(S) /\ Len(SubSeq(s, 1, i)) = i
  BY <1>1, TakeSome
<1> DEFINE a == i + 1
           b == i + n
           v == SubSeq(s, a, b)
<1>3. v \in Seq(S) /\ Len(v) = n /\ \A j \in 1..n : v[j] = s[i + j]
  <2>1. a \in Int /\ b \in Int /\ \A j \in a..b : j \in 1..Len(s)
    BY <1>1
  <2> HIDE DEF a, b, v
  <2>2. \A j \in a..b : s[j] \in S
    BY <2>1, ElementOfSeq
  <2>3. /\ v \in Seq(S)
        /\ Len(v) = IF a <= b THEN b - a + 1 ELSE 0
        /\ \A j \in 1..(b - a + 1) : v[j] = s[a + j - 1]
    BY <2>1, <2>2, SubSeqProperties DEF v
  <2>4. b - a + 1 = n /\ (n > 0 => a <= b) /\ (a <= b => n > 0)
    BY <1>1 DEF a, b
  <2>5. ASSUME NEW j \in 1..n PROVE v[j] = s[i + j]
    <3>1. j \in 1..(b - a + 1) /\ a + j - 1 = i + j
      BY <2>4 DEF a
    <3>2. v[j] = s[a + j - 1]
      BY <2>3, <3>1
    <3> QED
      BY <3>1, <3>2
  <2> QED
    BY <2>3, <2>4, <2>5
<1>4. SubSeq(s, 1, i) \o SubSeq(s, i + 1, i + n) = SubSeq(s, 1, i + n)
  <2>1. 1 \in 1..(Len(s) + 1) /\ i \in (1 - 1)..Len(s) /\ i + n \in i..Len(s)
    BY <1>1
  <2> QED
    BY <2>1, ConcatAdjacentSubSeq
<1> QED
  BY <1>1, <1>2, <1>3, <1>4

LEMMA PartAt ==
  ASSUME NEW s \in Seq(Digits), NEW p \in Seq(Digits), NEW q \in Seq(Digits), NEW r \in Seq(Digits),
         s = p \o (q \o r)
  PROVE  /\ Len(p) + Len(q) <= Len(s)
         /\ SubSeq(s, Len(p) + 1, Len(p) + Len(q)) = q
<1> DEFINE m == Len(p)
           n == Len(q)
           v == SubSeq(s, m + 1, m + n)
<1>1. m \in Nat /\ n \in Nat /\ Len(r) \in Nat
  OBVIOUS
<1>2. /\ q \o r \in Seq(Digits) /\ Len(q \o r) = n + Len(r)
      /\ \A i \in 1..n : (q \o r)[i] = q[i]
  <2>1. /\ q \o r \in Seq(Digits) /\ Len(q \o r) = Len(q) + Len(r)
        /\ \A i \in 1..(Len(q) + Len(r)) : (q \o r)[i] = IF i <= Len(q) THEN q[i] ELSE r[i - Len(q)]
    BY ConcatProperties
  <2>2. \A i \in 1..n : i \in 1..(Len(q) + Len(r)) /\ i <= Len(q)
    BY <1>1
  <2> QED
    BY <2>1, <2>2
<1> DEFINE w == q \o r
<1> HIDE DEF w
<1>3. Len(s) = m + Len(w) /\ \A i \in 1..Len(w) : s[m + i] = w[i]
  <2>1. w \in Seq(Digits) /\ s = p \o w
    BY <1>2 DEF w
  <2>2. /\ Len(p \o w) = Len(p) + Len(w)
        /\ \A i \in 1..(Len(p) + Len(w)) : (p \o w)[i] = IF i <= Len(p) THEN p[i] ELSE w[i - Len(p)]
    BY <2>1, ConcatProperties
  <2>3. Len(w) \in Nat
    BY <2>1
  <2>4. ASSUME NEW i \in 1..Len(w) PROVE s[m + i] = w[i]
    <3>1. m + i \in 1..(Len(p) + Len(w)) /\ ~(m + i <= Len(p)) /\ (m + i) - Len(p) = i
      BY <1>1, <2>3
    <3> HIDE DEF m
    <3> QED
      BY <2>1, <2>2, <3>1
  <2> QED
    BY <2>1, <2>2, <2>4
<1>4. Len(s) = m + n + Len(r) /\ \A i \in 1..n : s[m + i] = q[i]
  <2>1. Len(w) = n + Len(r) /\ \A i \in 1..n : w[i] = q[i]
    BY <1>2 DEF w
  <2>2. \A i \in 1..n : i \in 1..Len(w)
    BY <1>1, <2>1
  <2> HIDE DEF m, n
  <2> QED
    BY <1>1, <1>3, <2>1, <2>2
<1>5. m \in Nat /\ n \in Nat /\ m + n <= Len(s)
  <2> HIDE DEF m, n
  <2> QED
    BY <1>1, <1>4
<1> HIDE DEF m, n
<1>6. v \in Seq(Digits) /\ Len(v) = n /\ \A i \in 1..n : v[i] = s[m + i]
  BY <1>5, PartUpTo
<1> HIDE DEF v
<1>7. \A i \in 1..n : v[i] = q[i]
  BY <1>4, <1>6
<1>8. v = q
  <2>1. Len(v) = Len(q) /\ \A i \in 1..Len(v) : v[i] = q[i]
    BY <1>6, <1>7 DEF n
  <2> QED
    BY <1>6, <2>1, SeqEqual
<1> QED
  BY <1>5, <1>8 DEF v, m, n

FieldsTyped == /\ format \in Formats
               /\ bytes \in Sources
               /\ offset \in 0..Len(bytes)
               /\ fields \in Seq(Decodable)
               /\ left \in Nat
               /\ counted \in BOOLEAN
               /\ HasCount(format) \/ counted
               /\ verdict \in {"reading", "Ok", "InvalidData"}

(* The bytes that are read.                                                *)
Consumed == SubSeq(bytes, 1, offset)

LEMMA FileTypes ==
  ASSUME FieldsTyped
  PROVE  /\ bytes \in Seq(Digits) /\ Len(bytes) \in Sizes /\ Len(bytes) \in Nat
         /\ offset \in Nat /\ offset <= Len(bytes)
         /\ Consumed \in Seq(Digits) /\ Len(Consumed) = offset
         /\ SubSeq(bytes, offset + 1, Len(bytes)) \in Seq(Digits)
         /\ bytes = Consumed \o SubSeq(bytes, offset + 1, Len(bytes))
<1>1. bytes \in Seq(Digits) /\ Len(bytes) \in Sizes
  BY FieldsAssumption DEF FieldsTyped
<1>2. offset \in 0..Len(bytes)
  BY DEF FieldsTyped
<1>3. Len(bytes) \in Nat /\ offset \in Nat /\ offset <= Len(bytes)
  BY <1>1, <1>2
<1>4. /\ SubSeq(bytes, 1, offset) \in Seq(Digits)
      /\ Len(SubSeq(bytes, 1, offset)) = offset
      /\ SubSeq(bytes, offset + 1, Len(bytes)) \in Seq(Digits)
      /\ bytes = SubSeq(bytes, 1, offset) \o SubSeq(bytes, offset + 1, Len(bytes))
  BY <1>1, <1>2, TakeSome, ZenonT(30)
<1> QED
  BY <1>1, <1>3, <1>4 DEF Consumed

LEMMA LengthRead ==
  ASSUME FieldsTyped, HasLength
  PROVE  /\ NextLength \in Sizes
         /\ offset + Width \in 0..Len(bytes)
         /\ SubSeq(bytes, 1, offset + Width) = Consumed \o ToLe(NextLength)
<1>1. bytes \in Seq(Digits) /\ offset \in Nat /\ Width \in Nat
  BY FileTypes, LengthsAssumption
<1>2. offset + Width <= Len(bytes)
  BY DEF HasLength, Within
<1>3. /\ offset + Width \in 0..Len(bytes)
      /\ Slice(offset, Width) \in Seq(Digits) /\ Len(Slice(offset, Width)) = Width
      /\ SubSeq(bytes, 1, offset + Width) = Consumed \o Slice(offset, Width)
  BY <1>1, <1>2, PartUpTo DEF Slice, Consumed
<1>4. NextLength \in Sizes /\ ToLe(NextLength) = Slice(offset, Width)
  BY <1>3, LengthWritesBack DEF NextLength
<1> QED
  BY <1>3, <1>4

LEMMA FieldRead ==
  ASSUME FieldsTyped, HasField
  PROVE  /\ NextField \in Seq(Digits)
         /\ offset + Width + NextLength \in 0..Len(bytes)
         /\ SubSeq(bytes, 1, offset + Width + NextLength) = Consumed \o Framed(NextField)
<1>1. /\ NextLength \in Sizes
      /\ offset + Width \in 0..Len(bytes)
      /\ SubSeq(bytes, 1, offset + Width) = Consumed \o ToLe(NextLength)
  BY LengthRead DEF HasField
<1>2. /\ bytes \in Seq(Digits) /\ offset \in Nat /\ Width \in Nat /\ Consumed \in Seq(Digits)
      /\ NextLength \in Nat
  BY <1>1, FileTypes, LengthsAssumption, SizesRange
<1> DEFINE i == offset + Width
           n == NextLength
<1>3. i \in Nat /\ n \in Nat /\ i + n <= Len(bytes)
  BY <1>2 DEF HasField, Within
<1>4. NextField = SubSeq(bytes, i + 1, i + n)
  BY DEF NextField, Slice
<1> HIDE DEF i, n
<1>5. /\ i + n \in 0..Len(bytes)
      /\ NextField \in Seq(Digits) /\ Len(NextField) = n
      /\ SubSeq(bytes, 1, i + n) = SubSeq(bytes, 1, i) \o NextField
  BY <1>2, <1>3, <1>4, PartUpTo
<1>6. ToLe(n) \in Seq(Digits)
  BY <1>3, ToLeDigits
<1>7. SubSeq(bytes, 1, i) = Consumed \o ToLe(n)
  BY <1>1 DEF i, n
<1>8. SubSeq(bytes, 1, i + n) = (Consumed \o ToLe(n)) \o NextField
  BY <1>5, <1>7
<1>9. Consumed \in Seq(Digits) /\ NextField \in Seq(Digits)
  BY <1>2, <1>5
<1>10. (Consumed \o ToLe(n)) \o NextField = Consumed \o (ToLe(n) \o NextField)
  <2>1. Regroups(Consumed, ToLe(n), NextField)
    BY <1>6, <1>9, Assoc
  <2> QED
    BY <2>1 DEF Regroups
<1>11. Framed(NextField) = ToLe(n) \o NextField
  BY <1>5 DEF Framed
<1>12. SubSeq(bytes, 1, i + n) = Consumed \o Framed(NextField)
  BY <1>8, <1>10, <1>11
<1> QED
  BY <1>5, <1>12 DEF i, n

(* Where a length was written a length is read.                            *)
LEMMA LengthThere ==
  ASSUME FieldsTyped, NEW c \in Sizes, NEW u \in Seq(Digits), bytes = Consumed \o (ToLe(c) \o u)
  PROVE  HasLength /\ NextLength = c
<1> DEFINE t == ToLe(c)
<1>1. /\ bytes \in Seq(Digits) /\ Len(bytes) \in Sizes /\ Consumed \in Seq(Digits)
      /\ Len(Consumed) = offset /\ offset \in Nat /\ Width \in Nat
  BY FileTypes, LengthsAssumption
<1>2. t \in Seq(Digits) /\ Len(t) = Width
  BY SizesRange, ToLeDigits
<1>3. FromLe(t) = c
  BY LengthReadsBack
<1> HIDE DEF t
<1>4. bytes = Consumed \o (t \o u)
  BY DEF t
<1>5. offset + Width <= Len(bytes) /\ SubSeq(bytes, offset + 1, offset + Width) = t
  <2>1. /\ Len(Consumed) + Len(t) <= Len(bytes)
        /\ SubSeq(bytes, Len(Consumed) + 1, Len(Consumed) + Len(t)) = t
    BY <1>1, <1>2, <1>4, PartAt
  <2> QED
    BY <1>1, <1>2, <2>1
<1>6. offset + Width \in Sizes
  BY <1>1, <1>5, SizesBelow
<1> QED
  BY <1>3, <1>5, <1>6 DEF HasLength, Within, CheckedEnd, NextLength, Slice

(* Where a field was written that field is read.                           *)
LEMMA FieldThere ==
  ASSUME FieldsTyped, NEW x \in Fitting, NEW u \in Seq(Digits), bytes = Consumed \o (Framed(x) \o u)
  PROVE  HasField /\ NextField = x
<1> DEFINE t == ToLe(Len(x))
           p == Consumed \o t
           m == offset + Width
<1>1. /\ bytes \in Seq(Digits) /\ Len(bytes) \in Sizes /\ Consumed \in Seq(Digits)
      /\ Len(Consumed) = offset /\ offset \in Nat /\ Width \in Nat
  BY FileTypes, LengthsAssumption
<1>2. x \in Seq(Digits) /\ Len(x) \in Sizes /\ Len(x) \in Nat
  BY DEF Fitting
<1>3. t \in Seq(Digits) /\ Len(t) = Width
  BY <1>2, ToLeDigits
<1>4. Framed(x) = t \o x
  BY DEF Framed
<1> HIDE DEF t
<1>5. (t \o x) \o u = t \o (x \o u)
  <2>1. Regroups(t, x, u)
    BY <1>2, <1>3, Assoc
  <2> QED
    BY <2>1 DEF Regroups
<1>6. x \o u \in Seq(Digits)
  BY <1>2, ConcatProperties
<1>7. bytes = Consumed \o (t \o (x \o u))
  BY <1>4, <1>5
<1>8. HasLength /\ NextLength = Len(x)
  BY <1>2, <1>6, <1>7, LengthThere DEF t
<1>9. p \in Seq(Digits) /\ Len(p) = m
  BY <1>1, <1>3, ConcatProperties
<1>10. bytes = p \o (x \o u)
  <2>1. Consumed \in Seq(Digits)
    BY <1>1
  <2>2. (Consumed \o t) \o (x \o u) = Consumed \o (t \o (x \o u))
    <3>1. Regroups(Consumed, t, x \o u)
      BY <1>3, <1>6, <2>1, Assoc
    <3> QED
      BY <3>1 DEF Regroups
  <2> QED
    BY <1>7, <2>2
<1>11. m \in Nat
  BY <1>1
<1> HIDE DEF p, m
<1>12. m + Len(x) <= Len(bytes) /\ SubSeq(bytes, m + 1, m + Len(x)) = x
  <2>1. /\ Len(p) + Len(x) <= Len(bytes)
        /\ SubSeq(bytes, Len(p) + 1, Len(p) + Len(x)) = x
    BY <1>1, <1>2, <1>9, <1>10, PartAt, SMTT(30)
  <2> QED
    BY <1>9, <2>1
<1>13. m + Len(x) \in Sizes
  BY <1>1, <1>2, <1>11, <1>12, SizesBelow
<1> QED
  BY <1>8, <1>12, <1>13 DEF HasField, Within, CheckedEnd, NextField, Slice, m

LEMMA TakeOfTake ==
  ASSUME NEW S, NEW s \in Seq(S), NEW j \in 0..Len(s), NEW k \in 0..j
  PROVE  /\ SubSeq(SubSeq(s, 1, j), 1, k) = SubSeq(s, 1, k)
         /\ \A i \in 1..j : SubSeq(s, 1, j)[i] = s[i]
<1> DEFINE t == SubSeq(s, 1, j)
           u == SubSeq(t, 1, k)
           v == SubSeq(s, 1, k)
<1>1. Len(s) \in Nat /\ j \in Nat /\ k \in Nat /\ k <= j /\ j <= Len(s)
  OBVIOUS
<1>2. t \in Seq(S) /\ Len(t) = j /\ \A i \in 1..j : t[i] = s[i]
  <2>1. /\ SubSeq(s, 0 + 1, 0 + j) \in Seq(S) /\ Len(SubSeq(s, 0 + 1, 0 + j)) = j
        /\ \A i \in 1..j : SubSeq(s, 0 + 1, 0 + j)[i] = s[0 + i]
    BY <1>1, PartUpTo
  <2>2. 0 + 1 = 1 /\ 0 + j = j /\ \A i \in 1..j : 0 + i = i
    BY <1>1
  <2> QED
    BY <2>1, <2>2
<1>3. v \in Seq(S) /\ Len(v) = k /\ \A i \in 1..k : v[i] = s[i]
  <2>1. /\ SubSeq(s, 0 + 1, 0 + k) \in Seq(S) /\ Len(SubSeq(s, 0 + 1, 0 + k)) = k
        /\ \A i \in 1..k : SubSeq(s, 0 + 1, 0 + k)[i] = s[0 + i]
    BY <1>1, PartUpTo
  <2>2. 0 + 1 = 1 /\ 0 + k = k /\ \A i \in 1..k : 0 + i = i
    BY <1>1
  <2> QED
    BY <2>1, <2>2
<1> HIDE DEF t
<1>4. u \in Seq(S) /\ Len(u) = k /\ \A i \in 1..k : u[i] = t[i]
  <2>1. /\ SubSeq(t, 0 + 1, 0 + k) \in Seq(S) /\ Len(SubSeq(t, 0 + 1, 0 + k)) = k
        /\ \A i \in 1..k : SubSeq(t, 0 + 1, 0 + k)[i] = t[0 + i]
    BY <1>1, <1>2, PartUpTo
  <2>2. 0 + 1 = 1 /\ 0 + k = k /\ \A i \in 1..k : 0 + i = i
    BY <1>1
  <2> QED
    BY <2>1, <2>2
<1> HIDE DEF u, v
<1>5. \A i \in 1..k : u[i] = v[i]
  <2>1. \A i \in 1..k : i \in 1..j
    BY <1>1
  <2> QED
    BY <1>2, <1>3, <1>4, <2>1
<1>6. u = v
  BY <1>3, <1>4, <1>5, SeqEqual
<1> QED
  BY <1>2, <1>6 DEF u, v, t

LEMMA TakeOfRest ==
  ASSUME NEW S, NEW s \in Seq(S), NEW h \in 0..Len(s), NEW n \in 0..(Len(s) - h)
  PROVE  /\ SubSeq(SubSeq(s, 1, h + n), h + 1, h + n) = SubSeq(SubSeq(s, h + 1, Len(s)), 1, n)
         /\ \A i \in 1..(Len(s) - h) : SubSeq(s, h + 1, Len(s))[i] = s[h + i]
<1> DEFINE t == SubSeq(s, 1, h + n)
           r == SubSeq(s, h + 1, Len(s))
           u == SubSeq(t, h + 1, h + n)
           v == SubSeq(r, 1, n)
<1>1. /\ Len(s) \in Nat /\ h \in Nat /\ n \in Nat /\ h + n <= Len(s) /\ h + n \in 0..Len(s)
      /\ n \in 0..(Len(s) - h)
  OBVIOUS
<1>2. t \in Seq(S) /\ Len(t) = h + n /\ \A i \in 1..(h + n) : t[i] = s[i]
  <2>1. h + n \in 0..(h + n)
    BY <1>1
  <2> QED
    BY <1>1, <2>1, TakeSome, TakeOfTake
<1>3. r \in Seq(S) /\ Len(r) = Len(s) - h /\ \A i \in 1..(Len(s) - h) : r[i] = s[h + i]
  BY Rest
<1> HIDE DEF t, r
<1>4. u \in Seq(S) /\ Len(u) = n /\ \A i \in 1..n : u[i] = t[h + i]
  BY <1>1, <1>2, PartUpTo
<1>5. v \in Seq(S) /\ Len(v) = n /\ \A i \in 1..n : v[i] = r[i]
  <2>1. n \in 0..Len(r) /\ n \in 0..n
    BY <1>1, <1>3
  <2> QED
    BY <1>3, <2>1, TakeSome, TakeOfTake
<1> HIDE DEF u, v
<1>6. ASSUME NEW i \in 1..n PROVE u[i] = v[i]
  <2>1. h + i \in 1..(h + n) /\ i \in 1..(Len(s) - h)
    BY <1>1
  <2>2. u[i] = s[h + i]
    BY <1>2, <1>4, <2>1
  <2>3. v[i] = s[h + i]
    BY <1>3, <1>5, <2>1
  <2> QED
    BY <2>2, <2>3
<1>7. u = v
  BY <1>4, <1>5, <1>6, SeqEqual
<1> QED
  BY <1>3, <1>7 DEF u, v, t, r

-----------------------------------------------------------------------------
(* Fields: the inductive invariant.                                        *)

(* The entries are being read: there is a count and it is behind.          *)
InEntries == counted /\ HasCount(format)

(* The bytes that are read are the fields, written, with the count between *)
(* them once it is read.                                                   *)
ReadSoFar ==
  IF InEntries
  THEN \E c \in Sizes :
         /\ Len(fields) >= HeadFields(format)
         /\ Len(fields) + left = HeadFields(format) + c * PerEntry(format)
         /\ Consumed = AllFramed(Heading(format, fields)) \o (ToLe(c) \o AllFramed(Entries(format, fields)))
  ELSE Len(fields) + left = HeadFields(format) /\ Consumed = AllFramed(fields)

Ended == verdict = "Ok" => offset = Len(bytes) /\ left = 0 /\ counted

WrittenOf(l) == WellShaped(format, l) /\ bytes = Written(format, l)

(* Reading what was written of a list reads that list.                     *)
FollowsWriter ==
  \A l \in Lists : WrittenOf(l) =>
    /\ verdict # "InvalidData"
    /\ Len(fields) <= Len(l)
    /\ fields = SubSeq(l, 1, Len(fields))
    /\ InEntries => Len(fields) + left = Len(l)

FileInv == FieldsTyped /\ ReadSoFar /\ Ended /\ FollowsWriter

LEMMA FileInitInv == FileInit => FileInv
<1> SUFFICES ASSUME FileInit PROVE FileInv
  OBVIOUS
<1>1. /\ format \in Formats /\ bytes \in Sources /\ offset = 0 /\ fields = <<>>
      /\ left = HeadFields(format) /\ verdict = "reading"
      /\ counted = ~HasCount(format)
  BY DEF FileInit, Formats
<1>2. HasCount(format) \in BOOLEAN /\ HeadFields(format) \in Nat
  BY <1>1, FormatSizes DEF HasCount
<1>3. Len(<<>>) = 0 /\ <<>> \in Seq(Decodable) /\ Len(bytes) \in Nat
  BY <1>1, EmptySeq, FieldsAssumption
<1>4. ~InEntries
  BY <1>1 DEF InEntries
<1>5. FieldsTyped
  <2>1. offset \in 0..Len(bytes)
    BY <1>1, <1>3
  <2>2. counted \in BOOLEAN /\ (HasCount(format) \/ counted)
    BY <1>1 DEF HasCount
  <2>3. fields \in Seq(Decodable) /\ left \in Nat
    BY <1>1, <1>2, <1>3
  <2> QED
    BY <1>1, <2>1, <2>2, <2>3 DEF FieldsTyped
<1>6. ReadSoFar
  <2>1. Consumed = <<>>
    BY <1>1, SubSeqEmpty DEF Consumed
  <2>2. Len(fields) + left = HeadFields(format)
    BY <1>1, <1>2, <1>3
  <2> QED
    BY <1>1, <1>4, <2>1, <2>2, FramesEmpty DEF ReadSoFar
<1>7. Ended
  BY <1>1 DEF Ended
<1>8. FollowsWriter
  <2> SUFFICES ASSUME NEW l \in Lists, WrittenOf(l)
               PROVE  /\ verdict # "InvalidData"
                      /\ Len(fields) <= Len(l)
                      /\ fields = SubSeq(l, 1, Len(fields))
                      /\ InEntries => Len(fields) + left = Len(l)
    BY DEF FollowsWriter
  <2>1. l \in Seq(Decodable) /\ Len(l) \in Nat
    BY FieldsAssumption
  <2>2. SubSeq(l, 1, 0) = <<>>
    BY SubSeqEmpty
  <2> QED
    BY <1>1, <1>3, <1>4, <2>1, <2>2
<1> QED
  BY <1>5, <1>6, <1>7, <1>8 DEF FileInv

(* When nothing is left the bytes that are read are the fields, written.   *)
LEMMA AtTheEnd ==
  ASSUME FileInv, left = 0, counted
  PROVE  Consumed = Written(format, fields) /\ \E c \in Sizes : Shaped(format, fields, c)
<1>1. format \in Formats /\ fields \in Seq(Decodable) /\ Len(fields) \in Nat
  BY DEF FileInv, FieldsTyped
<1>2. CASE HasCount(format)
  <2>1. PICK c \in Sizes :
          /\ Len(fields) >= HeadFields(format)
          /\ Len(fields) + left = HeadFields(format) + c * PerEntry(format)
          /\ Consumed = AllFramed(Heading(format, fields)) \o (ToLe(c) \o AllFramed(Entries(format, fields)))
    BY <1>2 DEF FileInv, ReadSoFar, InEntries
  <2>2. Len(fields) + left = Len(fields)
    BY <1>1
  <2>3. Shaped(format, fields, c)
    BY <1>2, <2>1, <2>2 DEF Shaped
  <2>4. c \in Nat
    BY SizesRange
  <2>5. Written(format, fields) =
          AllFramed(Heading(format, fields)) \o (ToLe(c) \o AllFramed(Entries(format, fields)))
    BY <1>1, <1>2, <2>3, <2>4, WrittenCounted
  <2> QED
    BY <2>1, <2>3, <2>5
<1>3. CASE ~HasCount(format)
  <2>1. Len(fields) + left = HeadFields(format) /\ Consumed = AllFramed(fields)
    BY <1>3 DEF FileInv, ReadSoFar, InEntries
  <2>2. Len(fields) = HeadFields(format)
    BY <1>1, <2>1
  <2>3. Written(format, fields) = AllFramed(fields)
    BY <1>1, <1>3, <2>2, WrittenUncounted
  <2>4. 0 \in Sizes
    BY Weights, SizesRange, LengthsAssumption
  <2>5. Shaped(format, fields, 0)
    BY <1>3, <2>2 DEF Shaped
  <2> QED
    BY <2>1, <2>3, <2>4, <2>5
<1> QED
  BY <1>2, <1>3

LEMMA RefuseKeeps ==
  ASSUME FileInv, Refuse, \A l \in Lists : ~WrittenOf(l)
  PROVE  FileInv'
<1>1. verdict' = "InvalidData" /\ UNCHANGED <<format, bytes, offset, fields, left, counted>>
  BY DEF Refuse
<1>2. FieldsTyped'
  BY <1>1 DEF FileInv, FieldsTyped
<1>3. ReadSoFar'
  BY <1>1 DEF FileInv, ReadSoFar, InEntries, Consumed
<1>4. Ended'
  BY <1>1 DEF Ended
<1>5. FollowsWriter'
  BY <1>1 DEF FollowsWriter, WrittenOf
<1> QED
  BY <1>2, <1>3, <1>4, <1>5 DEF FileInv

(* What the writer wrote next is read next.                                *)
LEMMA NextOfWriter ==
  ASSUME FileInv, left > 0, NEW l \in Lists, WrittenOf(l), verdict = "reading"
  PROVE  /\ Len(fields) \in 0..(Len(l) - 1)
         /\ HasField
         /\ NextField = l[Len(fields) + 1]
         /\ NextField \in Decodable
         /\ ~NameTaken(NextField)
<1> DEFINE k == Len(fields)
           H == HeadFields(format)
           hd == Heading(format, l)
           en == Entries(format, l)
           x == l[k + 1]
<1>1. /\ FieldsTyped /\ format \in Formats /\ fields \in Seq(Decodable) /\ left \in Nat
      /\ k \in Nat /\ H \in Nat
  BY FormatSizes DEF FileInv, FieldsTyped
<1>2. /\ l \in Seq(Decodable) /\ Len(l) \in Nat
      /\ k <= Len(l) /\ fields = SubSeq(l, 1, k)
      /\ InEntries => k + left = Len(l)
      /\ bytes = Written(format, l) /\ WellShaped(format, l)
  BY FieldsAssumption DEF FileInv, FollowsWriter, WrittenOf
<1>3. PICK d \in Sizes : Shaped(format, l, d)
  BY <1>1, <1>2, ShapeOfLists
<1>4. d \in Nat /\ d * PerEntry(format) \in Nat
  BY <1>1, SizesRange, FormatSizes, ProductBounds
<1>5. H <= Len(l)
  BY <1>1, <1>3, <1>4 DEF Shaped
<1>6. H \in 0..Len(l)
  BY <1>1, <1>2, <1>5
<1>7. /\ hd \in Seq(Decodable) /\ Len(hd) = H /\ hd \in Seq(Seq(Digits))
      /\ en \in Seq(Decodable) /\ Len(en) = Len(l) - H /\ en \in Seq(Seq(Digits))
  <2>1. hd \in Seq(Decodable) /\ Len(hd) = H
    BY <1>2, <1>6, TakeSome DEF Heading
  <2>2. en \in Seq(Decodable) /\ Len(en) = Len(l) - H
    BY <1>2, <1>6, TakeSome DEF Entries
  <2> HIDE DEF hd, en
  <2>3. hd \in Seq(Seq(Digits)) /\ en \in Seq(Seq(Digits))
    BY <2>1, <2>2, ListsFit
  <2> QED
    BY <2>1, <2>2, <2>3
<1>8. k \in 0..(Len(l) - 1) /\ \E u \in Seq(Digits) : bytes = Consumed \o (Framed(x) \o u)
  <2>1. CASE ~InEntries
    <3>1. k + left = H /\ Consumed = AllFramed(fields)
      BY <2>1 DEF FileInv, ReadSoFar
    <3>2. k \in 0..(Len(hd) - 1) /\ k \in 0..(Len(l) - 1) /\ k \in 0..H /\ k + 1 \in 1..H
      BY <1>1, <1>2, <1>5, <1>7, <3>1
    <3>3. PICK t \in Seq(Digits) : bytes = AllFramed(hd) \o t
      <4>1. CASE HasCount(format)
        <5>1. /\ ToLe(d) \in Seq(Digits) /\ AllFramed(en) \in Seq(Digits)
              /\ Written(format, l) = AllFramed(hd) \o (ToLe(d) \o AllFramed(en))
          BY <1>1, <1>2, <1>3, <1>4, <4>1, WrittenCounted
        <5>2. ToLe(d) \o AllFramed(en) \in Seq(Digits)
          BY <5>1, ConcatProperties
        <5> QED
          BY <1>2, <5>1, <5>2
      <4>2. CASE ~HasCount(format)
        <5>1. Len(l) = H
          BY <1>3, <4>2 DEF Shaped
        <5>2. Written(format, l) = AllFramed(l) /\ AllFramed(l) \in Seq(Digits)
          BY <1>1, <1>2, <4>2, <5>1, WrittenUncounted
        <5>3. hd = l
          BY <1>2, <5>1, SubSeqFull DEF Heading
        <5>4. AllFramed(l) = AllFramed(l) \o <<>> /\ <<>> \in Seq(Digits)
          BY <5>2, EmptySeq, ConcatEmptySeq
        <5> QED
          BY <1>2, <5>2, <5>3, <5>4
      <4> QED
        BY <4>1, <4>2
    <3>4. SubSeq(hd, 1, k) = fields /\ hd[k + 1] = x
      BY <1>2, <1>6, <3>2, TakeOfTake DEF Heading
    <3> HIDE DEF hd, k, H, x
    <3>5. PICK u \in Seq(Digits) :
            AllFramed(hd) = AllFramed(SubSeq(hd, 1, k)) \o (Framed(hd[k + 1]) \o u)
      BY <1>7, <3>2, FramesNext
    <3>6. x \in Seq(Digits)
      BY <1>7, <3>2, <3>4, ElementOfSeq DEF H
    <3>7. /\ Framed(x) \in Seq(Digits) /\ Framed(x) \o u \in Seq(Digits) /\ u \o t \in Seq(Digits)
          /\ Consumed \in Seq(Digits)
      BY <1>1, <3>6, FramedBytes, FileTypes, ConcatProperties
    <3>8. bytes = (Consumed \o (Framed(x) \o u)) \o t
      BY <3>1, <3>3, <3>4, <3>5
    <3>9. (Consumed \o (Framed(x) \o u)) \o t = Consumed \o ((Framed(x) \o u) \o t)
      <4>1. Regroups(Consumed, Framed(x) \o u, t)
        BY <3>7, Assoc
      <4> QED
        BY <4>1 DEF Regroups
    <3>10. (Framed(x) \o u) \o t = Framed(x) \o (u \o t)
      <4>1. Regroups(Framed(x), u, t)
        BY <3>7, Assoc
      <4> QED
        BY <4>1 DEF Regroups
    <3> QED
      BY <3>2, <3>7, <3>8, <3>9, <3>10
  <2>2. CASE InEntries
    <3>1. HasCount(format) /\ k + left = Len(l)
      BY <1>2, <2>2 DEF InEntries
    <3>2. PICK c \in Sizes :
            /\ k >= H
            /\ k + left = H + c * PerEntry(format)
            /\ Consumed = AllFramed(Heading(format, fields)) \o (ToLe(c) \o AllFramed(Entries(format, fields)))
      BY <2>2 DEF FileInv, ReadSoFar
    <3>3. Shaped(format, l, c) /\ c \in Nat
      BY <3>1, <3>2, SizesRange DEF Shaped
    <3> DEFINE n == k - H
    <3>4. /\ n \in Nat /\ H + n = k /\ n \in 0..(Len(en) - 1) /\ n \in 0..(Len(l) - H)
          /\ n + 1 \in 1..(Len(l) - H) /\ H + (n + 1) = k + 1
          /\ k \in 0..Len(l) /\ H \in 0..k /\ k \in 0..(Len(l) - 1)
      <4>1. k \in Nat /\ H \in Nat /\ Len(l) \in Nat /\ k >= H /\ k < Len(l)
        <5>1. k + left = Len(l) /\ left \in Nat /\ left > 0
          BY <1>1, <3>1
        <5> QED
          BY <1>1, <1>2, <3>2, <5>1
      <4>2. Len(en) = Len(l) - H
        BY <1>7
      <4> HIDE DEF k, H, en
      <4> QED
        BY <4>1, <4>2
    <3>5. /\ ToLe(c) \in Seq(Digits) /\ AllFramed(hd) \in Seq(Digits) /\ AllFramed(en) \in Seq(Digits)
          /\ Written(format, l) = AllFramed(hd) \o (ToLe(c) \o AllFramed(en))
      BY <1>1, <1>2, <3>1, <3>3, WrittenCounted
    <3>6. Heading(format, fields) = hd
      BY <1>2, <3>4, TakeOfTake DEF Heading
    <3>7. Entries(format, fields) = SubSeq(en, 1, n) /\ en[n + 1] = x
      <4>1. /\ SubSeq(SubSeq(l, 1, H + n), H + 1, H + n) = SubSeq(SubSeq(l, H + 1, Len(l)), 1, n)
            /\ \A i \in 1..(Len(l) - H) : SubSeq(l, H + 1, Len(l))[i] = l[H + i]
        BY <1>2, <1>6, <3>4, TakeOfRest
      <4>2. SubSeq(fields, H + 1, k) = SubSeq(en, 1, n)
        BY <1>2, <3>4, <4>1 DEF Entries
      <4>3. en[n + 1] = l[H + (n + 1)]
        BY <3>4, <4>1 DEF Entries
      <4> QED
        BY <3>4, <4>2, <4>3 DEF Entries
    <3> DEFINE A == AllFramed(hd)
               E == AllFramed(SubSeq(en, 1, n))
               t == ToLe(c)
    <3> HIDE DEF hd, en, k, H, x, n
    <3>8. PICK u \in Seq(Digits) :
            AllFramed(en) = AllFramed(SubSeq(en, 1, n)) \o (Framed(en[n + 1]) \o u)
      BY <1>7, <3>4, FramesNext
    <3>9. SubSeq(en, 1, n) \in Seq(Decodable)
      BY <1>7, <3>4, TakeOneMore
    <3>10. x \in Seq(Digits)
      BY <1>7, <3>4, <3>7, ElementOfSeq
    <3> DEFINE f == Framed(x)
    <3>11. A \in Seq(Digits) /\ E \in Seq(Digits) /\ t \in Seq(Digits) /\ f \in Seq(Digits)
      BY <3>5, <3>9, <3>10, ListsFit, FramesLength, FramedBytes
    <3>12. bytes = A \o (t \o (E \o (f \o u)))
      BY <1>2, <3>5, <3>7, <3>8
    <3>13. Consumed = A \o (t \o E)
      BY <3>2, <3>6, <3>7
    <3> HIDE DEF A, E, t, f
    <3> DEFINE g == f \o u
               te == t \o E
    <3>14. g \in Seq(Digits) /\ te \in Seq(Digits)
      BY <3>11, ConcatProperties
    <3> HIDE DEF g
    <3>15. t \o (E \o g) = te \o g
      <4>1. Regroups(t, E, g)
        BY <3>11, <3>14, Assoc
      <4> QED
        BY <4>1 DEF Regroups
    <3> HIDE DEF te
    <3>16. A \o (te \o g) = (A \o te) \o g
      <4>1. A \in Seq(Digits) /\ te \in Seq(Digits) /\ g \in Seq(Digits)
        BY <3>11, <3>14
      <4>2. Regroups(A, te, g)
        BY <4>1, Assoc
      <4> QED
        BY <4>2 DEF Regroups
    <3>17. bytes = Consumed \o g
      <4>1. bytes = A \o (t \o (E \o g))
        BY <3>12 DEF g
      <4>2. Consumed = A \o te
        BY <3>13 DEF te
      <4> QED
        BY <3>15, <3>16, <4>1, <4>2
    <3> QED
      BY <3>4, <3>17 DEF f, g
  <2> QED
    BY <2>1, <2>2
<1>9. k + 1 \in 1..Len(l) /\ x \in Decodable /\ x \in Fitting
  <2>1. k + 1 \in 1..Len(l)
    BY <1>2, <1>8
  <2>2. x \in Decodable
    BY <1>2, <2>1, ElementOfSeq
  <2> QED
    BY <2>1, <2>2, DecodableFit
<1>10. HasField /\ NextField = x
  <2>1. PICK u \in Seq(Digits) : bytes = Consumed \o (Framed(x) \o u)
    BY <1>8
  <2> HIDE DEF x
  <2> QED
    BY <1>1, <1>9, <2>1, FieldThere
<1>11. ~NameTaken(NextField)
  <2> SUFFICES ASSUME NameTaken(NextField) PROVE FALSE
    OBVIOUS
  <2>1. format = "database" /\ k % 2 = 0
    BY DEF NameTaken
  <2>2. PICK i \in DOMAIN fields : i % 2 = 1 /\ fields[i] = x
    BY <1>10 DEF NameTaken
  <2>3. i \in 1..k /\ fields[i] = l[i]
    <3>1. i \in 1..k
      BY <1>1
    <3>2. k \in 0..Len(l) /\ k \in 0..k
      BY <1>1, <1>2
    <3>3. \A j \in 1..k : SubSeq(l, 1, k)[j] = l[j]
      BY <1>2, <3>2, TakeOfTake
    <3> QED
      BY <1>2, <3>1, <3>3
  <2>4. i \in DOMAIN l /\ k + 1 \in DOMAIN l /\ (k + 1) % 2 = 1 /\ i # k + 1
    BY <1>1, <1>2, <1>9, <2>1, <2>3
  <2>5. \A p, q \in DOMAIN l : p % 2 = 1 /\ q % 2 = 1 /\ l[p] = l[q] => p = q
    BY <1>2, <2>1 DEF WellShaped
  <2> QED
    BY <2>2, <2>3, <2>4, <2>5
<1> QED
  BY <1>8, <1>9, <1>10, <1>11

(* The count the writer wrote is read, and held to be plausible.           *)
LEMMA CountOfWriter ==
  ASSUME FileInv, left = 0, ~counted, NEW l \in Lists, WrittenOf(l), verdict = "reading"
  PROVE  /\ HasLength
         /\ CountPlausible(NextLength)
         /\ Len(fields) + NextLength * PerEntry(format) = Len(l)
<1> DEFINE H == HeadFields(format)
           P == PerEntry(format)
           hd == Heading(format, l)
           en == Entries(format, l)
           E == AllFramed(en)
<1>1. /\ FieldsTyped /\ format \in Formats /\ fields \in Seq(Decodable)
      /\ HasCount(format) /\ ~InEntries
      /\ H \in Nat /\ P \in Nat \ {0} /\ Len(fields) \in Nat
  BY FormatSizes DEF FileInv, FieldsTyped, InEntries
<1>2. /\ l \in Seq(Decodable) /\ Len(l) \in Nat
      /\ Len(fields) <= Len(l) /\ fields = SubSeq(l, 1, Len(fields))
      /\ bytes = Written(format, l) /\ WellShaped(format, l)
  BY FieldsAssumption DEF FileInv, FollowsWriter, WrittenOf
<1>3. PICK c \in Sizes : Shaped(format, l, c)
  BY <1>1, <1>2, ShapeOfLists
<1>4. c \in Nat
  BY SizesRange
<1>5. /\ en \in Seq(Decodable) /\ Len(en) = c * P /\ c * P \in Nat
      /\ AllFramed(hd) \in Seq(Digits) /\ E \in Seq(Digits)
      /\ ToLe(c) \in Seq(Digits) /\ Len(ToLe(c)) = Width
      /\ Written(format, l) = AllFramed(hd) \o (ToLe(c) \o E)
  BY <1>1, <1>2, <1>3, <1>4, WrittenCounted
<1>6. Len(fields) = H /\ Consumed = AllFramed(fields)
  <2>1. Len(fields) + left = H /\ Consumed = AllFramed(fields)
    BY <1>1 DEF FileInv, ReadSoFar
  <2>2. Len(fields) + left = Len(fields)
    BY <1>1
  <2> QED
    BY <2>1, <2>2
<1>7. fields = hd
  BY <1>2, <1>6 DEF Heading
<1>8. bytes = Consumed \o (ToLe(c) \o E)
  BY <1>2, <1>5, <1>6, <1>7
<1>9. HasLength /\ NextLength = c
  BY <1>1, <1>5, <1>8, LengthThere
<1>10. Remaining - Width = Len(E)
  <2>1. Consumed \in Seq(Digits) /\ Len(Consumed) = offset
    BY <1>1, FileTypes
  <2>2. ToLe(c) \o E \in Seq(Digits) /\ Len(ToLe(c) \o E) = Len(ToLe(c)) + Len(E)
    BY <1>5, ConcatProperties
  <2>3. Len(Consumed \o (ToLe(c) \o E)) = Len(Consumed) + Len(ToLe(c) \o E)
    BY <2>1, <2>2, ConcatProperties
  <2>4. Len(bytes) = offset + (Width + Len(E))
    BY <1>5, <1>8, <2>1, <2>2, <2>3
  <2>5. offset \in Nat /\ Width \in Nat /\ Len(E) \in Nat
    BY <1>1, <1>5, FileTypes, LengthsAssumption
  <2> HIDE DEF E
  <2> QED
    BY <2>4, <2>5 DEF Remaining
<1> HIDE DEF H, P, hd, en
<1>11. Width * Len(en) <= Len(E) /\ Len(E) \in Nat
  BY <1>5, ListsFit, FramesLength
<1> HIDE DEF E
<1>12. c <= Len(E) \div (P * Width)
  <2> DEFINE w == P * Width
             e == Len(E)
             q == e \div w
  <2>1. P \in Nat \ {0} /\ Width \in Nat \ {0}
    BY <1>1, LengthsAssumption
  <2>2. w \in Nat \ {0}
    BY <2>1
  <2>3. Width * (c * P) = w * c
    BY <1>4, <2>1
  <2>4. w * c <= e /\ e \in Nat
    BY <1>5, <1>11, <2>3
  <2> HIDE DEF w, e, q
  <2>5. q \in Nat /\ e % w \in 0..(w - 1) /\ e = (w * q) + (e % w)
    BY <2>2, <2>4, DivMod DEF q
  <2>6. SUFFICES ASSUME ~(c <= q) PROVE FALSE
    BY DEF q, e, w
  <2>7. c >= q + 1
    BY <1>4, <2>5, <2>6
  <2>8. w * c >= w * (q + 1)
    BY <1>4, <2>2, <2>5, <2>7
  <2>9. w * (q + 1) = (w * q) + w
    BY <2>2, <2>5
  <2>10. w * q \in Nat /\ w * c \in Nat
    BY <1>4, <2>2, <2>5
  <2> QED
    BY <2>2, <2>4, <2>5, <2>8, <2>9, <2>10
<1>13. CountPlausible(NextLength)
  BY <1>9, <1>10, <1>12 DEF CountPlausible, P
<1>14. Len(l) = H + c * P
  BY <1>1, <1>3 DEF Shaped, H, P
<1> QED
  BY <1>6, <1>9, <1>13, <1>14 DEF P

(* Behind the last field of what was written there is nothing.             *)
LEMMA EndOfWriter ==
  ASSUME FileInv, left = 0, counted, NEW l \in Lists, WrittenOf(l), verdict = "reading"
  PROVE  Remaining = 0
<1>1. FieldsTyped /\ format \in Formats /\ fields \in Seq(Decodable) /\ Len(fields) \in Nat
  BY DEF FileInv, FieldsTyped
<1>2. /\ l \in Seq(Decodable)
      /\ fields = SubSeq(l, 1, Len(fields))
      /\ InEntries => Len(fields) + left = Len(l)
      /\ bytes = Written(format, l) /\ WellShaped(format, l)
  BY FieldsAssumption DEF FileInv, FollowsWriter, WrittenOf
<1>3. Len(fields) + left = Len(fields)
  BY <1>1
<1>4. Len(fields) = Len(l)
  <2>1. CASE InEntries
    BY <1>2, <1>3, <2>1
  <2>2. CASE ~InEntries
    <3>1. Len(fields) = HeadFields(format) /\ ~HasCount(format)
      BY <1>3, <2>2 DEF FileInv, ReadSoFar, InEntries
    <3>2. PICK c \in Sizes : Shaped(format, l, c)
      BY <1>1, <1>2, ShapeOfLists
    <3> QED
      BY <3>1, <3>2 DEF Shaped
  <2> QED
    BY <2>1, <2>2
<1>5. fields = l
  BY <1>2, <1>4, SubSeqFull
<1>6. Consumed = bytes
  BY <1>2, <1>5, AtTheEnd
<1>7. Len(bytes) = offset /\ offset \in Nat
  BY <1>1, <1>6, FileTypes
<1> QED
  BY <1>7 DEF Remaining

(* The bytes read, once one more field is read.                            *)
LEMMA FieldConsumed ==
  ASSUME FileInv, left > 0, HasField, NextField \in Decodable,
         fields' = Append(fields, NextField),
         offset' = offset + Width + NextLength,
         left' = left - 1,
         UNCHANGED <<format, bytes, counted, verdict>>
  PROVE  FieldsTyped' /\ ReadSoFar'
<1> DEFINE k == Len(fields)
           H == HeadFields(format)
           x == NextField
           f == Framed(NextField)
<1>1. /\ FieldsTyped /\ format \in Formats /\ fields \in Seq(Decodable) /\ left \in Nat
      /\ k \in Nat /\ H \in Nat
  BY FormatSizes DEF FileInv, FieldsTyped
<1>2. /\ x \in Decodable /\ x \in Seq(Digits)
      /\ offset' \in 0..Len(bytes)
      /\ Consumed' = Consumed \o f
      /\ f \in Seq(Digits) /\ Consumed \in Seq(Digits)
  <2>1. x \in Seq(Digits) /\ offset' \in 0..Len(bytes)
    BY <1>1, FieldRead
  <2>2. SubSeq(bytes, 1, offset + Width + NextLength) = Consumed \o f
    BY <1>1, FieldRead
  <2>3. Consumed' = Consumed \o f
    BY <2>2 DEF Consumed
  <2>4. f \in Seq(Digits)
    BY <2>1, FramedBytes
  <2>5. Consumed \in Seq(Digits)
    BY <1>1, FileTypes
  <2> QED
    BY <2>1, <2>3, <2>4, <2>5
<1>3. /\ fields' \in Seq(Decodable) /\ Len(fields') = k + 1
  BY <1>1, <1>2, AppendProperties
<1>4. left' \in Nat /\ (k + 1) + left' = k + left
  BY <1>1
<1>5. FieldsTyped'
  BY <1>1, <1>2, <1>3, <1>4 DEF FieldsTyped
<1>6. ReadSoFar'
  <2>1. CASE ~InEntries
    <3>1. k + left = H /\ Consumed = AllFramed(fields)
      BY <2>1 DEF FileInv, ReadSoFar
    <3>2. AllFramed(fields') = AllFramed(fields) \o f
      BY <1>1, <1>2, ListsFit, FramesAppend
    <3>3. Len(fields') + left' = H
      BY <1>3, <1>4, <3>1
    <3>4. Consumed' = AllFramed(fields')
      BY <1>2, <3>1, <3>2
    <3>5. ~InEntries'
      BY <2>1 DEF InEntries
    <3> QED
      BY <3>3, <3>4, <3>5 DEF ReadSoFar
  <2>2. CASE InEntries
    <3> DEFINE hd == Heading(format, fields)
               en == Entries(format, fields)
    <3>1. PICK c \in Sizes :
            /\ k >= H
            /\ k + left = H + c * PerEntry(format)
            /\ Consumed = AllFramed(hd) \o (ToLe(c) \o AllFramed(en))
      BY <2>2 DEF FileInv, ReadSoFar
    <3>2. H \in 0..k
      BY <1>1, <3>1
    <3>3. hd \in Seq(Decodable) /\ en \in Seq(Decodable)
      BY <1>1, <3>2, TakeSome DEF Heading, Entries
    <3>4. Heading(format, fields') = hd
      <4>1. fields = SubSeq(fields', 1, k)
        <5>1. \A i \in 1..k : fields'[i] = fields[i]
          BY <1>1, <1>2, AppendProperties
        <5>2. k \in 0..Len(fields')
          BY <1>1, <1>3
        <5>3. SubSeq(fields', 1, k) \in Seq(Decodable) /\ Len(SubSeq(fields', 1, k)) = k
          BY <1>3, <5>2, TakeSome
        <5>4. \A i \in 1..k : SubSeq(fields', 1, k)[i] = fields'[i]
          BY <1>1, <1>3, <5>2, TakeOfTake
        <5> QED
          BY <1>1, <5>1, <5>3, <5>4, SeqEqual
      <4>2. k \in 0..Len(fields')
        BY <1>1, <1>3
      <4>3. SubSeq(SubSeq(fields', 1, k), 1, H) = SubSeq(fields', 1, H)
        BY <1>3, <3>2, <4>2, TakeOfTake
      <4> QED
        BY <4>1, <4>3 DEF Heading
    <3>5. Entries(format, fields') = Append(en, x)
      BY <1>1, <1>2, <3>2, RestAppend DEF Entries
    <3> DEFINE A == AllFramed(hd)
               E == AllFramed(en)
               t == ToLe(c)
               e == AllFramed(Append(en, x))
    <3>6. A \in Seq(Digits) /\ E \in Seq(Digits) /\ e = E \o f
      BY <1>2, <3>3, ListsFit, FramesLength, FramesAppend
    <3>7. t \in Seq(Digits)
      BY SizesRange, ToLeDigits
    <3>8. Consumed = A \o (t \o E)
      BY <3>1
    <3>9. A \in Seq(Digits) /\ E \in Seq(Digits) /\ t \in Seq(Digits) /\ f \in Seq(Digits)
      BY <1>2, <3>6, <3>7
    <3> HIDE DEF A, E, t, e, f
    <3>10. Consumed' = A \o (t \o e)
      <4> DEFINE te == t \o E
      <4>1. te \in Seq(Digits)
        BY <3>9, ConcatProperties
      <4>2. te \o f = t \o (E \o f)
        <5>1. Regroups(t, E, f)
          BY <3>9, Assoc
        <5> QED
          BY <5>1 DEF Regroups
      <4> HIDE DEF te
      <4>3. (A \o te) \o f = A \o (te \o f)
        <5>1. A \in Seq(Digits) /\ te \in Seq(Digits) /\ f \in Seq(Digits)
          BY <3>9, <4>1
        <5>2. Regroups(A, te, f)
          BY <5>1, Assoc
        <5> QED
          BY <5>2 DEF Regroups
      <4>4. Consumed' = (A \o te) \o f
        BY <1>2, <3>8 DEF te
      <4> QED
        BY <3>6, <4>2, <4>3, <4>4
    <3>11. InEntries'
      BY <2>2 DEF InEntries
    <3>12. Len(fields') >= H /\ Len(fields') + left' = H + c * PerEntry(format)
      <4>1. k + 1 >= H
        BY <1>1, <3>1
      <4> QED
        BY <1>3, <1>4, <3>1, <4>1
    <3>13. Consumed' = AllFramed(Heading(format, fields')) \o (ToLe(c) \o AllFramed(Entries(format, fields')))
      BY <3>4, <3>5, <3>10 DEF A, t, e
    <3> QED
      BY <3>11, <3>12, <3>13 DEF ReadSoFar
  <2> QED
    BY <2>1, <2>2
<1> QED
  BY <1>5, <1>6

LEMMA ReadFramedKeeps ==
  ASSUME FileInv, ReadFramed
  PROVE  FileInv'
<1>1. verdict = "reading" /\ left > 0
  BY DEF ReadFramed
<1>2. CASE HasField /\ NextField \in Decodable /\ ~NameTaken(NextField)
  <2>1. /\ fields' = Append(fields, NextField)
        /\ offset' = offset + Width + NextLength
        /\ left' = left - 1
        /\ UNCHANGED <<format, bytes, counted, verdict>>
    BY <1>2 DEF ReadFramed
  <2>2. FieldsTyped' /\ ReadSoFar'
    BY <1>1, <1>2, <2>1, FieldConsumed
  <2>3. Ended'
    BY <1>1, <2>1 DEF Ended
  <2>4. FollowsWriter'
    <3> SUFFICES ASSUME NEW l \in Lists, WrittenOf(l)
                 PROVE  /\ verdict' # "InvalidData"
                        /\ Len(fields') <= Len(l)
                        /\ fields' = SubSeq(l, 1, Len(fields'))
                        /\ InEntries' => Len(fields') + left' = Len(l)
      BY <2>1 DEF FollowsWriter, WrittenOf
    <3> DEFINE k == Len(fields)
    <3>1. k \in 0..(Len(l) - 1) /\ NextField = l[k + 1]
      BY <1>1, NextOfWriter
    <3>2. l \in Seq(Decodable) /\ fields = SubSeq(l, 1, k) /\ (InEntries => k + left = Len(l))
      BY FieldsAssumption DEF FileInv, FollowsWriter
    <3>3. k \in Nat /\ Len(l) \in Nat /\ k + 1 <= Len(l) /\ left \in Nat
      BY <3>1, <3>2 DEF FileInv, FieldsTyped
    <3>4. Len(fields') = k + 1
      BY <1>2, <2>1, AppendProperties DEF FileInv, FieldsTyped
    <3>5. SubSeq(l, 1, k + 1) = Append(SubSeq(l, 1, k), l[k + 1])
      <4> HIDE DEF k
      <4> QED
        BY <3>1, <3>2, TakeOneMore
    <3>6. fields' = SubSeq(l, 1, k + 1)
      BY <2>1, <3>1, <3>2, <3>5
    <3>7. InEntries' => (k + 1) + left' = Len(l)
      <4>1. InEntries' => InEntries
        BY <2>1 DEF InEntries
      <4>2. (k + 1) + left' = k + left
        BY <2>1, <3>3
      <4> QED
        BY <3>2, <4>1, <4>2
    <3> HIDE DEF k
    <3> QED
      BY <1>1, <2>1, <3>3, <3>4, <3>6, <3>7
  <2> QED
    BY <2>2, <2>3, <2>4 DEF FileInv
<1>3. CASE ~(HasField /\ NextField \in Decodable /\ ~NameTaken(NextField))
  <2>1. Refuse
    BY <1>3 DEF ReadFramed
  <2>2. \A l \in Lists : ~WrittenOf(l)
    BY <1>1, <1>3, NextOfWriter
  <2> QED
    BY <2>1, <2>2, RefuseKeeps
<1> QED
  BY <1>2, <1>3

LEMMA ReadCountKeeps ==
  ASSUME FileInv, ReadCount
  PROVE  FileInv'
<1>1. verdict = "reading" /\ left = 0 /\ ~counted
  BY DEF ReadCount
<1>2. CASE HasLength /\ CountPlausible(NextLength)
  <2> DEFINE c == NextLength
             H == HeadFields(format)
             P == PerEntry(format)
  <2>1. /\ left' = c * P
        /\ offset' = offset + Width
        /\ counted' = TRUE
        /\ UNCHANGED <<format, bytes, fields, verdict>>
    BY <1>2 DEF ReadCount
  <2>2. /\ FieldsTyped /\ format \in Formats /\ fields \in Seq(Decodable)
        /\ HasCount(format) /\ ~InEntries
        /\ H \in Nat /\ P \in Nat \ {0} /\ Len(fields) \in Nat
    BY <1>1, FormatSizes DEF FileInv, FieldsTyped, InEntries
  <2>3. c \in Sizes /\ offset' \in 0..Len(bytes) /\ Consumed' = Consumed \o ToLe(c)
    <3>1. /\ c \in Sizes /\ offset + Width \in 0..Len(bytes)
          /\ SubSeq(bytes, 1, offset + Width) = Consumed \o ToLe(c)
      BY <1>2, <2>2, LengthRead
    <3> QED
      BY <2>1, <3>1 DEF Consumed
  <2>4. c \in Nat /\ c * P \in Nat
    BY <2>2, <2>3, SizesRange, ProductBounds
  <2>5. FieldsTyped'
    BY <2>1, <2>2, <2>3, <2>4 DEF FieldsTyped
  <2>6. ReadSoFar'
    <3>1. Len(fields) = H /\ Consumed = AllFramed(fields)
      <4>1. Len(fields) + left = H /\ Consumed = AllFramed(fields)
        BY <2>2 DEF FileInv, ReadSoFar
      <4>2. Len(fields) + left = Len(fields)
        BY <1>1, <2>2
      <4> QED
        BY <4>1, <4>2
    <3>2. Heading(format, fields) = fields
      BY <2>2, <3>1, SubSeqFull DEF Heading
    <3>3. Entries(format, fields) = <<>>
      <4>1. \A n \in Nat : SubSeq(fields, n + 1, n) = <<>>
        BY SubSeqEmpty
      <4> QED
        BY <2>2, <3>1, <4>1 DEF Entries
    <3>4. ToLe(c) \o <<>> = ToLe(c)
      BY <2>4, ToLeDigits, ConcatEmptySeq
    <3>5. Consumed' = AllFramed(Heading(format, fields)) \o (ToLe(c) \o AllFramed(Entries(format, fields)))
      BY <2>3, <3>1, <3>2, <3>3, <3>4, FramesEmpty
    <3>6. InEntries'
      BY <2>1, <2>2 DEF InEntries
    <3>7. Len(fields) >= H /\ Len(fields) + left' = H + c * P
      BY <2>1, <2>2, <3>1
    <3> HIDE DEF c
    <3> QED
      BY <2>1, <2>3, <3>5, <3>6, <3>7 DEF ReadSoFar
  <2>7. Ended'
    BY <1>1, <2>1 DEF Ended
  <2>8. FollowsWriter'
    <3> SUFFICES ASSUME NEW l \in Lists, WrittenOf(l)
                 PROVE  /\ verdict' # "InvalidData"
                        /\ Len(fields') <= Len(l)
                        /\ fields' = SubSeq(l, 1, Len(fields'))
                        /\ InEntries' => Len(fields') + left' = Len(l)
      BY <2>1 DEF FollowsWriter, WrittenOf
    <3>1. Len(fields) + c * P = Len(l)
      BY <1>1, CountOfWriter
    <3>2. Len(fields) <= Len(l) /\ fields = SubSeq(l, 1, Len(fields))
      BY DEF FileInv, FollowsWriter
    <3> HIDE DEF c, P
    <3> QED
      BY <1>1, <2>1, <3>1, <3>2
  <2> QED
    BY <2>5, <2>6, <2>7, <2>8 DEF FileInv
<1>3. CASE ~(HasLength /\ CountPlausible(NextLength))
  <2>1. Refuse
    BY <1>3 DEF ReadCount
  <2>2. \A l \in Lists : ~WrittenOf(l)
    BY <1>1, <1>3, CountOfWriter
  <2> QED
    BY <2>1, <2>2, RefuseKeeps
<1> QED
  BY <1>2, <1>3

LEMMA FinishKeeps ==
  ASSUME FileInv, Finish
  PROVE  FileInv'
<1>1. verdict = "reading" /\ left = 0 /\ counted
  BY DEF Finish
<1>2. CASE Remaining # 0
  <2>1. Refuse
    BY <1>2 DEF Finish
  <2>2. \A l \in Lists : ~WrittenOf(l)
    BY <1>1, <1>2, EndOfWriter
  <2> QED
    BY <2>1, <2>2, RefuseKeeps
<1>3. CASE Remaining = 0
  <2>1. verdict' = "Ok" /\ UNCHANGED <<format, bytes, offset, fields, left, counted>>
    BY <1>3 DEF Finish
  <2>2. FieldsTyped'
    BY <2>1 DEF FileInv, FieldsTyped
  <2>3. ReadSoFar'
    BY <2>1 DEF FileInv, ReadSoFar, InEntries, Consumed
  <2>4. Ended'
    <3>1. offset = Len(bytes)
      BY <1>3, FileTypes DEF Remaining, FileInv
    <3> QED
      BY <1>1, <2>1, <3>1 DEF Ended
  <2>5. FollowsWriter'
    BY <2>1 DEF FileInv, FollowsWriter, WrittenOf, InEntries
  <2> QED
    BY <2>2, <2>3, <2>4, <2>5 DEF FileInv
<1> QED
  BY <1>2, <1>3

LEMMA FileNextInv == FileInv /\ [FileNext]_fileVars => FileInv'
<1> SUFFICES ASSUME FileInv, [FileNext]_fileVars PROVE FileInv'
  OBVIOUS
<1>1. CASE UNCHANGED fileVars
  <2>1. UNCHANGED <<format, bytes, offset, fields, left, counted, verdict>>
    BY <1>1 DEF fileVars
  <2>2. FieldsTyped'
    BY <2>1 DEF FileInv, FieldsTyped
  <2>3. ReadSoFar'
    BY <2>1 DEF FileInv, ReadSoFar, InEntries, Consumed
  <2>4. Ended' /\ FollowsWriter'
    BY <2>1 DEF FileInv, Ended, FollowsWriter, WrittenOf, InEntries
  <2> QED
    BY <2>2, <2>3, <2>4 DEF FileInv
<1> QED
  BY <1>1, ReadFramedKeeps, ReadCountKeeps, FinishKeeps DEF FileNext

(* The inductive invariant of reading a file: the bytes up to the offset   *)
(* are what the writers write of the fields read so far, and of a written  *)
(* file they are the fields that were written.                             *)
THEOREM FileInvariance == FileSpec => []FileInv
BY FileInitInv, FileNextInv, PTL DEF FileSpec

-----------------------------------------------------------------------------
(* Fields: the properties.                                                 *)

(* A file that Database::load, Structure::from_bytes or                    *)
(* NodeRef::deserialize_node accepts is, byte for byte, what to_bytes      *)
(* writes of the fields that were read from it.                            *)
THEOREM AcceptedFilesAreExact == FileSpec => []AcceptedIsExact
<1>1. FileInv => AcceptedIsExact
  <2> SUFFICES ASSUME FileInv, verdict = "Ok" PROVE Written(format, fields) = bytes
    BY DEF AcceptedIsExact
  <2>1. offset = Len(bytes) /\ left = 0 /\ counted
    BY DEF FileInv, Ended
  <2>2. bytes \in Seq(Digits)
    BY FileTypes DEF FileInv
  <2>3. Consumed = bytes
    BY <2>1, <2>2, SubSeqFull DEF Consumed
  <2>4. Consumed = Written(format, fields)
    BY <2>1, AtTheEnd
  <2> QED
    BY <2>3, <2>4
<1> QED
  BY <1>1, FileInvariance, PTL

(* Nothing that to_bytes writes is refused when it is read again, by the   *)
(* bounds, by the plausibility check of the count or as a second structure *)
(* of the same name.                                                       *)
THEOREM WrittenFilesAreAccepted == FileSpec => []WrittenIsAccepted
<1>1. FileInv => WrittenIsAccepted
  <2> SUFFICES ASSUME FileInv, verdict = "InvalidData", bytes \in WrittenFiles PROVE FALSE
    BY DEF WrittenIsAccepted
  <2>1. PICK l \in Lists : WrittenOf(l)
    BY DEF WrittenFiles, WrittenOf
  <2> QED
    BY <2>1 DEF FileInv, FollowsWriter
<1> QED
  BY <1>1, FileInvariance, PTL

(* A file that was cut off anywhere is refused: what is accepted is not    *)
(* the beginning of another file, since every length and the count say how *)
(* much follows.                                                           *)
THEOREM CutOffFilesAreRefused == FileSpec => []CutOffIsRefused
<1>1. FileInv => CutOffIsRefused
  <2> SUFFICES ASSUME FileInv, verdict = "Ok", NEW w \in WrittenFiles, IsStrictPrefix(bytes, w)
               PROVE  FALSE
    BY DEF CutOffIsRefused
  <2>1. format \in Formats /\ fields \in Seq(Decodable) /\ bytes \in Seq(Digits)
    BY FileTypes DEF FileInv, FieldsTyped
  <2>2. offset = Len(bytes) /\ left = 0 /\ counted
    BY DEF FileInv, Ended
  <2>3. Consumed = bytes
    BY <2>1, <2>2, SubSeqFull DEF Consumed
  <2>4. PICK c \in Sizes : bytes = Written(format, fields) /\ Shaped(format, fields, c)
    BY <2>2, <2>3, AtTheEnd
  <2>5. PICK l \in Lists : WellShaped(format, l) /\ w = Written(format, l)
    BY DEF WrittenFiles
  <2>6. l \in Seq(Decodable)
    BY FieldsAssumption
  <2>7. PICK d \in Sizes : Shaped(format, l, d)
    BY <2>1, <2>5, ShapeOfLists
  <2>8. w \in Seq(Digits)
    <3>1. d \in Nat
      BY SizesRange
    <3>2. CASE HasCount(format)
      <4>1. /\ AllFramed(Heading(format, l)) \in Seq(Digits)
            /\ ToLe(d) \in Seq(Digits) /\ AllFramed(Entries(format, l)) \in Seq(Digits)
            /\ w = AllFramed(Heading(format, l)) \o (ToLe(d) \o AllFramed(Entries(format, l)))
        BY <2>1, <2>5, <2>6, <2>7, <3>1, <3>2, WrittenCounted
      <4> QED
        BY <4>1, ConcatProperties
    <3>3. CASE ~HasCount(format)
      BY <2>1, <2>5, <2>6, <2>7, <3>3, WrittenUncounted DEF Shaped
    <3> QED
      BY <3>2, <3>3
  <2>9. Len(bytes) <= Len(w) /\ SubSeq(bytes, 1, Len(bytes)) = SubSeq(w, 1, Len(bytes)) /\ bytes # w
    BY DEF IsStrictPrefix, IsPrefix
  <2> DEFINE u == SubSeq(w, Len(bytes) + 1, Len(w))
  <2>10. u \in Seq(Digits) /\ w = bytes \o u
    <3>1. Len(bytes) \in 0..Len(w)
      BY <2>1, <2>8, <2>9
    <3>2. u \in Seq(Digits) /\ w = SubSeq(w, 1, Len(bytes)) \o u
      BY <2>8, <3>1, TakeSome
    <3>3. SubSeq(bytes, 1, Len(bytes)) = bytes
      BY <2>1, SubSeqFull
    <3> QED
      BY <2>9, <3>2, <3>3
  <2> HIDE DEF u
  <2>11. u = <<>>
    BY <2>1, <2>4, <2>5, <2>6, <2>7, <2>10, NoneContinues
  <2>12. bytes \o <<>> = bytes
    BY <2>1, ConcatEmptySeq
  <2> QED
    BY <2>9, <2>10, <2>11, <2>12
<1> QED
  BY <1>1, FileInvariance, PTL

=============================================================================
