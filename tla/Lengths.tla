------------------------------- MODULE Lengths ------------------------------
(* The u64 lengths in front of everything that is written, in frames and   *)
(* in files: little-endian digits of a fixed width.                        *)
EXTENDS Naturals, SequencesExt

CONSTANTS Base, Width   \* in the code 256 and 8

ASSUME LengthsAssumption == Base \in Nat \ {0, 1} /\ Width \in Nat \ {0}

Digits == 0..(Base - 1)

(* What a digit counts for, by the number of digits below it.              *)
Weight[i \in 0..Width] == IF i = 0 THEN 1 ELSE Base * Weight[i - 1]

(* The lengths there are; usize is as wide as u64.                         *)
Sizes == 0..(Weight[Width] - 1)

ToLe(n) == [i \in 1..Width |-> (n \div Weight[i - 1]) % Base]

FromLe(digits) ==
  LET upTo[i \in 0..Width] ==
        IF i = 0 THEN 0 ELSE upTo[i - 1] + digits[i] * Weight[i - 1]
  IN  upTo[Width]

Framed(data) == ToLe(Len(data)) \o data

AllFramed(s) == FlattenSeq([i \in DOMAIN s |-> Framed(s[i])])

=============================================================================
