---------------------------- MODULE MCStructure -----------------------------
(* Instances of Structure for TLC.                                         *)
EXTENDS Structure, SequencesExt, TLC

CONSTANTS MaxList   \* the longest list of keys a caller passes

MCKeyLists == BoundedSeq(Keys, MaxList)

(* Keys and values are compared for equality alone.                        *)
MCSymmetry == Permutations(Keys) \cup Permutations(Values)
=============================================================================
