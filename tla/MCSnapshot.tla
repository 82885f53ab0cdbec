----------------------------- MODULE MCSnapshot -----------------------------
(* Instances of Snapshot for TLC.                                          *)
EXTENDS Snapshot, SequencesExt

CONSTANTS a, b, MaxList

MCKeyLists == BoundedSeq(Keys, MaxList)

(* Files of at most two nodes with any keys and lists over two keys.       *)
SmallRecords == [key : {a, b, EmptyKey}, value : Values,
                 parents : BoundedSeq({a, b}, 2), children : BoundedSeq({a, b}, 2)]

SmallFiles == [root : {a, b, EmptyKey, NoRoot}, mode : Modes \cup {"other"},
               nodes : BoundedSeq(SmallRecords, 2)]

(* Files with a node for every key and any links between different keys,   *)
(* cycles of every length among them.                                      *)
LinkedFiles ==
  LET order == Sorted(Keys)
      Links == [Keys -> {Sorted(S) : S \in SUBSET Keys}]
      Apart(l) == \A k \in Keys : k \notin Range(l[k])
      Sides == {l \in Links : Apart(l)}
  IN  {[root |-> NoRoot, mode |-> "un-strict",
        nodes |-> [i \in DOMAIN order |->
                     [key |-> order[i], value |-> CHOOSE v \in Values : TRUE,
                      parents |-> l[order[i]], children |-> m[order[i]]]]] :
       l, m \in Sides}

MCFiles == SmallFiles \cup LinkedFiles
=============================================================================
