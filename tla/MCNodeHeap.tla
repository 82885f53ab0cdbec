----------------------------- MODULE MCNodeHeap -----------------------------
(* Instances of NodeHeap for TLC.                                          *)
EXTENDS NodeHeap, SequencesExt

CONSTANTS MaxList, a1, a2, b1, b2, c1, s1, s2, a, b, c

MCKeyLists == BoundedSeq(Keys, MaxList)

(* The order of a list decides nothing, and one with a repetition is       *)
(* refused.                                                                *)
FewLists == BoundedSeq(Keys, 1) \cup
            {<<a, b>>, <<a, c>>, <<b, c>>}

(* Two objects for two of the keys: an old one and a new one, or one in    *)
(* each structure.                                                         *)
MCKeyOf == (a1 :> a) @@ (a2 :> a) @@ (b1 :> b) @@ (b2 :> b) @@ (c1 :> c)

(* a1 and a2 are alike, and b1 and b2, and a with both and b with both, and *)
(* the two structures.                                                     *)
SwapA == (a1 :> a2) @@ (a2 :> a1)
SwapB == (b1 :> b2) @@ (b2 :> b1)
SwapAB == (a :> b) @@ (b :> a) @@ (a1 :> b1) @@ (a2 :> b2) @@ (b1 :> a1) @@ (b2 :> a2)
SwapS == (s1 :> s2) @@ (s2 :> s1)
Rest(f) == [x \in (Owners \cup Handles \cup Keys) \ DOMAIN f |-> x]
Then(f, g) == [x \in DOMAIN f |-> g[f[x]]]

Swapped(f) == {Rest(<<>>), f @@ Rest(f)}

MCSymmetry == {Then(Then(Then(f, g), h), s) : f \in Swapped(SwapA), g \in Swapped(SwapB),
                                              h \in Swapped(SwapAB), s \in Swapped(SwapS)}

TwoKeysOf == (a1 :> a) @@ (a2 :> a) @@ (b1 :> b) @@ (b2 :> b)
=============================================================================
