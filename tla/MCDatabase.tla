----------------------------- MODULE MCDatabase -----------------------------
(* Instances of Database for TLC.                                          *)
EXTENDS Database

CONSTANTS a, b, n1

(* Enough to build every graph of two keys.                                *)
MCKeyLists == {<<>>, <<a>>}

MCRooted == {WithRoot(a, v, "semi-strict") : v \in Values}

Node(k, parents, children) == [key |-> k, value |-> CHOOSE v \in Values : TRUE,
                               parents |-> parents, children |-> children]

OneStructure(nodes) ==
  <<Count(1), NamePiece(n1),
    StructurePiece([root |-> NoRoot, mode |-> "semi-strict", nodes |-> nodes])>>

(* Two nodes without a link, which the semi-strict rule forbids; a link    *)
(* that only the parent lists; a file whose last structure is missing; and *)
(* one whose structure has no name.                                        *)
MCForeign == LET lone == <<Node(a, <<>>, <<>>), Node(b, <<>>, <<>>)>>
             IN  {OneStructure(lone),
                  OneStructure(<<Node(a, <<>>, <<b>>), Node(b, <<>>, <<>>)>>),
                  [OneStructure(lone) EXCEPT ![1] = Count(2)],
                  [OneStructure(lone) EXCEPT ![2] = NamePiece(EmptyKey)]}

(* Bound: a process that was started with a lax file has no other          *)
(* structure, and goes on from there or from what it saved of it.          *)
LaxAlone == lax # {} => NamesIn(db) \cup NamesIn(saved) \subseteq {n1}
=============================================================================
