----------------------------- MODULE PathSearch -----------------------------
(***************************************************************************)
(* Structure::has_path (src/src/structure.rs), the depth-first search      *)
(* behind every cycle check: a worklist of keys popped from its end, a set *)
(* of visited keys, and an early return when the target is popped.  The    *)
(* order in which a node's children are pushed is that of a HashSet, so it *)
(* is any order.  Structure.tla uses the answer as HasPath in one step,    *)
(* because nothing else runs during the search; this module is about the   *)
(* loop itself.                                                            *)
(*                                                                         *)
(* The links searched may form cycles: contains_cycle runs this search to  *)
(* find them in a file being loaded.  They may also leave the structure: a *)
(* node added to two structures has links in both, and a handle kept from  *)
(* before a deletion still lists its old neighbours.                       *)
(***************************************************************************)
EXTENDS StructureOps, FiniteSets

(* Keys are the keys of one structure in memory.                           *)
ASSUME FiniteKeys == IsFiniteSet(Keys)

VARIABLES graph,     \* the structure's nodes and their children
          start,     \* start_key
          target,    \* target_key
          pending,   \* keys still to look at, the next one last
          visited,   \* keys whose children have been pushed
          answer     \* "searching" until the function returns

vars == <<graph, start, target, pending, visited, answer>>

Linkings == [nodes : SUBSET Keys, children : [Keys -> SUBSET Keys]]

Init == /\ graph \in Linkings
        /\ \A k \in Keys : k \notin graph.children[k]
        /\ \A k \in Keys \ graph.nodes : graph.children[k] = {}
        /\ start \in Keys
        /\ target \in Keys
        /\ pending = <<start>>
        /\ visited = {}
        /\ answer = "searching"

-----------------------------------------------------------------------------
Popped == pending[Len(pending)]

Rest == SubSeq(pending, 1, Len(pending) - 1)

Orders(S) == {o \in [1..Cardinality(S) -> S] : Range(o) = S}

(* What each round of the loop begins with.                                *)
Popping == answer = "searching" /\ pending # <<>>

Find == /\ Popping
        /\ Popped = target
        /\ answer' = "found"
        /\ pending' = Rest
        /\ UNCHANGED <<graph, start, target, visited>>

(* Fault: a key seen before is looked at, not popped.                      *)
SkipPeeks == /\ Popping
             /\ Popped # target
             /\ Popped \in visited
             /\ UNCHANGED vars

(* Fault: a key seen before ends the search.                               *)
SkipStops == /\ Popping
             /\ Popped # target
             /\ Popped \in visited
             /\ answer' = "absent"
             /\ pending' = Rest
             /\ UNCHANGED <<graph, start, target, visited>>

Skip == /\ Popping
        /\ Popped # target
        /\ Popped \in visited
        /\ pending' = Rest
        /\ UNCHANGED <<graph, start, target, visited, answer>>

(* Fault: only one of the children is pushed.                              *)
ExpandOne == /\ Popping
             /\ Popped # target
             /\ Popped \notin visited
             /\ visited' = visited \cup {Popped}
             /\ pending' \in {Rest} \cup {Append(Rest, k) : k \in Successors(graph, Popped)}
             /\ UNCHANGED <<graph, start, target, answer>>

(* Fault: a key seen before is expanded again.                             *)
ExpandAgain == /\ Popping
               /\ Popped # target
               /\ visited' = visited \cup {Popped}
               /\ \E order \in Orders(Successors(graph, Popped)) :
                    pending' = Rest \o order
               /\ UNCHANGED <<graph, start, target, answer>>

Expand == /\ Popping
          /\ Popped # target
          /\ Popped \notin visited
          /\ visited' = visited \cup {Popped}
          /\ \E order \in Orders(Successors(graph, Popped)) :
               pending' = Rest \o order
          /\ UNCHANGED <<graph, start, target, answer>>

Exhaust == /\ answer = "searching"
           /\ pending = <<>>
           /\ answer' = "absent"
           /\ UNCHANGED <<graph, start, target, pending, visited>>

Next == Find \/ Skip \/ Expand \/ Exhaust

(* A function that is running goes on running.                             *)
Spec == Init /\ [][Next]_vars /\ WF_vars(Next)

-----------------------------------------------------------------------------
(* Type correctness.                                                       *)
TypeOK == /\ graph \in Linkings
          /\ start \in Keys
          /\ target \in Keys
          /\ pending \in Seq(Keys)
          /\ visited \in SUBSET Keys
          /\ answer \in {"searching", "found", "absent"}

(* The loop's frontier: whatever order the children came in, a visited     *)
(* key's children have been visited or wait on the worklist, so nothing    *)
(* reachable is lost by skipping a key seen before.                        *)
FrontierKept == /\ start \in visited \cup Range(pending) \/ answer = "found"
                /\ \A k \in visited :
                     \/ Successors(graph, k) \subseteq visited \cup Range(pending)
                     \/ answer = "found"

(* The search answers exactly the question the cycle checks ask, on cyclic *)
(* links and on links that leave the structure as well.                    *)
SearchExact == /\ answer = "found" => HasPath(graph, start, target)
               /\ answer = "absent" => ~HasPath(graph, start, target)

LinksFrom(V) == {l \in V \X Keys : l[2] \in Successors(graph, l[1])}

(* The worklist may hold a key many times, but each key is expanded once,  *)
(* so it never holds more than the start and one entry for every link.     *)
WorklistBounded == Len(pending) <= 1 + Cardinality(LinksFrom(visited))

(* The search ends, on cyclic links too.                                   *)
Terminates == <>(answer # "searching")

=============================================================================
