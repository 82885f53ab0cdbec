------------------------------ MODULE MCLoops ------------------------------
(* The loops of the program that share nothing with each other, for TLC,   *)
(* one at a time while the others rest: the path search over a graph, the  *)
(* frames of a connection, and the fields of a file.                       *)
EXTENDS PathSearch, Framing, Fields

CONSTANTS MaxForeign,   \* the longest stream of a foreign program
          MaxSource,    \* the longest file of unknown origin
          Some,         \* the digits used there
          From, To      \* two keys

(* A payload that looks like a length, one that is another's beginning,    *)
(* one of the greatest length, and one that is too long.                   *)
MCPayloads == {<<1>>, <<1, 0>>, <<1, 0, 1>>}

MCForeign == BoundedSeq(Some, MaxForeign)

(* Fields of one and two digits, which look like lengths, too.             *)
MCDecodable == {<<0>>, <<1>>, <<0, 1>>}

MCLists == BoundedSeq(MCDecodable, 4)

AnyWritten == UNION {{Written(f, l) : l \in {m \in MCLists : WellShaped(f, m)}} :
                     f \in {"database", "structure", "node"}}

CutOff(w) == {SubSeq(w, 1, n) : n \in 0..Len(w)}

Altered(w) == {[w EXCEPT ![i] = d] : i \in DOMAIN w, d \in Some}

MCSources == BoundedSeq(Some, MaxSource) \cup
             UNION {CutOff(w) \cup Altered(w) \cup {Append(w, d) : d \in Some} : w \in AnyWritten}

SearchRests == /\ graph = [nodes |-> {}, children |-> [k \in Keys |-> {}]]
               /\ target = CHOOSE k \in Keys : TRUE
               /\ start = target
               /\ pending = <<>> /\ visited = {} /\ answer = "found"

FramingRests == /\ writer = "closed"
                /\ reader = "UnexpectedEof"
                /\ wire = <<>> /\ stream = <<>> /\ unsent = <<>> /\ begun = <<>>
                /\ got = <<>> /\ want = <<>> /\ delivered = <<>>

NoFileOpen == /\ format = "database"
              /\ verdict = "InvalidData"
              /\ bytes = <<>>
              /\ offset = 0 /\ fields = <<>> /\ left = 0 /\ counted = FALSE

(* Nothing tells keys apart, so that every search begins at the same key,  *)
(* and looks for it or for one other.                                      *)
AnySearch == Init /\ start = From /\ target \in {From, To}

LoopsInit == \/ AnySearch /\ FramingRests /\ NoFileOpen
             \/ SearchRests /\ FramingInit /\ NoFileOpen
             \/ SearchRests /\ FramingRests /\ FileInit

LoopsNext == \/ Next /\ UNCHANGED <<framingVars, fileVars>>
             \/ FramingNext /\ UNCHANGED <<vars, fileVars>>
             \/ FileNext /\ UNCHANGED <<vars, framingVars>>

LoopsSpec == /\ LoopsInit
             /\ [][LoopsNext]_<<vars, framingVars, fileVars>>
             /\ WF_vars(Next)
             /\ Reads
=============================================================================
