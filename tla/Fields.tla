------------------------------- MODULE Fields -------------------------------
(***************************************************************************)
(* How the bytes of a file are split into fields: Database::load,          *)
(* Structure::from_bytes and NodeRef::deserialize_node, which read fields  *)
(* with their lengths in front, and the writers they are the inverse of.   *)
(* The bytes may be anything.  What a field says is not looked into.       *)
(***************************************************************************)
EXTENDS Lengths

CONSTANTS Sources,     \* the byte sequences that are read
          Decodable,   \* the fields that deserialize, to a name that is not
                       \* empty where a name is read
          Lists        \* the lists of fields that programs write

ASSUME FieldsAssumption ==
  /\ Sources \subseteq Seq(Digits)
  /\ Decodable \subseteq Seq(Digits)
  /\ Lists \subseteq Seq(Decodable)
  /\ \A s \in Sources \cup Decodable : Len(s) \in Sizes
  /\ \A l \in Lists : Len(l) \in Sizes

VARIABLES format,    \* which of the three is read
          bytes,     \* the bytes
          offset,    \* how many of them are read
          fields,    \* the fields read, in order
          left,      \* the fields still to be read
          counted,   \* has the number of entries been read, if there is one?
          verdict    \* "reading", "Ok", or "InvalidData"

fileVars == <<format, bytes, offset, fields, left, counted, verdict>>

(* A database is a count and as many names and structures; a structure is  *)
(* its root, its mode, a count and as many nodes; a node is four fields.   *)
HeadFields(f) == CASE f = "database" -> 0 [] f = "structure" -> 2 [] f = "node" -> 4

PerEntry(f) == IF f = "database" THEN 2 ELSE 1

HasCount(f) == f # "node"

-----------------------------------------------------------------------------
(* Writing.                                                                *)

Written(f, items) ==
  LET head == SubSeq(items, 1, HeadFields(f))
      rest == SubSeq(items, HeadFields(f) + 1, Len(items))
  IN  AllFramed(head) \o
      (IF HasCount(f) THEN ToLe(Len(rest) \div PerEntry(f)) \o AllFramed(rest) ELSE <<>>)

-----------------------------------------------------------------------------
(* Reading.                                                                *)

FileInit == /\ format \in {"database", "structure", "node"}
            /\ bytes \in Sources
            /\ offset = 0
            /\ fields = <<>>
            /\ left = HeadFields(format)
            /\ counted = ~HasCount(format)
            /\ verdict = "reading"

Remaining == Len(bytes) - offset

(* The sum of two lengths must fit into usize.                             *)
CheckedEnd(from, length) == from + length \in Sizes

Slice(from, length) == SubSeq(bytes, from + 1, from + length)

Within(from, length) == CheckedEnd(from, length) /\ from + length <= Len(bytes)

HasLength == Within(offset, Width)

NextLength == FromLe(Slice(offset, Width))

HasField == HasLength /\ Within(offset + Width, NextLength)

NextField == Slice(offset + Width, NextLength)

Refuse == verdict' = "InvalidData" /\ UNCHANGED <<format, bytes, offset, fields, left, counted>>

(* Names of structures are not empty and differ from each other.           *)
NameTaken(field) ==
  /\ format = "database"
  /\ Len(fields) % 2 = 0
  /\ \E i \in DOMAIN fields : i % 2 = 1 /\ fields[i] = field

(* Fault: the end of the file ends the list of entries.                    *)
ReadFramedToEnd ==
  /\ verdict = "reading"
  /\ left > 0
  /\ IF Remaining = 0
     THEN left' = 0 /\ UNCHANGED <<format, bytes, offset, fields, counted, verdict>>
     ELSE IF HasField /\ NextField \in Decodable /\ ~NameTaken(NextField)
     THEN /\ fields' = Append(fields, NextField)
          /\ offset' = offset + Width + NextLength
          /\ left' = left - 1
          /\ UNCHANGED <<format, bytes, counted, verdict>>
     ELSE Refuse

ReadFramed ==
  /\ verdict = "reading"
  /\ left > 0
  /\ IF HasField /\ NextField \in Decodable /\ ~NameTaken(NextField)
     THEN /\ fields' = Append(fields, NextField)
          /\ offset' = offset + Width + NextLength
          /\ left' = left - 1
          /\ UNCHANGED <<format, bytes, counted, verdict>>
     ELSE Refuse

(* Fault: the bytes of a length are divided by twice.                      *)
CountPlausibleTwice(n) == n <= (Remaining - Width) \div (2 * PerEntry(format) * Width)

(* Every field takes at least the bytes of its length.                     *)
CountPlausible(n) == n <= (Remaining - Width) \div (PerEntry(format) * Width)

ReadCount ==
  /\ verdict = "reading"
  /\ left = 0
  /\ ~counted
  /\ IF HasLength /\ CountPlausible(NextLength)
     THEN /\ left' = NextLength * PerEntry(format)
          /\ offset' = offset + Width
          /\ counted' = TRUE
          /\ UNCHANGED <<format, bytes, fields, verdict>>
     ELSE Refuse

(* Fault: what follows the last field is ignored.                          *)
FinishEarly == /\ verdict = "reading"
               /\ left = 0
               /\ counted
               /\ verdict' = "Ok"
               /\ UNCHANGED <<format, bytes, offset, fields, left, counted>>

Finish == /\ verdict = "reading"
          /\ left = 0
          /\ counted
          /\ IF Remaining # 0
             THEN Refuse
             ELSE /\ verdict' = "Ok"
                  /\ UNCHANGED <<format, bytes, offset, fields, left, counted>>

FileNext == ReadFramed \/ ReadCount \/ Finish

FileSpec == FileInit /\ [][FileNext]_fileVars

-----------------------------------------------------------------------------
(* Every byte of a file that is accepted belongs to a field, a length or   *)
(* the count: writing the fields again gives the very file.                *)
AcceptedIsExact == verdict = "Ok" => Written(format, fields) = bytes

WellShaped(f, l) ==
  CASE f = "node" -> Len(l) = 4
    [] f = "structure" -> Len(l) >= 2
    [] f = "database" -> /\ Len(l) % 2 = 0
                         /\ \A i, j \in DOMAIN l : i % 2 = 1 /\ j % 2 = 1 /\ l[i] = l[j] => i = j

WrittenFiles == {Written(format, l) : l \in {m \in Lists : WellShaped(format, m)}}

(* Nothing that is written is refused, the smallest files included: the    *)
(* count is held against the bytes that follow it, before they are read.   *)
WrittenIsAccepted == verdict = "InvalidData" => bytes \notin WrittenFiles

(* Wherever writing stopped, in a length or in a field or between two: the *)
(* beginning of a file is not itself a file.                               *)
CutOffIsRefused == verdict = "Ok" => \A w \in WrittenFiles : ~IsStrictPrefix(bytes, w)

=============================================================================
