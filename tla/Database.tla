------------------------------ MODULE Database ------------------------------
(***************************************************************************)
(* The database under the commands of its clients (src/src/server.rs,      *)
(* execute; src/src/database.rs) and across crashes and restarts: named    *)
(* structures in the memory of one thread, and one snapshot file that Save *)
(* truncates and then writes piece by piece.  A process that dies, and a   *)
(* write that fails, leave a beginning of what was being written.  A       *)
(* process may also be started with a file of unknown origin.              *)
(***************************************************************************)
EXTENDS SnapshotOps, Integers

CONSTANTS Names,         \* the non-empty names of structures
          Rooted,        \* structures a caller makes with a root
          Foreign,       \* the files of unknown origin
          NoStructure,   \* no structure has the name
          NoFile         \* there is no file

ASSUME NamesAssumption == EmptyKey \notin Names

ASSUME RootedAssumption ==
  Rooted \subseteq {WithRoot(k, v, mode) : k \in Keys, v \in Values, mode \in Modes}

VARIABLES db,        \* the structures by name
          file,      \* the pieces in the snapshot file
          pending,   \* the pieces Save has still to write
          thread,    \* the database thread: "idle", "saving", or "down"
          lax,       \* history: the names whose structure came from a file that
                     \* breaks the semi-strict rule
          saved,     \* history: the database when Save last opened the file
          answered   \* history: has that Save been answered Ok?

vars == <<db, file, pending, thread, lax, saved, answered>>

Databases == [Names -> Structures \cup {NoStructure}]

NoStructures == [n \in Names |-> NoStructure]

NamesIn(d) == {n \in Names : d[n] # NoStructure}

-----------------------------------------------------------------------------
(* The file: the number of structures, then a name and a structure for     *)
(* each.  Each piece has its length before it, so that a piece which is    *)
(* not all there is known: it is Torn.                                     *)

Count(n) == [count |-> n]
NamePiece(n) == [name |-> n]
StructurePiece(f) == [snapshot |-> f]
Torn == [torn |-> TRUE]

(* What can stand at the i-th place of a file, whoever wrote it.           *)
PiecesAt(i) == {Torn} \cup IF i = 1 THEN [count : Nat]
                          ELSE IF i % 2 = 0 THEN [name : Names \cup {EmptyKey}]
                          ELSE [snapshot : Snapshots]

ASSUME ForeignAssumption == \A f \in Foreign : /\ f \in Seq(Range(f))
                                              /\ \A i \in DOMAIN f : f[i] \in PiecesAt(i)

Pieces(d) ==
  LET names == Sorted(NamesIn(d))
      n == Len(names)
  IN  <<Count(n)>> \o
      [i \in 1..(2 * n) |-> IF i % 2 = 1
                            THEN NamePiece(names[(i + 1) \div 2])
                            ELSE StructurePiece(ToBytes(d[names[i \div 2]]))]

(* Fault: the end of the file ends the list of structures.                 *)
ReadableToTheEnd(f) ==
  /\ f # <<>>
  /\ Torn \notin Range(f)
  /\ Len(f) % 2 = 1
  /\ \A i \in DOMAIN f : i > 1 /\ i % 2 = 1 => LoadVerdict(f[i].snapshot) = "Ok"

(* load counts, and refuses an empty or repeated name and trailing pieces. *)
(* Its test of the count against the bytes that remain refuses no file in  *)
(* which every structure is there, because a name and a structure take     *)
(* more than 16 bytes.                                                     *)
Readable(f) ==
  /\ f # <<>>
  /\ Torn \notin Range(f)
  /\ Len(f) = 1 + 2 * f[1].count
  /\ \A i \in 1..f[1].count : f[2 * i].name # EmptyKey
  /\ \A i, j \in 1..f[1].count : f[2 * i].name = f[2 * j].name => i = j
  /\ \A i \in 1..f[1].count : LoadVerdict(f[2 * i + 1].snapshot) = "Ok"

Loaded(f) ==
  [n \in Names |->
     IF \E i \in 2..(Len(f) - 1) : i % 2 = 0 /\ f[i].name = n
     THEN Wired(f[1 + CHOOSE i \in 2..(Len(f) - 1) : i % 2 = 0 /\ f[i].name = n].snapshot)
     ELSE NoStructure]

-----------------------------------------------------------------------------
(* Commands.  One that is answered with an error, or only asks, changes    *)
(* nothing.                                                                *)

Refuse == thread = "idle" /\ UNCHANGED vars

Update(n, s) == /\ thread = "idle"
                /\ db' = [db EXCEPT ![n] = s]
                /\ lax' = IF s = NoStructure THEN lax \ {n} ELSE lax
                /\ UNCHANGED <<file, pending, thread, saved, answered>>

AddStructure(n, mode) ==
  LET ok == n # EmptyKey /\ mode \in Modes /\ n \notin NamesIn(db)
  IN  \/ /\ ~ok
         /\ Refuse
      \/ /\ ok
         /\ Update(n, EmptyStructure(mode))

(* Of the in-process interface: a structure that was made with a root is   *)
(* given a name, or one is removed; no command does either.                *)
AddRooted(n, s) == IF n # EmptyKey /\ n \notin NamesIn(db) THEN Update(n, s) ELSE Refuse

RemoveStructure(n) == n \in NamesIn(db) /\ Update(n, NoStructure)

(* A command on the structure n: its verdict and its effect.               *)
Change(n, verdict, next) ==
  IF n \in NamesIn(db) /\ verdict = "Ok" THEN Update(n, next) ELSE Refuse

AddNode(n, k, v) == Change(n, AddNodeVerdict(db[n], k), Insert(db[n], k, v))

AddNodeWithEdges(n, k, v, ps, cs) ==
  Change(n, AddNodeWithEdgesVerdict(db[n], k, ps, cs),
            InsertLinked(db[n], k, v, Range(ps), Range(cs)))

AddEdge(n, p, c) == Change(n, AddEdgeVerdict(db[n], p, c), AddChild(db[n], p, c))

Delete(n, k) == Change(n, DeleteVerdict(db[n], k), DeleteNode(db[n], k))

(* What the two queries answer for a structure that is there: the value of *)
(* a node, and every node with its value and its children.                 *)
GetNode(n, k) == IF k \in db[n].nodes THEN db[n].value[k] ELSE NoValue

(* Fault: the other set is listed.                                         *)
GetStructureParents(n) == [k \in db[n].nodes |-> [value |-> db[n].value[k],
                                                  children |-> db[n].parents[k]]]

GetStructure(n) == [k \in db[n].nodes |-> [value |-> db[n].value[k],
                                           children |-> db[n].children[k]]]

-----------------------------------------------------------------------------
(* Save: fs::write opens and truncates the file, writes, and only then is  *)
(* the command answered.                                                   *)

SaveOpens == /\ thread = "idle"
             /\ thread' = "saving"
             /\ file' = <<>>
             /\ pending' = Pieces(db)
             /\ saved' = db
             /\ answered' = FALSE
             /\ UNCHANGED <<db, lax>>

SaveWrites == /\ thread = "saving"
              /\ pending # <<>>
              /\ file' = Append(file, Head(pending))
              /\ pending' = Tail(pending)
              /\ UNCHANGED <<db, thread, lax, saved, answered>>

EndSave(response) == /\ thread = "saving"
                     /\ thread' = "idle"
                     /\ pending' = <<>>
                     /\ answered' = (response = "Ok")
                     /\ UNCHANGED <<db, lax, saved>>

SaveDone == pending = <<>> /\ EndSave("Ok") /\ UNCHANGED file

(* What is in the file when writing stops: whole pieces, and perhaps a     *)
(* part of the next.                                                       *)
CutOff == file' \in {file} \cup {Append(file, Torn) : p \in Range(pending)}

(* Fault: the result of the write is dropped.                              *)
SaveFailsUnnoticed == pending # <<>> /\ EndSave("Ok") /\ CutOff

SaveFails == pending # <<>> /\ EndSave("Error") /\ CutOff

(* The file cannot be opened.                                              *)
SaveRefused == Refuse

-----------------------------------------------------------------------------
(* The process ends, by Shutdown or a crash; what it had in memory is      *)
(* lost.                                                                   *)
Gone == /\ thread' = "down"
        /\ db' = NoStructures
        /\ pending' = <<>>
        /\ lax' = {}
        /\ UNCHANGED <<saved, answered>>

Shutdown == thread = "idle" /\ Gone /\ UNCHANGED file

Crash == thread # "down" /\ Gone /\ CutOff

StartEmpty == /\ thread = "down"
              /\ thread' = "idle"
              /\ UNCHANGED <<db, file, pending, lax, saved, answered>>

(* With --database, which may name any file; one that is not read ends the *)
(* process again.  Nobody looks at the semi-strict rule.                   *)
StartFrom(f) == /\ thread = "down"
                /\ Readable(f)
                /\ thread' = "idle"
                /\ db' = Loaded(f)
                /\ lax' = {n \in NamesIn(Loaded(f)) : ~NoneAlone(Loaded(f)[n])}
                /\ UNCHANGED <<file, pending, saved, answered>>

StartFromSnapshot == file # NoFile /\ StartFrom(file)

StartFromForeign == \E f \in Foreign : StartFrom(f)

Init == /\ db = NoStructures
        /\ saved = NoStructures
        /\ file = NoFile
        /\ pending = <<>>
        /\ thread = "idle"
        /\ lax = {}
        /\ answered = FALSE

Next == \/ \E n \in Names \cup {EmptyKey}, mode \in Modes \cup {"other"} : AddStructure(n, mode)
        \/ \E n \in Names, k \in Keys \cup {EmptyKey}, v \in Values :
              \/ AddNode(n, k, v)
              \/ \E ps, cs \in KeyLists : AddNodeWithEdges(n, k, v, ps, cs)
        \/ \E n \in Names \cup {EmptyKey}, s \in Rooted : AddRooted(n, s)
        \/ \E n \in Names : RemoveStructure(n)
        \/ \E n \in Names, p, c \in Keys : AddEdge(n, p, c)
        \/ \E n \in Names, k \in Keys : Delete(n, k)
        \/ SaveOpens \/ SaveWrites \/ SaveDone \/ SaveFails \/ SaveRefused
        \/ Shutdown \/ Crash
        \/ StartEmpty \/ StartFromSnapshot \/ StartFromForeign

Spec == Init /\ [][Next]_vars

-----------------------------------------------------------------------------
(* Loading finds out anew which structures have a node.                    *)
Repaired(d) == [n \in Names |-> IF n \in NamesIn(d)
                                THEN [d[n] EXCEPT !.hasFirst = d[n].nodes # {}]
                                ELSE NoStructure]

(* Whatever can be read is the database the last Save to open the file     *)
(* found in memory, whole: never a part of it, and nothing of an earlier   *)
(* one, however often writing was cut off.                                 *)
ReadableIsSaved == file # NoFile /\ Readable(file) => Loaded(file) = Repaired(saved)

(* A Save that was answered Ok can be started from, whatever happens, until *)
(* another Save opens the file.                                            *)
AnsweredSaveIsReadable == answered => Readable(file)

(* The structure a client imagines behind the answer to GetStructure, which *)
(* tells neither parents, nor the mode, nor whether a first node is there. *)
Imagined(answer, mode) ==
  LET in(k) == k \in DOMAIN answer
  IN  [EmptyStructure(mode) EXCEPT
         !.nodes = DOMAIN answer,
         !.hasFirst = DOMAIN answer # {},
         !.value = [k \in Keys |-> IF in(k) THEN answer[k].value ELSE NoValue],
         !.children = [k \in Keys |-> IF in(k) THEN answer[k].children ELSE {}],
         !.parents = [k \in Keys |-> {p \in DOMAIN answer : k \in answer[p].children}]]

(* From the answer alone a client foresees every query and the verdict on  *)
(* every link, whatever it takes the mode to be.  To foresee deletions and *)
(* nodes without links it must know the mode from elsewhere, as whoever    *)
(* made the structure does, and the structure must not come from a file    *)
(* that breaks the semi-strict rule: then the flag need not be what the    *)
(* client imagines.                                                        *)
AnswersForeseen == \A n \in NamesIn(db), mode \in Modes :
  LET s == Imagined(GetStructure(n), mode)
  IN  /\ \A k \in Keys : GetNode(n, k) = s.value[k]
      /\ \A p, c \in Keys : AddEdgeVerdict(db[n], p, c) = AddEdgeVerdict(s, p, c)
      /\ \A k \in Keys, ps, cs \in KeyLists : ps # <<>> \/ cs # <<>> =>
           AddNodeWithEdgesVerdict(db[n], k, ps, cs) = AddNodeWithEdgesVerdict(s, k, ps, cs)
      /\ mode = db[n].mode /\ n \notin lax => \A k \in Keys :
           /\ AddNodeVerdict(db[n], k) = AddNodeVerdict(s, k)
           /\ DeleteVerdict(db[n], k) = DeleteVerdict(s, k)

=============================================================================
