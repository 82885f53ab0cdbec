------------------------------ MODULE Snapshot ------------------------------
(***************************************************************************)
(* A structure with its snapshot file: the operations of Structure.tla,    *)
(* save_to_file and load_from_file.  The program makes a new structure and *)
(* has no file, or it begins with a file that may come from anywhere; then *)
(* it saves, goes back to what it saved, and works on, in any order.       *)
(***************************************************************************)
EXTENDS Structure, SnapshotOps

CONSTANTS Files,    \* the files of unknown origin
          NoFile    \* there is no file

ASSUME FilesAssumption == Files \subseteq Snapshots /\ NoFile \notin Snapshots

VARIABLES file,     \* what the snapshot file holds
          loaded,   \* does the program have a structure?
          lax       \* was the structure loaded from a file that breaks the semi-strict rule?

snapshotVars == <<vars, file, loaded, lax>>

Work == loaded /\ Next /\ UNCHANGED <<file, loaded, lax>>

SaveToFile == /\ loaded
              /\ file' = ToBytes(store)
              /\ reply' = "Ok"
              /\ UNCHANGED <<store, loaded, lax>>

(* A file that is refused leaves the caller with an error and with the     *)
(* structure it had, if any.                                               *)
LoadFromFile == /\ file # NoFile
                /\ \/ /\ LoadVerdict(file) = "Ok"
                      /\ store' = Wired(file)
                      /\ reply' = "Ok"
                      /\ loaded' = TRUE
                      /\ lax' = ~NoneAlone(Wired(file))
                   \/ /\ LoadVerdict(file) # "Ok"
                      /\ reply' = "Refused"
                      /\ UNCHANGED <<store, loaded, lax>>
                /\ UNCHANGED file

SnapshotInit == /\ lax = FALSE
                /\ \/ Init /\ file = NoFile /\ loaded = TRUE
                   \/ /\ store = EmptyStructure("un-strict")
                      /\ reply = "Ok"
                      /\ file \in Files
                      /\ loaded = FALSE

SnapshotNext == Work \/ SaveToFile \/ LoadFromFile

SnapshotSpec == SnapshotInit /\ [][SnapshotNext]_snapshotVars

-----------------------------------------------------------------------------
(* At any time the structure can be saved and loaded without a loss: both  *)
(* sides of every link, the values, the root and the mode; the flag comes  *)
(* back right even where it was wrong.                                     *)
RoundTrips == /\ LoadVerdict(ToBytes(store)) = "Ok"
              /\ Wired(ToBytes(store)) = [store EXCEPT !.hasFirst = store.nodes # {}]

(* Going back to an earlier snapshot at any time, or beginning with a file *)
(* of unknown origin, and working on from there keeps everything a         *)
(* structure relies on.  The semi-strict rule is not looked at on loading, *)
(* so a file that breaks it costs the rule, and the flag with it: deleting *)
(* one of two lone nodes clears the flag.                                  *)
LoadedWorksOn == WellFormed(IF lax THEN [store EXCEPT !.mode = "un-strict",
                                                      !.hasFirst = store.nodes # {}]
                                   ELSE store)

(* A file that is accepted, whoever wrote it, gives a structure whose      *)
(* links agree, stay inside and have no cycle, with a live root and an     *)
(* exact flag.                                                             *)
AcceptedIsSound ==
  file # NoFile /\ LoadVerdict(file) = "Ok" => Sound(Wired(file))

SameRecord(r, t) == /\ r.key = t.key
                    /\ r.value = t.value
                    /\ Range(r.parents) = Range(t.parents)
                    /\ Range(r.children) = Range(t.children)

SameContent(f, g) ==
  /\ f.root = g.root
  /\ f.mode = g.mode
  /\ Len(f.nodes) = Len(g.nodes)
  /\ \A r \in Range(f.nodes) : \E t \in Range(g.nodes) : SameRecord(r, t)

(* Only the children of a file are wired; yet nothing of an accepted file  *)
(* is lost, its lists of parents included: saving it again writes the same *)
(* records.                                                                *)
AcceptedIsComplete ==
  file # NoFile /\ LoadVerdict(file) = "Ok" => SameContent(file, ToBytes(Wired(file)))

=============================================================================
