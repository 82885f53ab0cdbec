# MapRootDb: a verification development

MapRootDb (`src/`) is an in-memory database of named directed acyclic graphs of
typed values, with whole-database snapshots and a localhost TCP server.  This
directory models it in TLA+, checks the models with TLC on small instances and
proves theorems about them with TLAPS for all instances.

Paths below are relative to the repository root, which is `src/` here: the crate
is in `src/src/`.

## The system

| Part | Where | State | Operations |
| --- | --- | --- | --- |
| Node handles | `src/src/node.rs` | `Rc<RefCell<Node>>`: key, value, set of parents, set of children | `new`, `edit_value`; inside the crate `add_child`, `delete_node`, (de)serialization |
| Structure | `src/src/structure.rs` | `root`, `nodes` by key, `mode`, `has_first_node`; the links live in the nodes | `try_new`, `add_node`, `add_node_with_edges`, `add_edge_by_key`, `delete_node_by_key`, `find_node_by_key`, `to_bytes`/`from_bytes` |
| Path search | `has_path`, `contains_cycle` in `src/src/structure.rs` | a worklist and a visited set | one search |
| Database | `src/src/database.rs` | structures by name | add, get, remove, `save`, `load` |
| Command execution | `execute` in `src/src/server.rs` | none of its own | one command on the database |
| Server | `start_on_listener`, `handle_connection` in `src/src/server.rs` | a command channel, a `stopping` flag, one reply channel per command, sockets | accept, read, queue, execute, answer, stop |
| Wire protocol | `src/src/protocol.rs` | none | length-prefixed frames of at most 8 MiB |
| Binary | `src/src/main.rs` | none | command line, Ctrl+C, demo client, process exit |

How they interact.  One thread owns the database, because its nodes are `Rc`s.
The listener thread polls a non-blocking socket every 10 ms and starts a thread
per connection.  A connection thread reads one command, sends it with the sending
end of a fresh reply channel to the database thread, waits for the reply without a
timeout, and writes it.  `Shutdown` ends the database loop; the server then sets
the flag, joins the listener thread and returns, which drops the command channel.
Connection threads are never joined.  Ctrl+C is a client: its handler connects to
the server's own socket and sends `Shutdown`.  The `demo` command runs the server and
a client of it on two threads and waits for both.  In-process users call `Structure`
and `Database` directly, on one thread, and may keep `NodeRef`s to any node.

What is hard: keeping each link in two places; deciding cycles and the
semi-strict rule locally; a flag that caches emptiness; the end of the server,
where a queue, two kinds of threads, a flag and the process exit meet; and
snapshots, which are written in place and read back from untrusted bytes.

What makes each part correct:

* Structure: links agree at both ends and stay inside, no cycle, live root, exact
  flag, no unrelated node in semi-strict mode; a call is accepted exactly when the
  graph that results is allowed, and otherwise changes nothing.
* Path search: ends, and answers exactly, in whatever order children come.
* Server: each command executed once, in its connection's order, answered in
  order; nothing executed after `Shutdown`; no thread waits for ever; `Shutdown`
  and Ctrl+C end the server.
* Node handles: looking a node up by key and walking the links meet the same objects.
* Wire protocol: frames arrive whole, once and in order, however reads and writes
  break; the writer's and the reader's limits agree.
* Snapshots: what was saved loads back unchanged; a torn or inconsistent file is
  refused; a `Save` that was answered `Ok` can be started from.
* Binary: Ctrl+C ends it, and the demo ends, neither of which the code keeps in every case
  (see the findings); the demo reports success only when all of its script was answered.

## Modules

Operators and actions have the names of the Rust functions they stand for wherever
TLA+ allows it; `PROJECT.json` gives the lines of each.

| Module | Models | State and actions |
| --- | --- | --- |
| `StructureOps` | the data of a structure and each operation as an operator from a structure to a verdict or to the next structure | no state; a structure is a record with the four fields of `Structure` and the values and links of its nodes, by key |
| `Structure` | one structure under any sequence of calls | `store`, `reply`; one action per public operation, each of which computes its verdict and changes `store` only when the verdict is `Ok` |
| `DagStore` | what a structure promises: a set of vertices, a set of edges, values, a root, a mode | one action per accepted call, guarded by what the *resulting* graph is, not by any link or search |
| `PathSearch` | the loop of `has_path` | the worklist, the visited set and the answer; one action per branch of the loop, the order in which a hash set yields children being any |
| `SnapshotOps` | what `to_bytes` writes and what `from_bytes` accepts and builds | no state; a file is a root, a mode and a list of node records |
| `Snapshot` | a structure with its file | `Structure`'s actions, `SaveToFile`, `LoadFromFile`; the program makes a structure, or begins with a file of unknown origin |
| `NodeHeap` | several structures as they lie in memory | a map from keys to node objects for each structure, and the two sets of every object, hashed by key; handles that outlive a deletion, and nodes passed to two structures |
| `Database` | the commands of `execute`, `Save`, crashes, and starts with nothing, with what was saved, or with any file | named structures, a file as a sequence of pieces, the pieces still to be written, which structures came from a file that breaks the semi-strict rule; queries as operators |
| `Server` | listener, connection threads, database thread, clients | the channel, the reply channels, the flag, a program counter per thread |
| `Process` | the binary around `Server`: `serve`, `demo`, Ctrl+C, process exit | adds the process and the demo's client thread with its script |
| `Lengths` | the length in front of everything that is written | no state |
| `Framing` | `write_frame` and `read_frame` over a stream that hands over any number of bytes at a time | the bytes written, on the wire and in hand; writer and reader |
| `FrameChannel` | what a direction of a connection promises, without bytes | frames in flight and received |
| `Fields` | how `Database::load`, `Structure::from_bytes` and `deserialize_node` split bytes into fields, and how they are written | an offset into the bytes, the fields read, how many are left |
| `MCStructure`, `MCSnapshot`, `MCNodeHeap`, `MCDatabase`, `MCLoops` | instances for TLC | bounds and symmetry; `MCLoops` runs `PathSearch`, `Framing` and `Fields`, one at a time |
| `StructureLemmas`, `SnapshotLemmas` | lemmas about `StructureOps` and `SnapshotOps` | about operators only, so that every module with structures in it can use them |
| `StructureProofs` | theorems about `Structure` and `Snapshot` | |
| `PathSearchProofs` | theorems about `PathSearch` | |
| `DatabaseProofs` | theorems about `Database` | |
| `NodeHeapProofs` | theorems about `NodeHeap` | |
| `ServerProofs` | theorems about `Server` and `Process` | |
| `CodecProofs` | theorems about `Lengths`, `Framing` and `Fields` | |

How they fit together:

```text
 graphs    DagStore <-- implements -- Structure     (the search in it: PathSearch)
           DagStore <-- implements -- NodeHeap, each of its structures
               Structure + file = Snapshot,  structures + file = Database
 server    Process = the binary around Server;  a command of Database is an
               entry of Server's log
 bytes     FrameChannel <-- implements -- Framing;  a frame is in Server's inbox
           Fields:  a piece of Database's file, or of Snapshot's, is a field
```

Operators whose comment begins with "Fault" are not part of a model: each is a
modelled definition with a likely mistake in it.  `PROJECT.json` pairs every
property with one of them that violates it.

### What is abstracted, and why that loses nothing the properties need

* **A call is one step** in `Structure`, `NodeHeap` and `Database`: the library is
  single-threaded (`NodeRef` holds an `Rc`) and one thread owns the server's
  database.  `PathSearch` opens up the one loop whose end is not obvious.
* **Keys instead of node objects** in `Structure`.  `NodeHeap` has the objects and
  shows that keys are enough, in several structures at once, as long as callers pass
  only nodes that have no links and are in no structure.  When they do not, see the
  findings.
* **Values** are compared for equality only.  `NodeHeap` leaves them out.
* **Paths** are defined by closed sets: there is a path when every set of keys that
  holds the start and is closed under children holds the target.  It needs no
  recursion, and `PathSearch` shows that the code's search computes it.
* **Bytes**: in `Framing` and `Fields` a length is little-endian digits of any base and
  width (in the code 256 and 8), a payload or a field any digits, of which some
  deserialize; what `bincode` makes of one field is external.  Above them a snapshot is a
  list of records and a database file a list of length-prefixed pieces.  A piece that is
  cut off is `Torn`, which the length in front of it reveals: `CutOffIsRefused` is the
  fact about bytes behind it.  The order in which nodes and relations are sorted is
  some fixed order.
* **Threads of the server**: a read and the send on the channel are one step, and so
  are the receipt of a reply and its write, because nothing shared is touched in
  between.  A command's effect is its place in the log: `Server` is about which
  commands are executed, in which order, and who is told.  A frame is in an inbox or
  not: that frames arrive whole and in order is `Framing`'s subject.  A command is
  "large" when its reply exceeds a frame.  The demo begins with an empty database, so
  one of its own can only be large after another client's command has filled what the
  demo made (`Filled`).
* **Time**: a read timeout may strike whenever nothing has arrived.  A connection
  thread waiting for its *reply* has no timeout in the code and none in the model.

## Runs

| Run | Question | Bounds and why they are enough |
| --- | --- | --- |
| `structure` | Do links, root, flag and mode survive every sequence of calls, is every verdict the one the resulting graph deserves, and has every call exactly the effect the abstract store gives it? | Four keys, one value, lists of up to two keys, symmetry over keys: four nodes are the fewest with two separate pairs and with a diamond, two keys in a list the fewest that can repeat or be two parents |
| `node_heap` | Is each of several structures of linked objects the structure of its keys, undisturbed by the others? | Three keys, two structures, two objects for two of the keys and one for the third, so that both structures can hold an equal key and an old node can be replaced in one of them |
| `reused_node_cycle` | Are cycles refused when a deleted node is inserted again? **Violated**: see the findings | One structure, two keys, two objects each, any handle may be passed again |
| `shared_node_save` | Can everything that saves be loaded when a node is passed to two structures? **Violated** | Two structures, otherwise as above |
| `snapshot` | Does a saved structure load unchanged, can work go on from an earlier snapshot, and what does a load accept of a file nobody vouches for? | Three keys, lists of one key, roots, both modes, saving and loading between any two calls; all files of up to two nodes over two keys, with repeated, disagreeing and dangling lists and empty or repeated keys, and all linkings of three nodes, so that a cycle can be longer than a mutual link |
| `database` | What can be started from after crashes and failed saves?  What does the answer to a query tell a client of later commands, when the database may come from any file? | Two names, two keys, a structure with a root; a save is cut off after any piece or inside it; any number of saves, crashes and restarts.  Foreign files with two lone nodes, with a link only one side lists, with a wrong count and with an empty name; a process that was started with lone nodes has no other structure (`LaxAlone`) |
| `loops` | Does the path search end, answer exactly and bound its worklist?  Do frames and files survive reads and writes that break anywhere, and are foreign and cut-off bytes refused? | Every graph of four keys without self-links, cyclic ones and ones that leave the structure included, every pushing order, from one key to itself and to another, which is all there is up to renaming.  Base 6, two digits a length, frames of up to two digits and a payload one longer, three frames, so that one is begun after another has been cut into pieces; foreign streams of up to six digits; files of up to eight digits, which is two entries, and every cut and every altered digit of files with four fields |
| `server` | Order, answers, shutdown and the end of every thread, in a process that lives on | Two clients of two frames each, so that commands of two connections interleave and one pipelines; edits, `Shutdown`, frames that do not decode; accept and set-up failures |
| `process` | Does Ctrl+C end the binary?  Is what the demo reports true, does it wait for its answers, and does its Shutdown end it? | The handler, the demo with a script of two commands, and another client, three frames each; replies too large for a frame, failing writes, clients that cannot connect.  Errors of accepting are the question of `ctrlc_after_accept_error`, and errors of the handler's own socket are left out (see the findings) |
| `demo_large_reply` | Does the demo always end? **Violated** | Another client, no faults |
| `ctrlc_after_accept_error` | Does Ctrl+C end the binary when accepting may fail? **Violated** | One frame a client, an empty script |
| `shutdown_reply` | Is the client that sends `Shutdown` told? **Violated** | One client, no failures |

`CHECK_DEADLOCK FALSE` stands where the program ends: a search with an answer, a
server or a process that has ended, a file or a stream that has been read.  Named bounds
are `MaxList` (the longest list of keys passed), `MaxFrames` (frames a client sends),
`MaxWrites` (frames a writer begins), `MaxForeign` and `MaxSource` (the longest stream and
file of unknown origin), `ScriptLength` (the demo's commands), `Rooted` (structures a
caller makes with a root), `Files` and `Foreign` (the snapshots and database files of
unknown origin), and `LaxAlone`, a constraint of the run `database`; nothing else is cut off.  `Faults` names the errors the
environment may make: `accept`, `setup` (of an accepted socket), `write`, and `connect` and
`handler` (a client, or the Ctrl+C handler, fails to connect or to set up its socket).

**Fairness.**  `Server`, `Process`, `PathSearch` and `Framing` claim that something happens.
The search runs on one thread, so its step is weakly fair.  In the server each thread
runs (weak fairness of the listener, of each connection thread, and of the database
thread, whose `execute` always returns); a read that waits too long times out, which is
a step of the connection thread; and the Ctrl+C handler sends its one command after it
has connected.  In the process, in addition, the demo's client runs, because it computes
and waits for nothing but the server's answers, and `main` returns once the threads it
joins have ended.  In `Framing` only the reading thread is fair: whether the writer goes
on, stops half-way or leaves is open.  Clients of the server promise nothing: they may
stay silent, stop reading, or leave.  A client that sends a frame byte by byte postpones
the timeout, but a frame is at most 8 MiB long.

## What is proved

TLAPS checks these for every value of the constants (`Keys` finite where a search or a
snapshot is involved):

* `StructureProofs`: `TypeCorrect`, `LinksCorrect`, `NeverCyclic`, `BookkeepingCorrect`,
  `NoLoneNode`, `VerdictsAreExact`, `Refinement` (a `Structure` implements `DagStore`), and
  `NeverBelowTwo`.  Of `Snapshot`: `SaveLoadsBack`, `LoadedIsSafeToWorkOn`, `AcceptedSoundly`,
  `AcceptedCompletely`.
* `PathSearchProofs`: `Frontier`, `Exact`, `Bounded`.
* `DatabaseProofs`: `ReadIsWhole`, `AnsweredIsReadable`, `AnswerForesees`.
* `NodeHeapProofs`, when callers pass each node once (`~PassesAgain`): `LinksStayInside`,
  `ObjectsAnswerByKey`, and `ObjectsImplementStore` (each structure in memory implements
  `DagStore`).
* `ServerProofs`: `InOrder`, `AnswersCount`, `ShutdownLast`, and, when `Dependable` holds
  (writes do not fail and replies fit into a frame; the process outlives the server),
  `AnswersFirst`.  Of the binary, with failing writes and large replies: `SuccessIsMeant` and
  `DemoHearsAll`.
* `CodecProofs`, for every base, number of digits, payload and file: of a connection
  `BytesAreAccountedFor`, `CutOffFrameIsLost`, and `FramingImplementsChannel` (a byte stream
  implements `FrameChannel`); of a file `AcceptedFilesAreExact`, `WrittenFilesAreAccepted` and
  `CutOffFilesAreRefused`.  They are about `FramingSpec` and `FileSpec`; the run `loops` checks
  the same properties of both.

What they assume of the constants is stated as a named `ASSUME` in the module that declares
them.  The ones worth knowing: no key is empty or the mark of a missing root (`try_new`
and the insertions refuse the empty key), no name of a structure is empty, there is a value,
snapshots are finite sequences of records, a database file of unknown origin is a finite
sequence of a count, then names and snapshots in turn, any of which may be torn,
the demo's connection is not the handler's, and every payload, field, file and
number of fields fits into a length (`usize` is as wide as the `u64` that is written).  `~PassesAgain` is a hypothesis, not an
assumption: without it the two findings about nodes passed again apply.

**Structure.**  No invariant of the list is inductive alone: that a deletion leaves no
link behind needs that links are mirrored, because `delete_node` finds the neighbours in
the deleted node's own sets; the flag after a semi-strict deletion of an isolated node
needs that an isolated node is the only one; that a new edge closes no cycle needs
that the search meets every node a link leads to, so that links stay inside.
Their conjunction, `WellFormed`, is inductive.  `StructureLemmas` shows for every
operator which fields it changes, which links result, and that it preserves
`WellFormed` when its verdict is `Ok`; `StructureProofs` assembles the steps.
Acyclicity is stated without paths: every non-empty set of keys has a member none of
whose children is in the set.  If a new edge from p to c broke it for some set, the set of
the members from which p can be reached would break it already, because the search
found no path from c to p.  The same argument, from a node between its parents and
its children, covers `add_node_with_edges`.  The refinement uses `WellFormed` at each
step to turn a verdict into a guard of `DagStore`.

**Path search.**  The invariant says that everything visited or pending can be reached
from the start, that every successor of a visited key is visited or pending, and that
the target is not visited.  When nothing is pending the visited keys are closed and hold
the start but not the target, which refutes the path; a target that is popped can be
reached.  `WorklistBounded` is proved on top: each key is expanded once, and adds at
most its own links to the worklist.

**Server.**  `ExecutedInOrder` says nothing of the frames that are not executed yet, so
it is not inductive.  A frame is at any time in its connection's inbox, in the queue, in
the log with its answer still to be written, or in the log and answered.  The invariant
`Inv` says that for each connection these are consecutive stretches of the frames sent:
the inbox continues where the thread has stopped reading (`InboxNext`, `SentAll`), a
queued command is its connection's next one and the only one queued (`QueuedNext`,
`QueuedOnce`), a reply in the channel answers the next one (`ReplyNext`), and every
executed command is answered, or is the last of a connection that waits or is closed
(`LogKept`).  That only one command per connection is in flight is what makes the i-th
answer the answer to the i-th command.  Most actions move no frame and are dealt with at
once by `QuietKeeps`.  `AnswersFirst` adds that a thread with a reply in hand closes only
after it has written it, `ClosedHow`.

**Binary.**  Every step of `Process` keeps the server's `Inv`: the demo's client takes steps of a
client, its leaving and the process exit are quiet.  `ProcessInv` adds what ties the
demo's client to its connection.  `ScriptKept`: while nothing went wrong, the frames of the demo
that are anywhere in the server are its script, and a `Shutdown` is exactly the frame after
it, so that a second one is never sent (`ShutdownOnce`).  `DemoLinked`: the client leaves only when
all it sent is answered or its connection is closed or was never made.  `LeftAnswered`: neither
that client nor its thread ends on a command that was executed and fits into a frame.  It
needs the others, because a write to a client that has gone may fail.  `DemoIsAnswered` is
`LeftAnswered` at the exit, which waits for the client; that the exit need not wait for connection
threads is the point, and for the client of `serve` the same is refuted (`ShutdownIsAnswered`).

**Snapshots.**  A file of unknown origin may break the semi-strict rule, so `WellFormed` is not
invariant.  What is left of it, `Coherent`, is, and `SnapshotInv` says that it holds always and
`WellFormed` until such a file was loaded.  The lemmas about `WellFormed` carry over because a
structure with the mode set to un-strict and the flag put right, `Relaxed`, has the same
paths and accepts at least what the structure itself accepts.  `AcceptedSound` shows that the
checks of `from_bytes` suffice for any file.  The last one looks for a path back from every
child; that it misses no cycle is a counting argument (`CycleFound`): of a set that violates
`NoCycle`, take a node from which fewest keys can be reached; it has a child in the set, and
without a path back fewer can be reached from that one.  The least number (`NatMin`) stands in
for induction.  `RoundTrip` goes the other way: what is written of a coherent structure passes every check and gives the same
structure.

**Database.**  `DatabaseInv` says where a `Save` is: the file is the first pieces of the database it
found and the rest is pending; afterwards, however it ended, the file is a beginning
of those pieces, perhaps with a torn one.  `OnlyWholeIsReadable` shows that of all beginnings only
the whole can be read, because the first piece is the count of what follows, and
`PiecesReadable` that the whole gives back the database.  A structure may come from a file
that breaks the semi-strict rule, as in `Snapshot`, so that `DatabaseInv` has `Coherent` of every
structure and `WellFormed` only of those that did not (`lax`).  The flag of a lax structure
can be wrong, and loading puts it right (`Repaired`).

`AnswersForeseen` is about what a client can know.  The answer to GetStructure lists children
only, neither parents nor the mode nor the flag.  Mirrored links make up for the
parents (`AnswerTells`); the root decides no verdict, and neither mode nor flag decides one on a
link (`WhatDecides`).  So the answer alone foresees every query, `AddEdge`, and
`AddNodeWithEdges` with a relation.  Deletions and nodes without relations depend on
the mode, which no query tells but whoever made the structure knows, and on the flag, which
is "not empty" unless the structure came from a file that breaks the rule.  Without either
condition the property is false.

**Node handles.**  `HeapInv` says that no object is held twice, that a structure holds each object
under the object's own key, that the neighbours of an object it holds are objects it
holds (`Laid`), and that what can be seen of it by key, `View`, is `WellFormed`.  `Laid` makes the
sets of objects and the sets of their keys the same, and is what a deletion must
keep: it removes the object from its neighbours' sets, which it finds by walking links, while
the map is changed by key.  Each operation is shown to do to the view what `Structure`'s
operator does, and to the views of the other structures nothing, because they share no object
(`OneStructure`).  The refinement of `DagStore` then follows from the same lemmas as that of
`Structure`, which is why those are about operators and not about its variable.

**Bytes.**  The facts about numbers and sequences need induction, and the library's induction
theorems take an operator, which these provers cannot supply.  `Induct` takes a *set* of numbers
instead and follows from its least element; `Iteration` shows with it that recursive
functions exist, and from there the lemmas go on as usual.  A length that is
written reads back, and digits that were read are what is written of the length
(`LengthReadsBack`, `LengthWritesBack`), so that different lengths differ in some digit and
a length in front makes reading unique: if as many frames, followed by anything, give the same
bytes, they are the same frames, followed by the same (`FramedCancel`, `FramesCancel`).

`FramingInv` says that delivered frames, what is in hand and what is on the wire are what was
handed over, and that this with what is unsent is the frames that were begun.
`BytesAreAccountedFor` is its first half.  The refinement needs both, since only they show
that a payload that is complete is the next one begun (`NextBegun`): the reader sees digits,
and that it has found the border between two frames is the point.  `CutOffFrameIsLost`
follows by counting bytes.

`FileInv` says that the bytes before the offset are the fields that were read, written again, with
the count between the head and the entries, and that of a written file they are the
beginning of the list that was written (`ReadSoFar`, `FollowsWriter`).  At the end of the bytes the first is
`AcceptedIsExact`.  The second is `WrittenIsAccepted`: no refusal applies to a written file,
neither the one for bytes that end too soon nor the plausibility check of the count, since
every entry takes at least as many bytes as the check supposes (`FramesLength`).  For
`CutOffIsRefused` take a file that was cut off and accepted: it is then exactly what is written of the
fields read, the whole is the same fields and something more, and the count, or the fixed
number of fields of a node, leaves no room for more (`NoneContinues`).

**Model-checked only.**  Liveness (`Terminates`, `RequestsResolved`, `ShutdownReturns`,
`ThreadsEnd`, `CtrlCStops`, `DemoStops`, `WrittenArrives`) and `ENABLED` are beyond the
prover.  The properties of runs that are expected to be violated are refuted by them.  All
other properties of the runs are proved.

## Findings

* `CyclesRejected`: with `a -> b`, delete `a` and pass the same `NodeRef` to
  `add_node_with_edges` with parent `b`.  The deleted node has kept its own sets, the
  check looks at the listed keys only, and the structure now holds `a -> b -> a`.
* `SavedLoads`: a `NodeRef` may be given to two structures, which then share its links.
  A child linked to it in the one is a child in the other, where no such node exists;
  saving the other succeeds and the snapshot is refused on loading.
* `CtrlCStops`: any accept error but `WouldBlock` ends the listener thread, while the
  server goes on for the connections it has.  Ctrl+C works by connecting to the
  listener, so it does nothing any more.
* `ShutdownIsAnswered`: connection threads are detached, and the process may exit
  before the answer to `Shutdown` is written.  The client example treats that as an
  error.
* `DemoTerminates`: `run_demo` waits for the server, which only a `Shutdown` ends, and only
  the demo's client is sure to send one.  If another client has filled the demo's
  structure, the answer to the demo's GetStructure exceeds a frame; the server closes
  the connection, and the demo's `Shutdown` fails on it.  The demo goes on serving,
  without a word of the error.  With `connect` among the faults there is a shorter way:
  if connecting or `set_nodelay` fails (`src/main.rs:121-122`), the client returns before it
  tries `Shutdown`.

Beside them, without a run:

* The comment at `src/structure.rs:172` says that the last node of a semi-strict
  structure cannot be deleted; the code, a later comment and a test say that it can.
* `from_bytes` does not look at the semi-strict rule, which `README.md:74` states for
  insertions, so a file with two lone nodes is accepted.  Deleting one of them clears
  `has_first_node` (`src/structure.rs:197`) while the other is still there, after which an
  unrelated node is accepted.  No call can write such a file, but `--database` takes any;
  `Snapshot` and `Database` have it among their files, and `lax` marks what follows.
* A Ctrl+C handler that cannot connect, or set its socket up, has no effect
  (`src/main.rs:253-256`, the fault `handler`): `CtrlCStops` is checked without it.
* `README.md:19` promises rejection of trailing snapshot data.  That holds between fields
  (`AcceptedIsExact`); within a field it is up to `bincode::deserialize`, which in version
  1 ignores bytes after the value.

## Not modelled, and why

* What `bincode` makes of one payload or field: a library, external here.  `Framing` and
  `Fields` take the set of byte sequences that deserialize as a constant.
* The command line: a pure function of its arguments, with unit tests.  `bind_loopback` and the
  address checks likewise: they decide once, before there is any state.
* `edit_value` on a node that two structures share, and values in `NodeHeap` in general:
  there is one value per object and one statement that sets it.
* A `RefCell` that is borrowed while the library changes it: the call panics half-way, and
  only a caller that catches the panic could see what is left.
* Power loss: `fs::write` does not sync, so nothing can be said of the file after it.
* Memory: two linked nodes own each other and are never freed (the README says so).

## Plan

Done, in this order: `StructureOps`, `Structure`, `DagStore` and their proofs;
`PathSearch` and its proofs; `Server` and its proofs; `SnapshotOps`, `Snapshot`; `NodeHeap`;
`Database`; `Lengths`, `Framing`, `FrameChannel`, `Fields`; `Process`; the proofs about `Snapshot`,
`Database`, `NodeHeap` and `Process`; the proofs about `Lengths`, `Framing` and `Fields`.  Nothing
else of the program has state that is not modelled, and of what the passing runs check only
liveness is without a proof.
