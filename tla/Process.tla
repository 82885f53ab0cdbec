------------------------------ MODULE Process -------------------------------
(***************************************************************************)
(* The binary (src/src/main.rs) around the server of Server.tla.  "serve"  *)
(* may load a snapshot, turns Ctrl+C into one more client and ends when    *)
(* the server returns.  "demo" runs a client of its own on a second        *)
(* thread, which works through a script one command at a time and then, if *)
(* it is connected still, sends Shutdown; it ends when both threads have.  *)
(* Other clients may come and go in either.                                *)
(***************************************************************************)
EXTENDS Server

CONSTANTS Demo,           \* the connection of the demo's client
          ScriptLength    \* the commands before its Shutdown

ASSUME ProcessAssumption ==
  /\ Demo \in Conns \ {CtrlC}
  /\ ScriptLength \in Nat
  /\ ScriptLength < MaxFrames
  /\ {"edit", "shutdown"} \subseteq Kinds

VARIABLES action,    \* "serve" or "demo"
          process,   \* "starting", "running", "ended", or "failed" to start
          demo       \* the demo client: "script", "failing", "ok" or "failed"

processVars == <<vars, action, process, demo>>

Others == Conns \ {CtrlC, Demo}

ProcessInit == /\ Init
               /\ action \in {"serve", "demo"}
               /\ process = "starting"
               /\ demo = "script"

(* The arguments are wrong, the snapshot does not load, or the address     *)
(* cannot be bound; otherwise the socket listens before anyone connects.   *)
Start == /\ process = "starting"
         /\ process' \in {"running", "failed"}
         /\ UNCHANGED <<vars, action, demo>>

Running == process = "running"

Quietly == UNCHANGED <<action, process, demo>>

-----------------------------------------------------------------------------
(* The demo's client thread.                                               *)

Demonstrates(step) == /\ Running
                      /\ action = "demo"
                      /\ demo \in {"script", "failing"}
                      /\ step

(* TcpStream::connect; an error ends the client, see DemoIsCutOff.         *)
DemoConnects == Demonstrates(Connect(Demo)) /\ Quietly

AllAnswered == Len(written[Demo]) = sent[Demo]

ScriptDone == sent[Demo] >= ScriptLength

(* The demo begins with an empty database: an answer exceeds a frame only  *)
(* if another client has filled what the demo has made.                    *)
Filled == \E i, j \in DOMAIN log : /\ i < j
                                   /\ log[i].conn = Demo
                                   /\ log[j].conn # Demo /\ log[j].kind = "edit"

(* The next command goes out when the answer to the last one was expected. *)
DemoSends == \E kind \in Kinds \ {"shutdown", "bad"} :
               /\ kind = "large" => Filled
               /\ Demonstrates(Send(Demo, kind))
               /\ demo = "script"
               /\ AllAnswered
               /\ ~ScriptDone
               /\ Quietly

(* An answer is not the expected one: another client was at work, or the   *)
(* snapshot could not be written.                                          *)
DemoIsSurprised == /\ Demonstrates(UNCHANGED vars)
                   /\ demo = "script"
                   /\ AllAnswered
                   /\ sent[Demo] \in 1..ScriptLength
                   /\ demo' = "failing"
                   /\ UNCHANGED <<action, process>>

ShutdownAnswered == log # <<>> /\ \E i \in Range(written[Demo]) : log[i].kind = "shutdown"

(* Whatever went wrong before, Shutdown is tried on the same connection.   *)
DemoSendsShutdown == /\ Demonstrates(Send(Demo, "shutdown"))
                     /\ AllAnswered
                     /\ ~ShutdownAnswered
                     /\ demo = "failing" \/ ScriptDone
                     /\ Quietly

DemoLeaves(outcome) == /\ demo' = outcome
                       /\ client' = [client EXCEPT ![Demo] = "gone"]
                       /\ UNCHANGED <<sent, inbox, connVars, listener, stopping, dbVars>>
                       /\ UNCHANGED <<action, process>>

(* Fault: the result of the Shutdown is the result of the demo.            *)
DemoEndsWithShutdown == /\ Demonstrates(AllAnswered)
                        /\ ShutdownAnswered
                        /\ DemoLeaves("ok")

(* result.and(shutdown)                                                    *)
DemoEnds == /\ Demonstrates(AllAnswered)
            /\ ShutdownAnswered
            /\ DemoLeaves(IF demo = "script" THEN "ok" ELSE "failed")

(* The connection ends where an answer was to come, could not be made, or  *)
(* could not be set up; the last two errors return from run_demo_client    *)
(* before it tries Shutdown.                                               *)
DemoIsCutOff == /\ Demonstrates(~ShutdownAnswered)
                /\ \/ client[Demo] = "gone"
                   \/ client[Demo] = "connected" /\ phase[Demo] = "closed"
                   \/ /\ ClientFault(Demo)
                      /\ client[Demo] = "connected" /\ sent[Demo] = 0
                /\ DemoLeaves("failed")

DemoStep == DemoConnects \/ DemoSends \/ DemoIsSurprised \/ DemoSendsShutdown
              \/ DemoEnds \/ DemoIsCutOff

-----------------------------------------------------------------------------
(* The other threads.  The demo's client answers at once, so that neither  *)
(* a read from it nor a write to it runs out of time.                      *)

OthersStep == \/ \E c \in Others : \/ Connect(c) \/ Leave(c)
                                   \/ \E kind \in Kinds : Send(c, kind)
              \/ /\ action = "serve"
                 /\ \E c \in Conns \cap {CtrlC} : Connect(c) \/ Leave(c) \/ Send(c, "shutdown")

HandlesConnection(c) ==
  \/ ReadCommand(c) \/ WriteReply(c) \/ ReplyDropped(c)
  \/ ReadFails(c) /\ (c = Demo => client[c] = "gone")
  \/ WriteFails(c) /\ (c = Demo => client[c] = "gone" \/ log[reply[c]].kind = "large")

(* Fault: the demo does not wait for its client.                           *)
ExitUnjoined == /\ Running
                /\ db = "returned"
                /\ process' = "ended"
                /\ phase' = [c \in Conns |-> IF phase[c] = "none" THEN "none" ELSE "closed"]
                /\ UNCHANGED <<clientVars, reply, written, listener, stopping, dbVars>>
                /\ UNCHANGED <<action, demo>>

(* main returns, which ends every thread that is left.                     *)
ExitProcess == /\ Running
               /\ db = "returned"
               /\ action = "demo" => demo \in {"ok", "failed"}
               /\ process' = "ended"
               /\ phase' = [c \in Conns |-> IF phase[c] = "none" THEN "none" ELSE "closed"]
               /\ UNCHANGED <<clientVars, reply, written, listener, stopping, dbVars>>
               /\ UNCHANGED <<action, demo>>

ProcessNext == \/ Start
               \/ DemoStep
               \/ Running /\ OthersStep /\ Quietly
               \/ Running /\ ListenerStep /\ Quietly
               \/ Running /\ (\E c \in Conns : HandlesConnection(c)) /\ Quietly
               \/ Running /\ DbStep /\ Quietly
               \/ ExitProcess

(* Every thread of the process runs.                                       *)
ProcessFairness ==
  /\ WF_processVars(DemoStep)
  /\ WF_processVars(Running /\ ListenerStep /\ Quietly)
  /\ \A c \in Conns : WF_processVars(Running /\ HandlesConnection(c) /\ Quietly)
  /\ WF_processVars(Running /\ DbStep /\ Quietly)
  /\ WF_processVars(ExitProcess)
  /\ \A c \in Conns \cap {CtrlC} : WF_processVars(Running /\ Send(c, "shutdown") /\ Quietly)

ProcessSpec == ProcessInit /\ [][ProcessNext]_processVars /\ ProcessFairness

-----------------------------------------------------------------------------
(* README.md: Ctrl+C performs a protocol shutdown and exits cleanly.       *)
CtrlCStops ==
  \A c \in Conns \cap {CtrlC} : client[c] # "idle" ~> process = "ended"

(* Once the demo's client has sent its Shutdown the process ends, even if  *)
(* another client's comes first and leaves it without an answer: main      *)
(* waits for the server and then for the client, which wait for each other.*)
DemoStops ==
  (\E f \in Range(inbox[Demo]) : f.kind = "shutdown") ~> process = "ended"

(* The demo runs a client exercise and stops (main.rs, usage): the process *)
(* ends, whatever other clients do.  Its main thread waits for a Shutdown  *)
(* that only its client is sure to send.                                   *)
DemoTerminates == Running /\ action = "demo" ~> process = "ended"

(* A demo that reports success has had its whole script executed, answered *)
(* and then its own Shutdown, the last command of the server.              *)
DemoSuccess == demo = "ok" =>
  /\ ShutdownExecuted
  /\ log[Len(log)].conn = Demo
  /\ log[Len(log)].n = ScriptLength + 1
  /\ Len(written[Demo]) = ScriptLength + 1

(* The process never ends on a command of the demo that was executed and   *)
(* not answered: the client is joined, unlike the client of "serve" that   *)
(* sends Shutdown.                                                         *)
DemoIsAnswered == process = "ended" =>
  \A i \in DOMAIN log : log[i].conn = Demo =>
    i \in Range(written[Demo]) \/ log[i].kind = "large"

(* The client example of the repository (examples/tcp_client.rs) stops the *)
(* server and takes a connection that ends without an answer for an error. *)
ShutdownIsAnswered == process = "ended" =>
  \A i \in DOMAIN log : LET c == log[i].conn IN
    log[i].kind = "shutdown" => client[c] = "gone" \/ i \in Range(written[c])

=============================================================================
