------------------------------- MODULE Server -------------------------------
(***************************************************************************)
(* start_on_listener and handle_connection (src/src/server.rs): a listener *)
(* thread that polls for connections, one thread per connection that reads *)
(* a command, queues it and waits for its reply, and the one thread that   *)
(* owns the database and executes the queue.  Clients come, send any       *)
(* number of commands without waiting, and leave; the accept loop, socket  *)
(* set-up and writes may fail.  The process lives on when the server       *)
(* returns; Process.tla is about the binary, where it does not.            *)
(*                                                                         *)
(* What a command does to the database is Structure.tla's subject: here an *)
(* executed command is an entry of the log, and its reply is its place.    *)
(***************************************************************************)
EXTENDS Naturals, Sequences, Functions

CONSTANTS Conns,          \* the connections clients may open, each once
          CtrlC,          \* the connection the Ctrl+C handler opens, or none
          Kinds,          \* the kinds of frames the other clients send
          MaxFrames,      \* how many frames one client sends
          Faults          \* the failures that may happen

ASSUME ServerAssumption ==
  /\ Kinds \subseteq {"edit", "large", "shutdown", "bad"}
  /\ MaxFrames \in Nat
  /\ Faults \subseteq {"accept", "setup", "write", "connect", "handler"}

VARIABLES client,     \* the client's end of each connection
          sent,       \* how many frames the client has sent
          inbox,      \* frames on their way to the connection's thread
          phase,      \* where the connection's thread is
          reply,      \* the answer in its reply channel, 0 when there is none
          written,    \* the answers written to the client
          listener,   \* where the listener thread is
          stopping,   \* the flag the listener polls
          queue,      \* the command channel
          db,         \* where the database thread is
          log         \* the commands executed

clientVars == <<client, sent, inbox>>
connVars == <<phase, reply, written>>
dbVars == <<queue, db, log>>
vars == <<clientVars, connVars, listener, stopping, dbVars>>

Frames == [conn : Conns, n : Nat \ {0}, kind : Kinds \cup {"shutdown"}]

Init == /\ client   = [c \in Conns |-> "idle"]
        /\ sent     = [c \in Conns |-> 0]
        /\ inbox    = [c \in Conns |-> <<>>]
        /\ phase    = [c \in Conns |-> "none"]
        /\ reply    = [c \in Conns |-> 0]
        /\ written  = [c \in Conns |-> <<>>]
        /\ listener = "polling"
        /\ stopping = FALSE
        /\ queue    = <<>>
        /\ db       = "serving"
        /\ log      = <<>>

-----------------------------------------------------------------------------
(* Clients.  A connection is made while the listening socket exists, before *)
(* anyone accepts it; connecting may fail all the same, and so may the     *)
(* set-up of a client's own socket.                                        *)
ClientFault(c) == (IF c = CtrlC THEN "handler" ELSE "connect") \in Faults

Connect(c) == /\ client[c] = "idle"
              /\ \/ /\ listener # "exited"
                    /\ client' = [client EXCEPT ![c] = "connected"]
                    /\ phase' = [phase EXCEPT ![c] = "backlog"]
                 \/ /\ listener = "exited" \/ ClientFault(c)
                    /\ client' = [client EXCEPT ![c] = "gone"]
                    /\ UNCHANGED phase
              /\ UNCHANGED <<sent, inbox, reply, written, listener, stopping, dbVars>>

Allowed(c, kind) == IF c = CtrlC THEN kind = "shutdown" /\ sent[c] = 0
                                 ELSE kind \in Kinds /\ sent[c] < MaxFrames

Send(c, kind) == /\ client[c] = "connected"
                 /\ phase[c] # "closed"
                 /\ Allowed(c, kind)
                 /\ sent' = [sent EXCEPT ![c] = @ + 1]
                 /\ inbox' = [inbox EXCEPT ![c] =
                      Append(@, [conn |-> c, n |-> sent[c] + 1, kind |-> kind])]
                 /\ UNCHANGED <<client, connVars, listener, stopping, dbVars>>

(* A client may stop waiting at any time; the Ctrl+C handler does after two *)
(* seconds, once it has sent its command, or when it cannot set up its new *)
(* socket.  What was sent stays readable, except that a client with answers *)
(* unread resets the connection.                                           *)
Leave(c) == /\ client[c] = "connected"
            /\ c = CtrlC => sent[c] = 1 \/ phase[c] = "closed" \/ ClientFault(c)
            /\ client' = [client EXCEPT ![c] = "gone"]
            /\ \/ UNCHANGED inbox
               \/ written[c] # <<>> /\ inbox' = [inbox EXCEPT ![c] = <<>>]
            /\ UNCHANGED <<sent, connVars, listener, stopping, dbVars>>

-----------------------------------------------------------------------------
(* The listener thread.  Each round tests the flag and then accepts once.  *)
(* Its end closes the socket and with it every connection not accepted.    *)

Alone == UNCHANGED <<clientVars, reply, written, stopping, dbVars>>

ListenerExits == /\ listener' = "exited"
                 /\ phase' = [c \in Conns |-> IF phase[c] = "backlog"
                                              THEN "closed" ELSE phase[c]]

(* Fault: the flag is never looked at.                                     *)
PollBlind == listener = "polling" /\ listener' = "accepting" /\ Alone /\ UNCHANGED phase

Poll == /\ listener = "polling"
        /\ IF stopping THEN ListenerExits
                       ELSE listener' = "accepting" /\ UNCHANGED phase
        /\ Alone

Accept(c) == /\ listener = "accepting"
             /\ phase[c] = "backlog"
             /\ listener' = "polling"
             /\ \/ phase' = [phase EXCEPT ![c] = "reading"]
                \/ /\ "setup" \in Faults
                   /\ phase' = [phase EXCEPT ![c] = "closed"]
             /\ Alone

(* Fault: nothing to accept counts as an error.                            *)
AcceptNoneExits == /\ listener = "accepting"
                   /\ \A c \in Conns : phase[c] # "backlog"
                   /\ ListenerExits
                   /\ Alone

AcceptNone == /\ listener = "accepting"
              /\ \A c \in Conns : phase[c] # "backlog"
              /\ listener' = "polling"
              /\ Alone
              /\ UNCHANGED phase

AcceptError == /\ listener = "accepting"
               /\ "accept" \in Faults
               /\ ListenerExits
               /\ Alone

ListenerStep == Poll \/ (\E c \in Conns : Accept(c)) \/ AcceptNone \/ AcceptError

-----------------------------------------------------------------------------
(* The connection threads.  Between a successful read and the send on the  *)
(* channel, and between the receipt of a reply and its write, a thread     *)
(* touches nothing shared, so each pair is one step.                       *)

ReceiverAlive == db # "returned"

(* Fault: the frame is read again.                                         *)
ReadCommandAgain(c) ==
  /\ phase[c] = "reading"
  /\ inbox[c] # <<>>
  /\ Head(inbox[c]).kind # "bad"
  /\ inbox' = inbox
  /\ IF ReceiverAlive
     THEN /\ queue' = Append(queue, Head(inbox[c]))
          /\ phase' = [phase EXCEPT ![c] = "waiting"]
     ELSE /\ phase' = [phase EXCEPT ![c] = "closed"]
          /\ UNCHANGED queue
  /\ UNCHANGED <<client, sent, reply, written, listener, stopping, db, log>>

ReadCommand(c) ==
  /\ phase[c] = "reading"
  /\ inbox[c] # <<>>
  /\ Head(inbox[c]).kind # "bad"
  /\ inbox' = [inbox EXCEPT ![c] = Tail(@)]
  /\ IF ReceiverAlive
     THEN /\ queue' = Append(queue, Head(inbox[c]))
          /\ phase' = [phase EXCEPT ![c] = "waiting"]
     ELSE /\ phase' = [phase EXCEPT ![c] = "closed"]
          /\ UNCHANGED queue
  /\ UNCHANGED <<client, sent, reply, written, listener, stopping, db, log>>

Close(c) == /\ phase' = [phase EXCEPT ![c] = "closed"]
            /\ UNCHANGED <<clientVars, written, listener, stopping, dbVars>>

(* Fault: the thread gives up after thirty seconds of waiting for anything. *)
ReadFailsOrLate(c) == /\ phase[c] \in {"reading", "waiting"}
                      /\ Close(c)
                      /\ UNCHANGED reply

(* Fault: the sockets have no read timeout.                                *)
ReadFailsUntimed(c) == /\ phase[c] = "reading"
                       /\ \/ inbox[c] # <<>> /\ Head(inbox[c]).kind = "bad"
                          \/ inbox[c] = <<>> /\ client[c] = "gone"
                       /\ Close(c)
                       /\ UNCHANGED reply

(* A frame that does not decode, the end of the stream, or thirty seconds  *)
(* without a frame.  The Ctrl+C handler sends at once.                     *)
ReadFails(c) == /\ phase[c] = "reading"
                /\ \/ inbox[c] # <<>> /\ Head(inbox[c]).kind = "bad"
                   \/ inbox[c] = <<>> /\ client[c] = "gone"
                   \/ inbox[c] = <<>> /\ (c = CtrlC => sent[c] = 1)
                /\ Close(c)
                /\ UNCHANGED reply

Waiting(c) == phase[c] = "waiting" /\ reply[c] # 0

(* Fault: the reply channel is the connection's, and keeps the reply.      *)
WriteReplyKeeps(c) ==
  /\ Waiting(c)
  /\ log[reply[c]].kind # "large"
  /\ written' = [written EXCEPT ![c] = Append(@, reply[c])]
  /\ phase' = [phase EXCEPT ![c] = IF log[reply[c]].kind = "shutdown"
                                   THEN "closed" ELSE "reading"]
  /\ UNCHANGED <<clientVars, reply, listener, stopping, dbVars>>

WriteReply(c) ==
  /\ Waiting(c)
  /\ log[reply[c]].kind # "large"
  /\ written' = [written EXCEPT ![c] = Append(@, reply[c])]
  /\ reply' = [reply EXCEPT ![c] = 0]
  /\ phase' = [phase EXCEPT ![c] = IF log[reply[c]].kind = "shutdown"
                                   THEN "closed" ELSE "reading"]
  /\ UNCHANGED <<clientVars, listener, stopping, dbVars>>

(* The client has gone, which a write may or may not notice, the reply     *)
(* exceeds the frame limit, or an error.                                   *)
WriteFails(c) == /\ Waiting(c)
                 /\ \/ client[c] = "gone"
                    \/ log[reply[c]].kind = "large"
                    \/ "write" \in Faults
                 /\ Close(c)
                 /\ reply' = [reply EXCEPT ![c] = 0]

(* The queued command holds the sending end of the reply channel: a thread *)
(* whose command was discarded finds the channel closed.                   *)
ReplyDropped(c) == /\ phase[c] = "waiting"
                   /\ reply[c] = 0
                   /\ \A f \in Range(queue) : f.conn # c
                   /\ Close(c)
                   /\ UNCHANGED reply

ConnStep(c) == ReadCommand(c) \/ ReadFails(c) \/ WriteReply(c) \/ WriteFails(c)
                 \/ ReplyDropped(c)

-----------------------------------------------------------------------------
(* The database thread.                                                    *)

(* Fault: the loop goes on after Shutdown.                                 *)
ExecuteOn == /\ db = "serving"
             /\ queue # <<>>
             /\ log' = Append(log, Head(queue))
             /\ reply' = [reply EXCEPT ![Head(queue).conn] = Len(log) + 1]
             /\ queue' = Tail(queue)
             /\ UNCHANGED <<clientVars, phase, written, listener, stopping, db>>

Execute == /\ db = "serving"
           /\ queue # <<>>
           /\ log' = Append(log, Head(queue))
           /\ reply' = [reply EXCEPT ![Head(queue).conn] = Len(log) + 1]
           /\ queue' = Tail(queue)
           /\ db' = IF Head(queue).kind = "shutdown" THEN "stopping" ELSE "serving"
           /\ UNCHANGED <<clientVars, phase, written, listener, stopping>>

StopListener == /\ db = "stopping"
                /\ stopping' = TRUE
                /\ db' = "joining"
                /\ UNCHANGED <<clientVars, connVars, listener, queue, log>>

(* Fault: the receiver outlives the server.                                *)
ReturnKeeping == /\ db = "joining"
                 /\ listener = "exited"
                 /\ db' = "returned"
                 /\ UNCHANGED <<clientVars, connVars, listener, stopping, queue, log>>

(* The join succeeds once the listener has ended; returning drops the      *)
(* receiver and every command still queued.                                *)
Return == /\ db = "joining"
          /\ listener = "exited"
          /\ db' = "returned"
          /\ queue' = <<>>
          /\ UNCHANGED <<clientVars, connVars, listener, stopping, log>>

DbStep == Execute \/ StopListener \/ Return

-----------------------------------------------------------------------------
Next == \/ \E c \in Conns : Connect(c) \/ Leave(c) \/ \E kind \in Kinds \cup {"shutdown"} : Send(c, kind)
        \/ ListenerStep
        \/ \E c \in Conns : ConnStep(c)
        \/ DbStep

(* Every thread of the server runs; clients promise nothing, except that   *)
(* the Ctrl+C handler sends its command once it is connected.              *)
Fairness == /\ WF_vars(ListenerStep)
            /\ \A c \in Conns : WF_vars(ConnStep(c))
            /\ WF_vars(DbStep)
            /\ \A c \in Conns \cap {CtrlC} : WF_vars(Send(c, "shutdown"))

Spec == Init /\ [][Next]_vars /\ Fairness

-----------------------------------------------------------------------------
(* Type correctness.                                                       *)
TypeOK == /\ client \in [Conns -> {"idle", "connected", "gone"}]
          /\ sent \in [Conns -> Nat]
          /\ inbox \in [Conns -> Seq(Frames)]
          /\ phase \in [Conns -> {"none", "backlog", "reading", "waiting", "closed"}]
          /\ reply \in [Conns -> Nat]
          /\ written \in [Conns -> Seq(Nat)]
          /\ listener \in {"polling", "accepting", "exited"}
          /\ stopping \in BOOLEAN
          /\ queue \in Seq(Frames)
          /\ db \in {"serving", "stopping", "joining", "returned"}
          /\ log \in Seq(Frames)

(* Whatever its client does, a connection's commands are executed once     *)
(* each, in the order they were sent, and none is skipped.                 *)
ExecutedInOrder ==
  /\ \A i, j \in DOMAIN log :
       i < j /\ log[i].conn = log[j].conn => log[i].n < log[j].n
  /\ \A j \in DOMAIN log : \A m \in 1..log[j].n :
       \E i \in 1..j : log[i].conn = log[j].conn /\ log[i].n = m

(* A client that pipelines may count: the i-th answer is to its i-th       *)
(* command, never a late answer to an earlier one.                         *)
AnswersMatch == \A c \in Conns : \A i \in DOMAIN written[c] :
                  /\ written[c][i] \in DOMAIN log
                  /\ log[written[c][i]].conn = c
                  /\ log[written[c][i]].n = i

(* Shutdown is the last command executed, whatever was queued behind it.   *)
NothingAfterShutdown == \A i \in DOMAIN log : log[i].kind = "shutdown" => i = Len(log)

(* Unless its client leaves or a write fails, a connection is not closed   *)
(* on a command that was executed: its answer comes first.                 *)
ExecutedIsAnswered == \A i \in DOMAIN log :
  LET c == log[i].conn
  IN  phase[c] = "closed" /\ client[c] = "connected" => i \in Range(written[c])

(* A thread that waits for a reply gets it, or learns that none will come. *)
RequestsResolved == \A c \in Conns : phase[c] = "waiting" ~> phase[c] # "waiting"

ShutdownExecuted == log # <<>> /\ log[Len(log)].kind = "shutdown"

(* An executed Shutdown makes the server return, even if the listener      *)
(* thread has died before.                                                 *)
ShutdownReturns == ShutdownExecuted ~> db = "returned"

(* No connection thread outlives the server for ever, whatever its client  *)
(* sends or does not send.                                                 *)
ThreadsEnd == \A c \in Conns : db = "returned" ~> phase[c] \in {"none", "closed"}

=============================================================================
