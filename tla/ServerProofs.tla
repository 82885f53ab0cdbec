---------------------------- MODULE ServerProofs ----------------------------
(***************************************************************************)
(* Theorems about Server.tla, for any number of connections and of frames: *)
(* commands are executed in order and once, answers match them, Shutdown   *)
(* is the last one, and unless a write fails the answer comes before the   *)
(* end of the connection; and about the binary around it (Process.tla),    *)
(* whose demo never ends on a command of its own that was executed and     *)
(* could be answered, and is right when it reports success.                *)
(*                                                                         *)
(* A frame is in its connection's inbox, in the queue, in the log waiting  *)
(* for its answer to be written, or in the log and answered.  The          *)
(* invariant says that these are, in reverse order, consecutive stretches  *)
(* of the frames the client has sent, and that a connection's thread has   *)
(* at most one frame between inbox and answer.  Every step of the binary   *)
(* keeps it: most are steps of the server, and the others move no frame.   *)
(***************************************************************************)
EXTENDS Process, SequenceTheorems, TLAPS

Open(c) == phase[c] # "closed"

(* How many frames the connection's thread has taken from the inbox.       *)
Taken(c) == IF phase[c] = "waiting" THEN Len(written[c]) + 1 ELSE Len(written[c])

IdleUntouched == \A c \in Conns : client[c] = "idle" => phase[c] = "none"

InboxNext == \A c \in Conns : Open(c) =>
  \A i \in DOMAIN inbox[c] : /\ inbox[c][i].conn = c
                             /\ inbox[c][i].n = Taken(c) + i

SentAll == \A c \in Conns : Open(c) /\ client[c] # "gone" =>
  sent[c] = Taken(c) + Len(inbox[c])

QueuedNext == \A i \in DOMAIN queue :
  /\ phase[queue[i].conn] = "waiting"
  /\ reply[queue[i].conn] = 0
  /\ queue[i].n = Len(written[queue[i].conn]) + 1

QueuedOnce == \A i, j \in DOMAIN queue : queue[i].conn = queue[j].conn => i = j

ReplyNext == \A c \in Conns :
  /\ phase[c] = "waiting" /\ reply[c] # 0 =>
       /\ reply[c] \in DOMAIN log
       /\ log[reply[c]].conn = c
       /\ log[reply[c]].n = Len(written[c]) + 1
  /\ phase[c] \in {"none", "backlog", "reading"} => reply[c] = 0

AnsweredOrLast(i) ==
  LET c == log[i].conn
  IN  \/ /\ log[i].n \in DOMAIN written[c]
         /\ written[c][log[i].n] = i
      \/ /\ log[i].n = Len(written[c]) + 1
         /\ \/ phase[c] = "waiting" /\ reply[c] = i
            \/ phase[c] = "closed"

LogKept == \A i \in DOMAIN log : AnsweredOrLast(i)

DbKnows == /\ db = "serving" => \A i \in DOMAIN log : log[i].kind # "shutdown"
           /\ db = "returned" => queue = <<>>

Inv == /\ TypeOK
       /\ IdleUntouched
       /\ InboxNext
       /\ SentAll
       /\ QueuedNext
       /\ QueuedOnce
       /\ ReplyNext
       /\ LogKept
       /\ DbKnows
       /\ ExecutedInOrder
       /\ AnswersMatch
       /\ NothingAfterShutdown

-----------------------------------------------------------------------------
(* Most steps move no frame: they only open or close connections.          *)
Quiet ==
  /\ UNCHANGED <<sent, written, reply, log>>
  /\ \A c \in Conns :
       \/ phase'[c] = phase[c]
       \/ /\ phase[c] \in {"none", "backlog", "reading"}
          /\ phase'[c] \in {"backlog", "reading", "closed"}
       \/ /\ phase[c] = "waiting"
          /\ phase'[c] = "closed"
          /\ \A f \in Range(queue) : f.conn # c
  /\ \A c \in Conns : client[c] = "gone" => client'[c] = "gone"
  /\ \A c \in Conns : client'[c] = "idle" => phase'[c] = "none"
  /\ \A c \in Conns : inbox'[c] = inbox[c] \/ (inbox'[c] = <<>> /\ client'[c] = "gone")
  /\ queue' = queue \/ queue' = <<>>
  /\ db' = "serving" => db = "serving"
  /\ db' = "returned" => queue' = <<>>

LEMMA QuietKeeps == ASSUME Inv, TypeOK', Quiet PROVE Inv'
<1>1. IdleUntouched'
  BY DEF Quiet, IdleUntouched
<1>2. \A c \in Conns : Open(c)' => Open(c) /\ Taken(c)' = Taken(c)
  BY DEF Quiet, Open, Taken
<1>3. InboxNext'
  <2> SUFFICES ASSUME NEW c \in Conns, Open(c)', NEW i \in DOMAIN inbox'[c]
               PROVE  inbox'[c][i].conn = c /\ inbox'[c][i].n = Taken(c)' + i
    BY DEF InboxNext
  <2>1. inbox'[c] = inbox[c]
    <3>1. DOMAIN <<>> = {}
      OBVIOUS
    <3> QED
      BY <3>1 DEF Quiet
  <2> QED
    BY <1>2, <2>1 DEF Inv, InboxNext
<1>4. SentAll'
  BY <1>2 DEF Quiet, Inv, SentAll
<1>5. queue' = queue \/ DOMAIN queue' = {}
  BY DEF Quiet
<1>6. ASSUME NEW i \in DOMAIN queue' PROVE phase'[queue[i].conn] = phase[queue[i].conn] /\ queue' = queue /\ queue[i].conn \in Conns
  <2>1. queue' = queue /\ i \in DOMAIN queue /\ queue[i] \in Range(queue)
    BY <1>5 DEF Range
  <2>2. queue[i] \in Frames
    BY <2>1 DEF Inv, TypeOK
  <2> QED
    BY <2>1, <2>2 DEF Quiet, Frames, Inv, QueuedNext
<1>7. QueuedNext'
  BY <1>6 DEF Quiet, Inv, QueuedNext
<1>8. QueuedOnce'
  BY <1>6 DEF Inv, QueuedOnce
<1>9. ReplyNext'
  BY DEF Quiet, Inv, ReplyNext
<1>10. LogKept'
  <2> SUFFICES ASSUME NEW i \in DOMAIN log PROVE AnsweredOrLast(i)'
    BY DEF Quiet, LogKept
  <2>0. log[i] \in Frames
    BY DEF Inv, TypeOK
  <2>1. log[i].conn \in Conns
    BY <2>0 DEF Frames
  <2>2. AnsweredOrLast(i)
    BY DEF Inv, LogKept
  <2> QED
    BY <2>1, <2>2 DEF Quiet, AnsweredOrLast
<1>11. DbKnows'
  BY DEF Quiet, Inv, DbKnows
<1>12. ExecutedInOrder' /\ AnswersMatch' /\ NothingAfterShutdown'
  BY DEF Quiet, Inv, ExecutedInOrder, AnswersMatch, NothingAfterShutdown
<1> QED
  BY <1>1, <1>3, <1>4, <1>7, <1>8, <1>9, <1>10, <1>11, <1>12 DEF Inv

-----------------------------------------------------------------------------
(* What a step does to one connection's fields, and to no other's.         *)
LEMMA ExceptAt ==
  ASSUME NEW S, NEW T, NEW f \in [S -> T], NEW x \in S, NEW e
  PROVE  /\ [f EXCEPT ![x] = e][x] = e
         /\ \A y \in S : y # x => [f EXCEPT ![x] = e][y] = f[y]
  OBVIOUS

LEMMA SendKeeps ==
  ASSUME Inv, TypeOK', NEW c \in Conns, NEW kind, Send(c, kind)
  PROVE  Inv'
<1> DEFINE f == [conn |-> c, n |-> sent[c] + 1, kind |-> kind]
<1>1. /\ inbox[c] \in Seq(Frames)
      /\ inbox'[c] = Append(inbox[c], f)
      /\ sent'[c] = sent[c] + 1
      /\ \A d \in Conns : d # c => inbox'[d] = inbox[d] /\ sent'[d] = sent[d]
      /\ sent[c] \in Nat
      /\ client[c] = "connected"
      /\ Open(c)
  BY DEF Inv, TypeOK, Send, Open
<1>2. UNCHANGED <<client, phase, reply, written, queue, db, log>>
  BY DEF Send, connVars, dbVars
<1>3. Open(c)' = Open(c) /\ \A d \in Conns : Open(d)' = Open(d) /\ Taken(d)' = Taken(d)
  BY <1>2 DEF Open, Taken
<1>4. inbox'[c] \in Seq(Frames)
  BY DEF TypeOK
<1>5. PICK m \in Nat : m = Len(inbox[c]) /\ DOMAIN inbox[c] = 1..m
  BY <1>1, LenProperties
<1>6. /\ DOMAIN inbox'[c] = 1..(m + 1)
      /\ Len(inbox'[c]) = m + 1
      /\ \A i \in 1..m : inbox'[c][i] = inbox[c][i]
      /\ inbox'[c][m + 1] = f
  BY <1>1, <1>5
<1>7. Taken(c) \in Nat /\ sent[c] = Taken(c) + m
  <2>1. written[c] \in Seq(Nat)
    BY DEF Inv, TypeOK
  <2>2. Len(written[c]) \in Nat
    BY <2>1, LenProperties
  <2>3. Taken(c) \in Nat
    BY <2>2 DEF Taken
  <2>4. sent[c] = Taken(c) + Len(inbox[c])
    BY <1>1 DEF Inv, SentAll
  <2> QED
    BY <1>5, <2>3, <2>4
<1>8. InboxNext'
  <2> SUFFICES ASSUME NEW d \in Conns, Open(d)', NEW i \in DOMAIN inbox'[d]
               PROVE  inbox'[d][i].conn = d /\ inbox'[d][i].n = Taken(d)' + i
    BY DEF InboxNext
  <2>1. CASE d # c
    BY <1>1, <1>3, <2>1 DEF Inv, InboxNext
  <2>2. CASE d = c /\ i \in 1..m
    <3>1. inbox[c][i].conn = c /\ inbox[c][i].n = Taken(c) + i
      BY <1>1, <1>5, <2>2 DEF Inv, InboxNext
    <3> QED
      BY <1>3, <1>6, <2>2, <3>1
  <2>3. CASE d = c /\ i = m + 1
    BY <1>3, <1>6, <1>7, <2>3
  <2> QED
    BY <1>5, <1>6, <2>1, <2>2, <2>3
<1>9. SentAll'
  <2> SUFFICES ASSUME NEW d \in Conns, Open(d)', client'[d] # "gone"
               PROVE  sent'[d] = Taken(d)' + Len(inbox'[d])
    BY DEF SentAll
  <2>1. CASE d # c
    BY <1>1, <1>2, <1>3, <2>1 DEF Inv, SentAll
  <2>2. CASE d = c
    BY <1>1, <1>3, <1>6, <1>7, <2>2
  <2> QED
    BY <2>1, <2>2
<1>10. IdleUntouched' /\ QueuedNext' /\ QueuedOnce' /\ ReplyNext' /\ DbKnows'
  BY <1>2 DEF Inv, IdleUntouched, QueuedNext, QueuedOnce, ReplyNext, DbKnows
<1>11. LogKept'
  BY <1>2 DEF Inv, LogKept, AnsweredOrLast
<1>12. ExecutedInOrder' /\ AnswersMatch' /\ NothingAfterShutdown'
  BY <1>2 DEF Inv, ExecutedInOrder, AnswersMatch, NothingAfterShutdown
<1> QED
  BY <1>8, <1>9, <1>10, <1>11, <1>12 DEF Inv

(* A step of c's thread leaves every other connection alone.               *)
LEMMA ReadKeeps ==
  ASSUME Inv, TypeOK', NEW c \in Conns, ReadCommand(c)
  PROVE  Inv'
<1> DEFINE f == Head(inbox[c])
<1>1. /\ inbox[c] \in Seq(Frames)
      /\ inbox[c] # <<>>
      /\ phase[c] = "reading"
      /\ inbox'[c] = Tail(inbox[c])
      /\ \A d \in Conns : d # c => inbox'[d] = inbox[d] /\ phase'[d] = phase[d]
      /\ UNCHANGED <<client, sent, reply, written, db, log>>
      /\ \/ phase'[c] = "closed" /\ queue' = queue
         \/ phase'[c] = "waiting" /\ queue' = Append(queue, f) /\ db # "returned"
  BY DEF Inv, TypeOK, ReadCommand, ReceiverAlive
<1>2. \A d \in Conns : d # c => Open(d)' = Open(d) /\ Taken(d)' = Taken(d)
  BY <1>1 DEF Open, Taken
<1>3. Len(written[c]) \in Nat
  <2>1. written[c] \in Seq(Nat)
    BY DEF Inv, TypeOK
  <2> QED
    BY <2>1, LenProperties
<1>4. Open(c) /\ Taken(c) = Len(written[c]) /\ (Open(c)' => Taken(c)' = Taken(c) + 1)
  BY <1>1, <1>3 DEF Open, Taken
<1>5. PICK m \in Nat : m + 1 = Len(inbox[c])
  <2>1. Len(inbox[c]) \in Nat \ {0}
    BY <1>1, EmptySeq
  <2>2. Len(inbox[c]) - 1 \in Nat /\ (Len(inbox[c]) - 1) + 1 = Len(inbox[c])
    BY <2>1
  <2> QED
    BY <2>2
<1>6. /\ f \in Frames
      /\ Len(inbox'[c]) = m
      /\ DOMAIN inbox'[c] = 1..m
      /\ \A i \in 1..m : inbox'[c][i] = inbox[c][i + 1]
  <2>1. /\ f \in Frames
        /\ Tail(inbox[c]) \in Seq(Frames)
        /\ Len(Tail(inbox[c])) = Len(inbox[c]) - 1
        /\ \A i \in 1..Len(Tail(inbox[c])) : Tail(inbox[c])[i] = inbox[c][i + 1]
    BY <1>1, HeadTailProperties
  <2>2. Len(Tail(inbox[c])) = m
    BY <1>5, <2>1
  <2> QED
    BY <1>1, <2>1, <2>2, LenProperties
<1>7. DOMAIN inbox[c] = 1..(m + 1) /\ f = inbox[c][1]
  BY <1>1, <1>5, LenProperties
<1>8. f.conn = c /\ f.n = Len(written[c]) + 1
  <2>1. 1 \in DOMAIN inbox[c]
    BY <1>7
  <2>2. inbox[c][1].conn = c /\ inbox[c][1].n = Taken(c) + 1
    BY <1>4, <2>1 DEF Inv, InboxNext
  <2> QED
    BY <1>4, <1>7, <2>2
<1>9. reply[c] = 0
  BY <1>1 DEF Inv, ReplyNext
<1>10. InboxNext'
  <2> SUFFICES ASSUME NEW d \in Conns, Open(d)', NEW i \in DOMAIN inbox'[d]
               PROVE  inbox'[d][i].conn = d /\ inbox'[d][i].n = Taken(d)' + i
    BY DEF InboxNext
  <2>1. CASE d # c
    BY <1>1, <1>2, <2>1 DEF Inv, InboxNext
  <2>2. CASE d = c
    <3>1. i \in 1..m /\ i + 1 \in DOMAIN inbox[c]
      BY <1>6, <1>7, <2>2
    <3>2. inbox[c][i + 1].conn = c /\ inbox[c][i + 1].n = Taken(c) + (i + 1)
      BY <1>4, <3>1 DEF Inv, InboxNext
    <3> QED
      BY <1>3, <1>4, <1>6, <2>2, <3>1, <3>2
  <2> QED
    BY <2>1, <2>2
<1>11. SentAll'
  <2> SUFFICES ASSUME NEW d \in Conns, Open(d)', client'[d] # "gone"
               PROVE  sent'[d] = Taken(d)' + Len(inbox'[d])
    BY DEF SentAll
  <2>1. CASE d # c
    BY <1>1, <1>2, <2>1 DEF Inv, SentAll
  <2>2. CASE d = c
    <3>1. sent[c] = Taken(c) + Len(inbox[c])
      BY <1>1, <1>4, <2>2 DEF Inv, SentAll
    <3>2. PICK t \in Nat : t = Taken(c)
      BY <1>3, <1>4
    <3>3. sent'[c] = t + (m + 1) /\ Taken(c)' = t + 1 /\ Len(inbox'[c]) = m
      BY <1>1, <1>4, <1>5, <1>6, <2>2, <3>1, <3>2
    <3> QED
      BY <2>2, <3>3
  <2> QED
    BY <2>1, <2>2
<1>12. IdleUntouched'
  BY <1>1 DEF Inv, IdleUntouched
<1>13. \A i \in DOMAIN queue : queue[i] \in Frames /\ queue[i].conn \in Conns /\ queue[i].conn # c
  <2> SUFFICES ASSUME NEW i \in DOMAIN queue
               PROVE  queue[i] \in Frames /\ queue[i].conn \in Conns /\ queue[i].conn # c
    OBVIOUS
  <2>1. queue[i] \in Frames
    BY DEF Inv, TypeOK
  <2>2. queue[i].conn \in Conns
    BY <2>1 DEF Frames
  <2> QED
    BY <1>1, <2>1, <2>2 DEF Inv, QueuedNext
<1>14. QueuedNext' /\ QueuedOnce'
  <2>1. CASE queue' = queue
    BY <1>1, <1>13, <2>1 DEF Inv, QueuedNext, QueuedOnce
  <2>2. CASE phase'[c] = "waiting" /\ queue' = Append(queue, f)
    <3>1. queue \in Seq(Frames)
      BY DEF Inv, TypeOK
    <3>2. PICK n \in Nat : n = Len(queue) /\ DOMAIN queue = 1..n
      BY <3>1, LenProperties
    <3>3. /\ DOMAIN queue' = 1..(n + 1)
          /\ \A i \in 1..n : queue'[i] = queue[i]
          /\ queue'[n + 1] = f
      BY <1>6, <2>2, <3>1, <3>2
    <3>4. ASSUME NEW i \in 1..n
          PROVE  /\ phase'[queue[i].conn] = "waiting"
                 /\ reply'[queue[i].conn] = 0
                 /\ queue[i].n = Len(written'[queue[i].conn]) + 1
      BY <1>1, <1>13, <3>2 DEF Inv, QueuedNext
    <3>5. QueuedNext'
      BY <1>1, <1>8, <1>9, <2>2, <3>3, <3>4 DEF QueuedNext
    <3>6. QueuedOnce'
      BY <1>8, <1>13, <3>2, <3>3 DEF Inv, QueuedOnce
    <3> QED
      BY <3>5, <3>6
  <2> QED
    BY <1>1, <2>1, <2>2
<1>15. ReplyNext'
  BY <1>1, <1>9 DEF Inv, ReplyNext
<1>16. LogKept'
  <2> SUFFICES ASSUME NEW i \in DOMAIN log PROVE AnsweredOrLast(i)'
    BY <1>1 DEF LogKept
  <2>1. log[i] \in Frames
    BY DEF Inv, TypeOK
  <2>2. log[i].conn \in Conns
    BY <2>1 DEF Frames
  <2>3. AnsweredOrLast(i)
    BY DEF Inv, LogKept
  <2> QED
    BY <1>1, <2>2, <2>3 DEF AnsweredOrLast
<1>17. DbKnows'
  BY <1>1 DEF Inv, DbKnows
<1>18. ExecutedInOrder' /\ AnswersMatch' /\ NothingAfterShutdown'
  BY <1>1 DEF Inv, ExecutedInOrder, AnswersMatch, NothingAfterShutdown
<1> QED
  BY <1>10, <1>11, <1>12, <1>14, <1>15, <1>16, <1>17, <1>18 DEF Inv

(* What the invariant says of a thread with a reply to write.              *)
LEMMA ReplyInHand ==
  ASSUME Inv, NEW c \in Conns, Waiting(c)
  PROVE  /\ phase[c] = "waiting"
         /\ reply[c] \in DOMAIN log
         /\ log[reply[c]].conn = c
         /\ log[reply[c]].n = Len(written[c]) + 1
         /\ \A i \in DOMAIN queue : queue[i].conn # c
BY DEF Inv, ReplyNext, QueuedNext, Waiting

LEMMA FrameFields ==
  ASSUME TypeOK
  PROVE  /\ \A i \in DOMAIN queue : queue[i].conn \in Conns /\ queue[i].n \in Nat \ {0}
         /\ \A i \in DOMAIN log : log[i].conn \in Conns /\ log[i].n \in Nat \ {0}
<1>1. \A i \in DOMAIN queue : queue[i] \in Frames
  BY DEF TypeOK
<1>2. \A i \in DOMAIN log : log[i] \in Frames
  BY DEF TypeOK
<1> QED
  BY <1>1, <1>2 DEF Frames

LEMMA WriteFailsKeeps ==
  ASSUME Inv, TypeOK', NEW c \in Conns, WriteFails(c)
  PROVE  Inv'
<1>1. /\ Waiting(c)
      /\ phase'[c] = "closed"
      /\ reply'[c] = 0
      /\ \A d \in Conns : d # c => phase'[d] = phase[d] /\ reply'[d] = reply[d]
      /\ UNCHANGED <<client, sent, inbox, written, queue, db, log>>
  BY DEF Inv, TypeOK, WriteFails, Close, clientVars, dbVars
<1>2. /\ phase[c] = "waiting"
      /\ \A i \in DOMAIN queue : queue[i].conn # c
  BY <1>1, ReplyInHand
<1>3. \A d \in Conns : Open(d)' => d # c /\ Open(d) /\ Taken(d)' = Taken(d)
  BY <1>1 DEF Open, Taken
<1>4. InboxNext' /\ SentAll'
  BY <1>1, <1>3 DEF Inv, InboxNext, SentAll
<1>5. QueuedNext' /\ QueuedOnce'
  BY <1>1, <1>2, FrameFields DEF Inv, QueuedNext, QueuedOnce
<1>6. IdleUntouched' /\ ReplyNext' /\ DbKnows'
  BY <1>1, <1>2 DEF Inv, IdleUntouched, ReplyNext, DbKnows
<1>7. LogKept'
  <2> SUFFICES ASSUME NEW i \in DOMAIN log PROVE AnsweredOrLast(i)'
    BY <1>1 DEF LogKept
  <2>1. log[i].conn \in Conns
    BY FrameFields DEF Inv
  <2>2. AnsweredOrLast(i)
    BY DEF Inv, LogKept
  <2> QED
    BY <1>1, <2>1, <2>2 DEF AnsweredOrLast
<1>8. ExecutedInOrder' /\ AnswersMatch' /\ NothingAfterShutdown'
  BY <1>1 DEF Inv, ExecutedInOrder, AnswersMatch, NothingAfterShutdown
<1> QED
  BY <1>4, <1>5, <1>6, <1>7, <1>8 DEF Inv

LEMMA WriteKeeps ==
  ASSUME Inv, TypeOK', NEW c \in Conns, WriteReply(c)
  PROVE  Inv'
<1>1. /\ Waiting(c)
      /\ written[c] \in Seq(Nat)
      /\ reply[c] \in Nat
      /\ written'[c] = Append(written[c], reply[c])
      /\ reply'[c] = 0
      /\ phase'[c] \in {"closed", "reading"}
      /\ \A d \in Conns : d # c => /\ phase'[d] = phase[d]
                                  /\ reply'[d] = reply[d]
                                  /\ written'[d] = written[d]
      /\ UNCHANGED <<client, sent, inbox, queue, db, log>>
  BY DEF Inv, TypeOK, WriteReply, Waiting, clientVars, dbVars
<1>2. /\ phase[c] = "waiting"
      /\ reply[c] \in DOMAIN log
      /\ log[reply[c]].conn = c
      /\ log[reply[c]].n = Len(written[c]) + 1
      /\ \A i \in DOMAIN queue : queue[i].conn # c
  BY <1>1, ReplyInHand
<1>3. PICK w \in Nat : w = Len(written[c]) /\ DOMAIN written[c] = 1..w
  BY <1>1, LenProperties
<1>4. /\ Len(written'[c]) = w + 1
      /\ DOMAIN written'[c] = 1..(w + 1)
      /\ \A i \in 1..w : written'[c][i] = written[c][i]
      /\ written'[c][w + 1] = reply[c]
  BY <1>1, <1>3
<1>5. \A d \in Conns : Open(d)' => Open(d) /\ Taken(d)' = Taken(d)
  BY <1>1, <1>2, <1>3, <1>4 DEF Open, Taken
<1>6. InboxNext' /\ SentAll'
  BY <1>1, <1>5 DEF Inv, InboxNext, SentAll
<1>7. QueuedNext' /\ QueuedOnce'
  BY <1>1, <1>2, FrameFields DEF Inv, QueuedNext, QueuedOnce
<1>8. IdleUntouched' /\ ReplyNext' /\ DbKnows'
  <2>1. IdleUntouched' /\ DbKnows'
    BY <1>1, <1>2 DEF Inv, IdleUntouched, DbKnows
  <2>2. reply'[c] = 0 /\ phase'[c] # "waiting"
    BY <1>1
  <2>3. ReplyNext'
    BY <1>1, <2>2 DEF Inv, ReplyNext
  <2> QED
    BY <2>1, <2>3
<1>9. LogKept'
  <2> SUFFICES ASSUME NEW i \in DOMAIN log PROVE AnsweredOrLast(i)'
    BY <1>1 DEF LogKept
  <2>1. log[i].conn \in Conns /\ log[i].n \in Nat
    BY FrameFields DEF Inv
  <2>2. AnsweredOrLast(i)
    BY DEF Inv, LogKept
  <2>3. CASE log[i].conn # c
    BY <1>1, <2>1, <2>2, <2>3 DEF AnsweredOrLast
  <2>4. CASE log[i].conn = c /\ log[i].n \in 1..w
    BY <1>1, <1>3, <1>4, <2>2, <2>4 DEF AnsweredOrLast
  <2>5. CASE log[i].conn = c /\ log[i].n \notin 1..w
    <3>1. log[i].n = w + 1 /\ reply[c] = i
      BY <1>2, <1>3, <2>2, <2>5 DEF AnsweredOrLast
    <3> QED
      BY <1>1, <1>4, <2>5, <3>1 DEF AnsweredOrLast
  <2> QED
    BY <2>3, <2>4, <2>5
<1>10. AnswersMatch'
  <2> SUFFICES ASSUME NEW d \in Conns, NEW i \in DOMAIN written'[d]
               PROVE  /\ written'[d][i] \in DOMAIN log
                      /\ log[written'[d][i]].conn = d
                      /\ log[written'[d][i]].n = i
    BY <1>1 DEF AnswersMatch
  <2>1. CASE d # c
    BY <1>1, <2>1 DEF Inv, AnswersMatch
  <2>2. CASE d = c /\ i \in 1..w
    BY <1>3, <1>4, <2>2 DEF Inv, AnswersMatch
  <2>3. CASE d = c /\ i = w + 1
    BY <1>2, <1>3, <1>4, <2>3
  <2> QED
    BY <1>4, <2>1, <2>2, <2>3
<1>11. ExecutedInOrder' /\ NothingAfterShutdown'
  BY <1>1 DEF Inv, ExecutedInOrder, NothingAfterShutdown
<1> QED
  BY <1>6, <1>7, <1>8, <1>9, <1>10, <1>11 DEF Inv

(* What executing the head of the queue does: the frame moves to the log,  *)
(* where it is the first not answered of its connection.                   *)
LEMMA ExecuteStep ==
  ASSUME Inv, Execute
  PROVE  \E f \in Frames, L \in Nat, n \in Nat :
           /\ L = Len(log) /\ DOMAIN log = 1..L
           /\ DOMAIN log' = 1..(L + 1) /\ Len(log') = L + 1
           /\ \A i \in 1..L : log'[i] = log[i]
           /\ log'[L + 1] = f
           /\ DOMAIN queue = 1..(n + 1) /\ DOMAIN queue' = 1..n
           /\ f = queue[1]
           /\ \A i \in 1..n : queue'[i] = queue[i + 1]
           /\ reply' = [reply EXCEPT ![f.conn] = L + 1]
           /\ db = "serving"
           /\ db' = IF f.kind = "shutdown" THEN "stopping" ELSE "serving"
           /\ UNCHANGED <<client, sent, inbox, phase, written>>
<1> DEFINE f == Head(queue)
<1>1. /\ queue \in Seq(Frames) /\ log \in Seq(Frames)
      /\ queue # <<>>
      /\ queue' = Tail(queue) /\ log' = Append(log, f)
  BY DEF Inv, TypeOK, Execute
<1>2. PICK L \in Nat : L = Len(log) /\ DOMAIN log = 1..L
  BY <1>1, LenProperties
<1>3. PICK k \in Nat \ {0} : k = Len(queue) /\ DOMAIN queue = 1..k
  BY <1>1, EmptySeq, LenProperties
<1>4. PICK n \in Nat : k = n + 1
  <2>1. k - 1 \in Nat /\ k = (k - 1) + 1
    OBVIOUS
  <2> QED
    BY <2>1
<1>5. f \in Frames /\ f = queue[1]
  BY <1>1, HeadTailProperties
<1>6. /\ Len(queue') = n
      /\ queue' \in Seq(Frames)
      /\ \A i \in 1..Len(queue') : queue'[i] = queue[i + 1]
  BY <1>1, <1>3, <1>4, HeadTailProperties
<1>7. DOMAIN queue' = 1..n /\ \A i \in 1..n : queue'[i] = queue[i + 1]
  BY <1>6, LenProperties
<1>8. /\ DOMAIN log' = 1..(L + 1) /\ Len(log') = L + 1
      /\ \A i \in 1..L : log'[i] = log[i]
      /\ log'[L + 1] = f
  BY <1>1, <1>2, <1>5
<1>9. /\ reply' = [reply EXCEPT ![f.conn] = L + 1]
      /\ db = "serving"
      /\ db' = IF f.kind = "shutdown" THEN "stopping" ELSE "serving"
      /\ UNCHANGED <<client, sent, inbox, phase, written>>
  BY <1>2 DEF Execute, clientVars
<1> QED
  BY <1>2, <1>3, <1>4, <1>5, <1>7, <1>8, <1>9

LEMMA ExecuteKeeps ==
  ASSUME Inv, TypeOK', Execute
  PROVE  Inv'
<1>1. PICK f \in Frames, L \in Nat, n \in Nat :
           /\ L = Len(log) /\ DOMAIN log = 1..L
           /\ DOMAIN log' = 1..(L + 1) /\ Len(log') = L + 1
           /\ \A i \in 1..L : log'[i] = log[i]
           /\ log'[L + 1] = f
           /\ DOMAIN queue = 1..(n + 1) /\ DOMAIN queue' = 1..n
           /\ f = queue[1]
           /\ \A i \in 1..n : queue'[i] = queue[i + 1]
           /\ reply' = [reply EXCEPT ![f.conn] = L + 1]
           /\ db = "serving"
           /\ db' = IF f.kind = "shutdown" THEN "stopping" ELSE "serving"
           /\ UNCHANGED <<client, sent, inbox, phase, written>>
  BY ExecuteStep
<1>2. PICK c \in Conns : c = f.conn
  BY DEF Frames
<1>3. /\ phase[c] = "waiting"
      /\ reply[c] = 0
      /\ f.n = Len(written[c]) + 1
  <2>1. 1 \in DOMAIN queue
    BY <1>1
  <2> QED
    BY <1>1, <1>2, <2>1 DEF Inv, QueuedNext
<1>4. reply'[c] = L + 1 /\ \A d \in Conns : d # c => reply'[d] = reply[d]
  BY <1>1, <1>2, ExceptAt DEF Inv, TypeOK
<1>5. PICK w \in Nat : w = Len(written[c]) /\ DOMAIN written[c] = 1..w
  <2>1. written[c] \in Seq(Nat)
    BY DEF Inv, TypeOK
  <2> QED
    BY <2>1, LenProperties
<1>6. f.n = w + 1
  BY <1>3, <1>5
<1>7. \A i \in 1..n : /\ i + 1 \in DOMAIN queue
                     /\ queue[i + 1].conn \in Conns
                     /\ queue[i + 1].conn # c
  <2> SUFFICES ASSUME NEW i \in 1..n
               PROVE  /\ i + 1 \in DOMAIN queue
                      /\ queue[i + 1].conn \in Conns
                      /\ queue[i + 1].conn # c
    OBVIOUS
  <2>1. i + 1 \in DOMAIN queue /\ 1 \in DOMAIN queue /\ i + 1 # 1
    BY <1>1
  <2>2. queue[i + 1].conn # queue[1].conn
    BY <2>1 DEF Inv, QueuedOnce
  <2> QED
    BY <1>1, <1>2, <2>1, <2>2, FrameFields DEF Inv
<1>8. QueuedNext'
  <2> SUFFICES ASSUME NEW i \in 1..n
               PROVE  /\ phase[queue[i + 1].conn] = "waiting"
                      /\ reply'[queue[i + 1].conn] = 0
                      /\ queue[i + 1].n = Len(written[queue[i + 1].conn]) + 1
    BY <1>1 DEF QueuedNext
  <2>1. /\ phase[queue[i + 1].conn] = "waiting"
        /\ reply[queue[i + 1].conn] = 0
        /\ queue[i + 1].n = Len(written[queue[i + 1].conn]) + 1
    BY <1>7 DEF Inv, QueuedNext
  <2> QED
    BY <1>4, <1>7, <2>1
<1>9. QueuedOnce'
  <2>1. DOMAIN queue' = 1..n /\ \A i \in 1..n : queue'[i] = queue[i + 1]
    BY <1>1
  <2>2. SUFFICES ASSUME NEW i \in 1..n, NEW j \in 1..n, queue[i + 1].conn = queue[j + 1].conn
                 PROVE  i = j
    BY <2>1 DEF QueuedOnce
  <2>3. i + 1 = j + 1
    BY <1>7, <2>2 DEF Inv, QueuedOnce
  <2> QED
    BY <1>1, <2>3
<1>10. ReplyNext'
  <2> SUFFICES ASSUME NEW d \in Conns
               PROVE  /\ phase[d] = "waiting" /\ reply'[d] # 0 =>
                            /\ reply'[d] \in DOMAIN log'
                            /\ log'[reply'[d]].conn = d
                            /\ log'[reply'[d]].n = Len(written[d]) + 1
                      /\ phase[d] \in {"none", "backlog", "reading"} => reply'[d] = 0
    BY <1>1 DEF ReplyNext
  <2>1. CASE d = c
    BY <1>1, <1>2, <1>3, <1>4, <2>1
  <2>2. CASE d # c
    BY <1>1, <1>4, <2>2 DEF Inv, ReplyNext
  <2> QED
    BY <2>1, <2>2
(* Where an entry of the log belongs to c, it has been answered.           *)
<1>11. \A i \in 1..L : log[i].conn = c => /\ log[i].n \in 1..w
                                          /\ written[c][log[i].n] = i
  <2> SUFFICES ASSUME NEW i \in 1..L, log[i].conn = c
               PROVE  log[i].n \in 1..w /\ written[c][log[i].n] = i
    OBVIOUS
  <2>1. AnsweredOrLast(i)
    BY <1>1 DEF Inv, LogKept
  <2> QED
    BY <1>3, <1>5, <2>1 DEF AnsweredOrLast
<1>12. LogKept'
  <2> SUFFICES ASSUME NEW i \in 1..(L + 1) PROVE AnsweredOrLast(i)'
    BY <1>1 DEF LogKept
  <2>1. CASE i = L + 1
    BY <1>1, <1>2, <1>3, <1>4, <2>1 DEF AnsweredOrLast
  <2>2. CASE i \in 1..L
    <3>1. AnsweredOrLast(i) /\ log[i].conn \in Conns
      BY <1>1, <2>2, FrameFields DEF Inv, LogKept
    <3>2. CASE log[i].conn = c
      BY <1>1, <1>5, <1>11, <2>2, <3>2 DEF AnsweredOrLast
    <3>3. CASE log[i].conn # c
      BY <1>1, <1>4, <2>2, <3>1, <3>3 DEF AnsweredOrLast
    <3> QED
      BY <3>2, <3>3
  <2> QED
    BY <2>1, <2>2
<1>13. DbKnows'
  BY <1>1 DEF Inv, DbKnows
<1>14. NothingAfterShutdown'
  BY <1>1 DEF Inv, DbKnows, NothingAfterShutdown
<1>15. AnswersMatch'
  BY <1>1 DEF Inv, AnswersMatch
<1>16. ASSUME NEW i \in 1..(L + 1), NEW j \in 1..(L + 1), i < j, log'[i].conn = log'[j].conn
       PROVE  log'[i].n < log'[j].n
  <2>1. CASE j \in 1..L
    <3>1. i \in 1..L
      BY <1>16, <2>1
    <3> QED
      BY <1>1, <1>16, <2>1, <3>1 DEF Inv, ExecutedInOrder
  <2>2. CASE j = L + 1
    <3>1. i \in 1..L
      BY <2>2, <1>16
    <3>2. log[i].n \in 1..w
      BY <1>1, <1>2, <1>11, <1>16, <2>2, <3>1
    <3> QED
      BY <1>1, <1>6, <2>2, <3>1, <3>2
  <2> QED
    BY <2>1, <2>2
<1>17. ASSUME NEW j \in 1..(L + 1), NEW m \in 1..log'[j].n
       PROVE  \E i \in 1..j : log'[i].conn = log'[j].conn /\ log'[i].n = m
  <2>1. CASE j \in 1..L
    <3>1. PICK i \in 1..j : log[i].conn = log[j].conn /\ log[i].n = m
      BY <1>1, <2>1 DEF Inv, ExecutedInOrder
    <3>2. i \in 1..L
      BY <2>1
    <3> QED
      BY <1>1, <2>1, <3>1, <3>2
  <2>2. CASE j = L + 1 /\ m = w + 1
    BY <1>1, <1>6, <2>2
  <2>3. CASE j = L + 1 /\ m \in 1..w
    <3>1. /\ written[c][m] \in 1..L
          /\ log[written[c][m]].conn = c
          /\ log[written[c][m]].n = m
      BY <1>1, <1>5, <2>3 DEF Inv, AnswersMatch
    <3>2. PICK i \in 1..L : i = written[c][m]
      BY <3>1
    <3>3. i \in 1..j /\ log'[i] = log[i] /\ log'[j].conn = c
      BY <1>1, <1>2, <2>3, <3>2
    <3> QED
      BY <3>1, <3>2, <3>3
  <2> QED
    BY <1>1, <1>6, <2>1, <2>2, <2>3
<1>18. ExecutedInOrder'
  BY <1>1, <1>16, <1>17 DEF ExecutedInOrder
<1>19. IdleUntouched' /\ InboxNext' /\ SentAll'
  <2>1. UNCHANGED <<client, sent, inbox, phase, written>>
    BY <1>1
  <2>2. IdleUntouched'
    BY <2>1 DEF Inv, IdleUntouched
  <2>3. InboxNext'
    BY <2>1 DEF Inv, InboxNext, Open, Taken
  <2>4. SentAll'
    BY <2>1 DEF Inv, SentAll, Open, Taken
  <2> QED
    BY <2>2, <2>3, <2>4
<1> QED
  BY <1>8, <1>9, <1>10, <1>12, <1>13, <1>14, <1>15, <1>18, <1>19 DEF Inv

-----------------------------------------------------------------------------
(* Type correctness, one action at a time.                                 *)
LEMMA TypeClient ==
  ASSUME TypeOK, NEW c \in Conns
  PROVE  /\ Connect(c) => TypeOK'
         /\ Leave(c) => TypeOK'
         /\ \A kind \in Kinds \cup {"shutdown"} : Send(c, kind) => TypeOK'
<1>1. Connect(c) => TypeOK'
  BY DEF TypeOK, Connect, dbVars
<1>2. ASSUME Leave(c) PROVE TypeOK'
  <2>1. <<>> \in Seq(Frames)
    OBVIOUS
  <2>2. inbox' \in [Conns -> Seq(Frames)]
    BY <1>2, <2>1 DEF TypeOK, Leave
  <2> QED
    BY <1>2, <2>2 DEF TypeOK, Leave, connVars, dbVars
<1>3. ASSUME NEW kind \in Kinds \cup {"shutdown"}, Send(c, kind) PROVE TypeOK'
  <2> DEFINE f == [conn |-> c, n |-> sent[c] + 1, kind |-> kind]
  <2>1. sent[c] + 1 \in Nat \ {0}
    BY DEF TypeOK
  <2>2. f \in Frames
    BY <2>1 DEF Frames
  <2> HIDE DEF f
  <2>3. inbox[c] \in Seq(Frames) /\ Append(inbox[c], f) \in Seq(Frames)
    BY <2>2 DEF TypeOK
  <2> USE DEF f
  <2>4. inbox' \in [Conns -> Seq(Frames)]
    BY <1>3, <2>3 DEF TypeOK, Send
  <2>5. sent' \in [Conns -> Nat]
    BY <1>3, <2>1 DEF TypeOK, Send
  <2> QED
    BY <1>3, <2>4, <2>5 DEF TypeOK, Send, connVars, dbVars
<1> QED
  BY <1>1, <1>2, <1>3

LEMMA TypeListener == TypeOK /\ ListenerStep => TypeOK'
<1> SUFFICES ASSUME TypeOK, ListenerStep PROVE TypeOK'
  OBVIOUS
<1>1. ListenerExits => /\ listener' = "exited"
                       /\ phase' \in [Conns -> {"none", "backlog", "reading", "waiting", "closed"}]
  BY DEF TypeOK, ListenerExits
<1>2. CASE Poll
  BY <1>1, <1>2 DEF TypeOK, Poll, Alone, clientVars, dbVars
<1>3. ASSUME NEW c \in Conns, Accept(c) PROVE TypeOK'
  BY <1>3 DEF TypeOK, Accept, Alone, clientVars, dbVars
<1>4. CASE AcceptNone
  BY <1>4 DEF TypeOK, AcceptNone, Alone, clientVars, dbVars
<1>5. CASE AcceptError
  BY <1>1, <1>5 DEF TypeOK, AcceptError, Alone, clientVars, dbVars
<1> QED
  BY <1>2, <1>3, <1>4, <1>5 DEF ListenerStep

LEMMA TypeConn ==
  ASSUME TypeOK, NEW c \in Conns, ConnStep(c)
  PROVE  TypeOK'
<1>1. CASE ReadCommand(c)
  <2>1. inbox[c] \in Seq(Frames) /\ inbox[c] # <<>>
    BY <1>1 DEF TypeOK, ReadCommand
  <2>2. Head(inbox[c]) \in Frames /\ Tail(inbox[c]) \in Seq(Frames)
    BY <2>1, HeadTailProperties
  <2>3. Append(queue, Head(inbox[c])) \in Seq(Frames)
    BY <2>2 DEF TypeOK
  <2>4. inbox' \in [Conns -> Seq(Frames)]
    BY <1>1, <2>2 DEF TypeOK, ReadCommand
  <2>5. queue' \in Seq(Frames)
    BY <1>1, <2>3 DEF TypeOK, ReadCommand
  <2>6. phase' \in [Conns -> {"none", "backlog", "reading", "waiting", "closed"}]
    BY <1>1 DEF TypeOK, ReadCommand
  <2> QED
    BY <1>1, <2>4, <2>5, <2>6 DEF TypeOK, ReadCommand
<1>2. CASE ReadFails(c)
  BY <1>2 DEF TypeOK, ReadFails, Close, clientVars, dbVars
<1>3. CASE WriteReply(c)
  <2>1. Append(written[c], reply[c]) \in Seq(Nat)
    BY DEF TypeOK
  <2>2. written' \in [Conns -> Seq(Nat)]
    BY <1>3, <2>1 DEF TypeOK, WriteReply
  <2>3. phase' \in [Conns -> {"none", "backlog", "reading", "waiting", "closed"}]
    BY <1>3 DEF TypeOK, WriteReply
  <2> QED
    BY <1>3, <2>2, <2>3 DEF TypeOK, WriteReply, clientVars, dbVars
<1>4. CASE WriteFails(c)
  BY <1>4 DEF TypeOK, WriteFails, Close, clientVars, dbVars
<1>5. CASE ReplyDropped(c)
  BY <1>5 DEF TypeOK, ReplyDropped, Close, clientVars, dbVars
<1> QED
  BY <1>1, <1>2, <1>3, <1>4, <1>5 DEF ConnStep

LEMMA TypeDb == TypeOK /\ DbStep => TypeOK'
<1> SUFFICES ASSUME TypeOK, DbStep PROVE TypeOK'
  OBVIOUS
<1>1. CASE Execute
  <2>1. queue \in Seq(Frames) /\ queue # <<>> /\ log \in Seq(Frames)
    BY <1>1 DEF TypeOK, Execute
  <2>2. Head(queue) \in Frames /\ Tail(queue) \in Seq(Frames)
    BY <2>1, HeadTailProperties
  <2>3. Append(log, Head(queue)) \in Seq(Frames) /\ Len(log) + 1 \in Nat
    BY <2>1, <2>2
  <2> QED
    BY <1>1, <2>2, <2>3 DEF TypeOK, Execute, clientVars
<1>2. CASE StopListener
  BY <1>2 DEF TypeOK, StopListener, clientVars, connVars
<1>3. CASE Return
  BY <1>3 DEF TypeOK, Return, clientVars, connVars
<1> QED
  BY <1>1, <1>2, <1>3 DEF DbStep

LEMMA TypeStep == TypeOK /\ [Next]_vars => TypeOK'
<1> SUFFICES ASSUME TypeOK, [Next]_vars PROVE TypeOK'
  OBVIOUS
<1>1. CASE UNCHANGED vars
  BY <1>1 DEF TypeOK, vars, clientVars, connVars, dbVars
<1>2. CASE Next
  BY <1>2, TypeClient, TypeListener, TypeConn, TypeDb DEF Next
<1> QED
  BY <1>1, <1>2

-----------------------------------------------------------------------------
(* The steps that are quiet.                                               *)
LEMMA ClientQuiet ==
  ASSUME Inv, NEW c \in Conns, Connect(c) \/ Leave(c)
  PROVE  Quiet
<1>1. phase \in [Conns -> {"none", "backlog", "reading", "waiting", "closed"}] /\ DbKnows /\ IdleUntouched
  BY DEF Inv, TypeOK
<1>2. CASE Connect(c)
  BY <1>1, <1>2 DEF Quiet, Inv, TypeOK, IdleUntouched, DbKnows, Connect, dbVars
<1>3. CASE Leave(c)
  BY <1>1, <1>3 DEF Quiet, Inv, TypeOK, IdleUntouched, DbKnows, Leave, connVars, dbVars
<1> QED
  BY <1>2, <1>3

LEMMA ListenerQuiet == ASSUME Inv, ListenerStep PROVE Quiet
<1>1. Alone
  BY DEF ListenerStep, Poll, Accept, AcceptNone, AcceptError
<1>2. \A c \in Conns : \/ phase'[c] = phase[c]
                       \/ phase[c] = "backlog" /\ phase'[c] \in {"reading", "closed"}
  <2>1. CASE Poll \/ AcceptNone \/ AcceptError
    BY <2>1 DEF Poll, AcceptNone, AcceptError, ListenerExits
  <2>2. CASE \E c \in Conns : Accept(c)
    BY <2>2 DEF Accept, Inv, TypeOK
  <2> QED
    BY <2>1, <2>2 DEF ListenerStep
<1> QED
  BY <1>1, <1>2 DEF Quiet, Alone, clientVars, dbVars, Inv, IdleUntouched, DbKnows

LEMMA CloseQuiet ==
  ASSUME Inv, NEW c \in Conns, ReadFails(c) \/ ReplyDropped(c)
  PROVE  Quiet
<1>1. UNCHANGED <<client, sent, inbox, written, reply, queue, db, log>>
  BY DEF ReadFails, ReplyDropped, Close, clientVars, dbVars
<1>2. /\ \A d \in Conns : d # c => phase'[d] = phase[d]
      /\ phase'[c] = "closed"
      /\ \/ phase[c] = "reading"
         \/ phase[c] = "waiting" /\ \A f \in Range(queue) : f.conn # c
  BY DEF ReadFails, ReplyDropped, Close, Inv, TypeOK
<1> QED
  BY <1>1, <1>2 DEF Quiet, Inv, IdleUntouched, DbKnows

LEMMA DbQuiet == ASSUME Inv, StopListener \/ Return PROVE Quiet
<1>1. UNCHANGED <<client, sent, inbox, phase, written, reply, log>> /\ db # "serving" /\ db' # "serving"
  BY DEF StopListener, Return, clientVars, connVars
<1>2. queue' = queue \/ queue' = <<>>
  BY DEF StopListener, Return
<1>3. db' = "returned" => queue' = <<>>
  BY DEF StopListener, Return
<1> QED
  BY <1>1, <1>2, <1>3 DEF Quiet, Inv, IdleUntouched

LEMMA StutterQuiet == ASSUME Inv, UNCHANGED vars PROVE Quiet
BY DEF Quiet, vars, clientVars, connVars, dbVars, Inv, IdleUntouched, DbKnows

-----------------------------------------------------------------------------
LEMMA InvInit == Init => Inv
<1> SUFFICES ASSUME Init PROVE Inv
  OBVIOUS
<1>1. TypeOK
  <2>1. <<>> \in Seq(Frames) /\ <<>> \in Seq(Nat) /\ 0 \in Nat
    OBVIOUS
  <2> QED
    BY <2>1 DEF Init, TypeOK
<1>2. DOMAIN <<>> = {} /\ Len(<<>>) = 0
  OBVIOUS
<1> QED
  BY <1>1, <1>2 DEF Init, Inv, IdleUntouched, InboxNext, SentAll, QueuedNext, QueuedOnce,
     ReplyNext, LogKept, DbKnows, ExecutedInOrder, AnswersMatch, NothingAfterShutdown,
     Open, Taken

LEMMA InvStep == Inv /\ [Next]_vars => Inv'
<1> SUFFICES ASSUME Inv, [Next]_vars PROVE Inv'
  OBVIOUS
<1>1. TypeOK'
  BY TypeStep DEF Inv
<1>2. CASE UNCHANGED vars
  BY <1>1, <1>2, StutterQuiet, QuietKeeps
<1>3. ASSUME NEW c \in Conns, Connect(c) \/ Leave(c) PROVE Inv'
  BY <1>1, <1>3, ClientQuiet, QuietKeeps
<1>4. ASSUME NEW c \in Conns, NEW kind \in Kinds \cup {"shutdown"}, Send(c, kind) PROVE Inv'
  BY <1>1, <1>4, SendKeeps
<1>5. CASE ListenerStep
  BY <1>1, <1>5, ListenerQuiet, QuietKeeps
<1>6. ASSUME NEW c \in Conns, ConnStep(c) PROVE Inv'
  <2>1. CASE ReadCommand(c)
    BY <1>1, <2>1, ReadKeeps
  <2>2. CASE ReadFails(c) \/ ReplyDropped(c)
    BY <1>1, <2>2, CloseQuiet, QuietKeeps
  <2>3. CASE WriteReply(c)
    BY <1>1, <2>3, WriteKeeps
  <2>4. CASE WriteFails(c)
    BY <1>1, <2>4, WriteFailsKeeps
  <2> QED
    BY <1>6, <2>1, <2>2, <2>3, <2>4 DEF ConnStep
<1>7. CASE DbStep
  <2>1. CASE Execute
    BY <1>1, <2>1, ExecuteKeeps
  <2>2. CASE StopListener \/ Return
    BY <1>1, <2>2, DbQuiet, QuietKeeps
  <2> QED
    BY <1>7, <2>1, <2>2 DEF DbStep
<1> QED
  BY <1>2, <1>3, <1>4, <1>5, <1>6, <1>7 DEF Next

(* The inductive invariant holds throughout every run.                     *)
THEOREM Invariance == Spec => []Inv
BY InvInit, InvStep, PTL DEF Spec

(* Of each connection the server executes the commands in the order they   *)
(* were sent, each once and none skipped, whatever the other clients and   *)
(* the faults do.                                                          *)
THEOREM InOrder == Spec => []ExecutedInOrder
<1>1. Inv => ExecutedInOrder
  BY DEF Inv
<1> QED
  BY <1>1, Invariance, PTL

(* The i-th answer a client is sent is the answer to its i-th command.     *)
THEOREM AnswersCount == Spec => []AnswersMatch
<1>1. Inv => AnswersMatch
  BY DEF Inv
<1> QED
  BY <1>1, Invariance, PTL

(* No command is executed after Shutdown.                                  *)
THEOREM ShutdownLast == Spec => []NothingAfterShutdown
<1>1. Inv => NothingAfterShutdown
  BY DEF Inv
<1> QED
  BY <1>1, Invariance, PTL

-----------------------------------------------------------------------------
(* What the promise that answers come first depends on.                    *)
Dependable == /\ "write" \notin Faults
              /\ "large" \notin Kinds

(* How a connection comes to be closed.                                    *)
LEMMA ClosedHow ==
  ASSUME Dependable, Inv, [Next]_vars, NEW c \in Conns,
         phase[c] # "closed", phase'[c] = "closed", client'[c] = "connected"
  PROVE  \/ WriteReply(c)
         \/ /\ UNCHANGED <<written, log>>
            /\ phase[c] = "waiting" => reply[c] = 0
<1>1. phase \in [Conns -> {"none", "backlog", "reading", "waiting", "closed"}]
  BY DEF Inv, TypeOK
<1>2. ASSUME NEW d \in Conns, Connect(d) PROVE FALSE
  BY <1>1, <1>2 DEF Connect
<1>3. ASSUME NEW d \in Conns, Leave(d) \/ \E kind \in Kinds \cup {"shutdown"} : Send(d, kind)
      PROVE  FALSE
  BY <1>3 DEF Leave, Send, connVars
<1>4. CASE ListenerStep
  <2>1. Alone
    BY <1>4 DEF ListenerStep, Poll, Accept, AcceptNone, AcceptError
  <2>2. phase[c] = "backlog"
    BY <1>1, <1>4 DEF ListenerStep, Poll, Accept, AcceptNone, AcceptError, ListenerExits
  <2> QED
    BY <2>1, <2>2 DEF Alone, dbVars
<1>5. ASSUME NEW d \in Conns, ConnStep(d), d # c PROVE FALSE
  BY <1>1, <1>5 DEF ConnStep, ReadCommand, ReadFails, WriteReply, WriteFails, ReplyDropped, Close
<1>6. CASE ReadCommand(c) \/ ReadFails(c) \/ ReplyDropped(c)
  BY <1>6 DEF ReadCommand, ReadFails, ReplyDropped, Close, dbVars
<1>7. ~WriteFails(c)
  <2> SUFFICES ASSUME WriteFails(c) PROVE FALSE
    OBVIOUS
  <2>1. client[c] = "connected"
    BY DEF WriteFails, Close, clientVars
  <2>2. Waiting(c) /\ log[reply[c]].kind = "large"
    BY <2>1 DEF WriteFails, Dependable
  <2>3. log[reply[c]] \in Frames
    BY <2>2, ReplyInHand DEF Inv, TypeOK
  <2> QED
    BY <2>2, <2>3 DEF Frames, Dependable
<1>8. ~DbStep /\ ~UNCHANGED vars
  BY DEF DbStep, Execute, StopListener, Return, connVars, vars
<1> QED
  BY <1>2, <1>3, <1>4, <1>5, <1>6, <1>7, <1>8 DEF Next, ConnStep

(* A closed connection stays as it is.                                     *)
LEMMA ClosedStays ==
  ASSUME Inv, [Next]_vars, NEW c \in Conns, phase[c] = "closed", client'[c] = "connected"
  PROVE  client[c] = "connected" /\ written'[c] = written[c]
<1>1. client[c] # "idle"
  BY DEF Inv, IdleUntouched
<1>2. \A d \in Conns : ~WriteReply(d) \/ d # c
  BY DEF WriteReply, Waiting
<1>3. written'[c] = written[c]
  <2>1. CASE \E d \in Conns : WriteReply(d)
    BY <1>2, <2>1 DEF WriteReply, Inv, TypeOK
  <2>2. CASE ~ \E d \in Conns : WriteReply(d)
    BY <2>2 DEF Next, Connect, Leave, Send, ListenerStep, Poll, Accept, AcceptNone, AcceptError,
       Alone, ConnStep, ReadCommand, ReadFails, WriteFails, ReplyDropped, Close, DbStep, Execute,
       StopListener, Return, vars, connVars
  <2> QED
    BY <2>1, <2>2
<1>4. client'[c] = client[c]
  <2>1. CASE \E d \in Conns : Connect(d) \/ Leave(d)
    BY <1>1, <2>1 DEF Connect, Leave, Inv, TypeOK
  <2>2. CASE ~ \E d \in Conns : Connect(d) \/ Leave(d)
    BY <2>2 DEF Next, Send, ListenerStep, Poll, Accept, AcceptNone, AcceptError,
       Alone, ConnStep, ReadCommand, ReadFails, WriteReply, WriteFails, ReplyDropped, Close, DbStep,
       Execute, StopListener, Return, vars, clientVars
  <2> QED
    BY <2>1, <2>2
<1> QED
  BY <1>3, <1>4

LEMMA AnsweredStep ==
  ASSUME Dependable, Inv, TypeOK', ExecutedIsAnswered, [Next]_vars
  PROVE  ExecutedIsAnswered'
<1> SUFFICES ASSUME NEW i \in DOMAIN log', NEW c \in Conns, c = log'[i].conn,
                    phase'[c] = "closed", client'[c] = "connected"
             PROVE  i \in Range(written'[c])
  <2>1. \A i \in DOMAIN log' : log'[i] \in Frames
    BY DEF TypeOK
  <2>2. \A i \in DOMAIN log' : log'[i].conn \in Conns
    BY <2>1 DEF Frames
  <2> QED
    BY <2>2 DEF ExecutedIsAnswered
<1>1. i \in DOMAIN log /\ log[i].conn = c
  <2>1. CASE Execute
    <3>1. PICK f \in Frames, L \in Nat :
            /\ DOMAIN log = 1..L /\ DOMAIN log' = 1..(L + 1)
            /\ \A j \in 1..L : log'[j] = log[j]
            /\ log'[L + 1] = f
            /\ 1 \in DOMAIN queue /\ f = queue[1]
            /\ UNCHANGED phase
      BY <2>1, ExecuteStep
    <3>2. phase'[f.conn] = "waiting"
      BY <3>1 DEF Inv, QueuedNext
    <3>3. i # L + 1
      BY <3>1, <3>2
    <3> QED
      BY <3>1, <3>3
  <2>2. CASE ~Execute
    <3>1. log' = log
      BY <2>2 DEF Next, Connect, Leave, Send, ListenerStep, Poll, Accept, AcceptNone, AcceptError,
         Alone, ConnStep, ReadCommand, ReadFails, WriteReply, WriteFails, ReplyDropped, Close,
         DbStep, StopListener, Return, vars, dbVars
    <3> QED
      BY <3>1
  <2> QED
    BY <2>1, <2>2
<1>2. AnsweredOrLast(i)
  BY <1>1 DEF Inv, LogKept
<1>3. written[c] \in Seq(Nat)
  BY DEF Inv, TypeOK
<1>4. CASE phase[c] = "closed"
  <2>1. client[c] = "connected" /\ written'[c] = written[c]
    BY <1>4, ClosedStays
  <2> QED
    BY <1>1, <1>4, <2>1 DEF ExecutedIsAnswered
<1>5. CASE phase[c] # "closed" /\ WriteReply(c)
  <2>1. /\ written'[c] = Append(written[c], reply[c])
        /\ reply[c] \in Nat
    BY <1>5 DEF WriteReply, Inv, TypeOK
  <2>2. PICK w \in Nat : w = Len(written[c]) /\ DOMAIN written[c] = 1..w
    BY <1>3, LenProperties
  <2>3. /\ DOMAIN written'[c] = 1..(w + 1)
        /\ \A k \in 1..w : written'[c][k] = written[c][k]
        /\ written'[c][w + 1] = reply[c]
    BY <1>3, <2>1, <2>2
  <2>4. CASE reply[c] = i
    BY <2>2, <2>3, <2>4 DEF Range
  <2>5. CASE reply[c] # i
    <3>1. log[i].n \in 1..w /\ written[c][log[i].n] = i
      BY <1>1, <1>2, <1>5, <2>2, <2>5 DEF AnsweredOrLast
    <3>2. log[i].n \in DOMAIN written'[c] /\ written'[c][log[i].n] = i
      BY <2>2, <2>3, <3>1
    <3> QED
      BY <3>2 DEF Range
  <2> QED
    BY <2>4, <2>5
<1>6. CASE phase[c] # "closed" /\ ~WriteReply(c)
  <2>1. written' = written /\ (phase[c] = "waiting" => reply[c] = 0)
    BY <1>6, ClosedHow
  <2>2. i # 0
    BY <1>1 DEF Inv, TypeOK
  <2>3. log[i].n \in DOMAIN written[c] /\ written[c][log[i].n] = i
    BY <1>1, <1>2, <1>6, <2>1, <2>2 DEF AnsweredOrLast
  <2> QED
    BY <2>1, <2>3 DEF Range
<1> QED
  BY <1>4, <1>5, <1>6

(* Where writes do not fail, replies fit the frame limit and the process   *)
(* outlives the server, no command that was executed goes unanswered on a  *)
(* connection whose client is still there.                                 *)
THEOREM AnswersFirst ==
  ASSUME Dependable
  PROVE  Spec => []ExecutedIsAnswered
<1>1. Init => ExecutedIsAnswered
  BY DEF Init, ExecutedIsAnswered
<1>2. Inv /\ Inv' /\ ExecutedIsAnswered /\ [Next]_vars => ExecutedIsAnswered'
  <2>1. Inv' => TypeOK'
    BY DEF Inv
  <2> QED
    BY <2>1, AnsweredStep
<1> QED
  BY <1>1, <1>2, Invariance, PTL DEF Spec

-----------------------------------------------------------------------------
(* The binary.  What has been sent on the demo's connection, what of it    *)
(* was answered and where the demo's client stands agree.                  *)

(* The frames of the demo's client that the server still has or has        *)
(* executed.                                                               *)
DemoFrames == Range(inbox[Demo]) \cup {f \in Range(queue) \cup Range(log) : f.conn = Demo}

(* A demo that has met no surprise is in its script: the one frame after   *)
(* it is its Shutdown, and no frame before is one.                         *)
ScriptKept ==
  /\ \A f \in DemoFrames : f.n <= sent[Demo]
  /\ demo = "script" =>
       /\ sent[Demo] <= ScriptLength + 1
       /\ \A f \in DemoFrames : f.kind = "shutdown" <=> f.n = ScriptLength + 1

Over == demo \in {"ok", "failed"}

DemoLinked ==
  /\ action = "serve" => sent[Demo] = 0
  /\ phase[Demo] = "none" => sent[Demo] = 0
  /\ client[Demo] = "connected" => phase[Demo] # "none"
  /\ client[Demo] = "gone" => Over \/ phase[Demo] = "none"
  /\ Over => /\ client[Demo] = "gone"
             /\ AllAnswered \/ phase[Demo] \in {"none", "closed"}

DemoAnswered == \A i \in DOMAIN log : log[i].conn = Demo =>
  i \in Range(written[Demo]) \/ log[i].kind = "large"

(* Neither the demo's client nor its connection's thread ends on a command *)
(* that was executed and can be answered.                                  *)
LeftAnswered == Over \/ phase[Demo] = "closed" => DemoAnswered

Joined == process = "ended" => action = "serve" \/ Over

ProcessInv == /\ Inv
              /\ action \in {"serve", "demo"}
              /\ ScriptKept
              /\ DemoLinked
              /\ LeftAnswered
              /\ Joined
              /\ DemoSuccess

-----------------------------------------------------------------------------
(* What the invariant says of the demo.                                    *)

(* A command executed and not answered is the one its thread is at.        *)
LEMMA DemoUnanswered ==
  ASSUME Inv, NEW i \in DOMAIN log, log[i].conn = Demo, i \notin Range(written[Demo])
  PROVE  /\ log[i].n = Len(written[Demo]) + 1
         /\ \/ phase[Demo] = "waiting" /\ reply[Demo] = i
            \/ phase[Demo] = "closed"
<1>1. AnsweredOrLast(i)
  BY DEF Inv, LogKept
<1> QED
  BY <1>1 DEF AnsweredOrLast, Range

LEMMA DemoIsConn == Demo \in Conns /\ Demo # CtrlC
BY ProcessAssumption

LEMMA LogIsSent ==
  ASSUME ProcessInv, NEW i \in DOMAIN log, log[i].conn = Demo
  PROVE  log[i] \in DemoFrames /\ log[i].n <= sent[Demo] /\ log[i].n \in Nat \ {0}
<1>1. log[i] \in DemoFrames
  BY DEF DemoFrames, Range
<1>2. TypeOK
  BY DEF ProcessInv, Inv
<1> QED
  BY <1>1, <1>2, FrameFields DEF ProcessInv, ScriptKept

LEMMA QueueIsSent ==
  ASSUME ProcessInv, NEW i \in DOMAIN queue, queue[i].conn = Demo
  PROVE  queue[i].n <= sent[Demo]
<1>1. queue[i] \in DemoFrames
  BY DEF DemoFrames, Range
<1> QED
  BY <1>1 DEF ProcessInv, ScriptKept

(* When everything sent is answered, no command is left to answer.         *)
LEMMA AllAnsweredIsAll ==
  ASSUME ProcessInv, AllAnswered
  PROVE  /\ \A i \in DOMAIN log : log[i].conn = Demo => i \in Range(written[Demo])
         /\ ~Waiting(Demo)
         /\ \A i \in DOMAIN queue : queue[i].conn # Demo
<1>1. PICK w \in Nat : w = Len(written[Demo]) /\ w = sent[Demo]
  <2>1. written[Demo] \in Seq(Nat)
    BY DemoIsConn DEF ProcessInv, Inv, TypeOK
  <2> QED
    BY <2>1, LenProperties DEF AllAnswered
<1>2. ASSUME NEW i \in DOMAIN log, log[i].conn = Demo, i \notin Range(written[Demo])
      PROVE  FALSE
  BY <1>1, <1>2, LogIsSent, DemoUnanswered DEF ProcessInv
<1>3. ~Waiting(Demo)
  <2> SUFFICES ASSUME Waiting(Demo) PROVE FALSE
    OBVIOUS
  <2>1. /\ reply[Demo] \in DOMAIN log
        /\ log[reply[Demo]].conn = Demo
        /\ log[reply[Demo]].n = w + 1
    BY <1>1, DemoIsConn, ReplyInHand DEF ProcessInv
  <2> QED
    BY <1>1, <2>1, LogIsSent
<1>4. ASSUME NEW i \in DOMAIN queue, queue[i].conn = Demo PROVE FALSE
  <2>1. queue[i].n = w + 1
    BY <1>1, <1>4 DEF ProcessInv, Inv, QueuedNext
  <2> QED
    BY <1>1, <1>4, <2>1, QueueIsSent
<1> QED
  BY <1>2, <1>3, <1>4

(* Once the demo is over or its connection closed, nothing of it moves.    *)
LEMMA NothingLeft ==
  ASSUME ProcessInv, Over \/ phase[Demo] = "closed"
  PROVE  ~Waiting(Demo) /\ \A i \in DOMAIN queue : queue[i].conn # Demo
<1>1. CASE AllAnswered
  BY <1>1, AllAnsweredIsAll
<1>2. CASE phase[Demo] \in {"none", "closed"}
  BY <1>2 DEF Waiting, ProcessInv, Inv, QueuedNext
<1> QED
  BY <1>1, <1>2 DEF ProcessInv, DemoLinked

-----------------------------------------------------------------------------
(* A step of another thread.                                               *)
OtherMoves == Running /\ Quietly /\
  (OthersStep \/ ListenerStep \/ (\E c \in Conns : HandlesConnection(c)) \/ DbStep)

LEMMA OtherMovesNext == ASSUME OtherMoves PROVE Next
<1>1. CASE OthersStep
  <2>1. Others \subseteq Conns /\ Conns \cap {CtrlC} \subseteq Conns
    BY DEF Others
  <2> QED
    BY <1>1, <2>1 DEF OthersStep, Next
<1>2. CASE \E c \in Conns : HandlesConnection(c)
  BY <1>2 DEF HandlesConnection, Next, ConnStep
<1> QED
  BY <1>1, <1>2 DEF OtherMoves, Next

(* Which of them touch what.                                               *)
LEMMA OtherLog == ASSUME OtherMoves PROVE log' = log \/ Execute
<1>1. ASSUME NEW c \in Conns, HandlesConnection(c) PROVE log' = log
  BY <1>1 DEF HandlesConnection, ReadCommand, ReadFails, WriteReply, WriteFails, ReplyDropped,
     Close, dbVars
<1>2. CASE OthersStep
  BY <1>2 DEF OthersStep, Connect, Leave, Send, dbVars
<1>3. CASE ListenerStep
  BY <1>3 DEF ListenerStep, Poll, Accept, AcceptNone, AcceptError, Alone, dbVars
<1>4. CASE DbStep
  BY <1>4 DEF DbStep, StopListener, Return
<1> QED
  BY <1>1, <1>2, <1>3, <1>4 DEF OtherMoves

LEMMA OtherWrites ==
  ASSUME ProcessInv, OtherMoves
  PROVE  written'[Demo] = written[Demo] \/ WriteReply(Demo)
<1>0. written \in [Conns -> Seq(Nat)]
  BY DEF ProcessInv, Inv, TypeOK
<1>1. ASSUME NEW c \in Conns, HandlesConnection(c)
      PROVE  written'[Demo] = written[Demo] \/ WriteReply(Demo)
  <2>1. CASE WriteReply(c) /\ c # Demo
    BY <1>0, <2>1, DemoIsConn DEF WriteReply
  <2>2. CASE ~WriteReply(c)
    BY <1>1, <2>2 DEF HandlesConnection, ReadCommand, ReadFails, WriteFails, ReplyDropped, Close
  <2> QED
    BY <2>1, <2>2
<1>2. CASE OthersStep
  BY <1>2 DEF OthersStep, Connect, Leave, Send, connVars
<1>3. CASE ListenerStep
  BY <1>3 DEF ListenerStep, Poll, Accept, AcceptNone, AcceptError, Alone
<1>4. CASE DbStep
  BY <1>4 DEF DbStep, Execute, StopListener, Return, connVars
<1> QED
  BY <1>1, <1>2, <1>3, <1>4 DEF OtherMoves

(* The client of the demo is no other thread's affair, nor is the start of *)
(* its connection.                                                         *)
LEMMA OtherClients ==
  ASSUME ProcessInv, OtherMoves
  PROVE  /\ client'[Demo] = client[Demo] /\ sent'[Demo] = sent[Demo]
         /\ phase[Demo] = "none" <=> phase'[Demo] = "none"
<1>0. /\ client \in [Conns -> {"idle", "connected", "gone"}]
      /\ sent \in [Conns -> Nat]
      /\ phase \in [Conns -> {"none", "backlog", "reading", "waiting", "closed"}]
  BY DEF ProcessInv, Inv, TypeOK
<1>1. ASSUME NEW c \in Conns, c # Demo,
             Connect(c) \/ Leave(c) \/ \E kind \in Kinds \cup {"shutdown"} : Send(c, kind)
      PROVE  /\ client'[Demo] = client[Demo] /\ sent'[Demo] = sent[Demo]
             /\ phase'[Demo] = phase[Demo]
  BY <1>0, <1>1, DemoIsConn DEF Connect, Leave, Send, connVars
<1>2. CASE OthersStep
  <2>1. \A c \in Others \cup (Conns \cap {CtrlC}) : c \in Conns /\ c # Demo
    BY DemoIsConn DEF Others
  <2> QED
    BY <1>1, <1>2, <2>1 DEF OthersStep
<1>3. CASE ListenerStep
  BY <1>0, <1>3, DemoIsConn DEF ListenerStep, Poll, Accept, AcceptNone, AcceptError, ListenerExits,
     Alone, clientVars
<1>4. ASSUME NEW c \in Conns, HandlesConnection(c)
      PROVE  /\ client' = client /\ sent' = sent
             /\ phase[Demo] = "none" <=> phase'[Demo] = "none"
  BY <1>0, <1>4, DemoIsConn DEF HandlesConnection, ReadCommand, ReadFails, WriteReply, WriteFails,
     ReplyDropped, Waiting, Close, clientVars
<1>5. CASE DbStep
  BY <1>5 DEF DbStep, Execute, StopListener, Return, connVars, clientVars
<1> QED
  BY <1>2, <1>3, <1>4, <1>5 DEF OtherMoves

(* Frames of the demo come from its client only.                           *)
LEMMA OtherInbox ==
  ASSUME ProcessInv, OtherMoves
  PROVE  \/ inbox'[Demo] = inbox[Demo] /\ ~ReadCommand(Demo)
         \/ inbox'[Demo] = Tail(inbox[Demo]) /\ ReadCommand(Demo)
<1>0. inbox \in [Conns -> Seq(Frames)]
  BY DEF ProcessInv, Inv, TypeOK
<1>1. ASSUME NEW c \in Conns, c # Demo,
             Connect(c) \/ Leave(c) \/ \E kind \in Kinds \cup {"shutdown"} : Send(c, kind)
      PROVE  inbox'[Demo] = inbox[Demo] /\ phase'[Demo] = phase[Demo]
  <2>1. phase \in [Conns -> {"none", "backlog", "reading", "waiting", "closed"}]
    BY DEF ProcessInv, Inv, TypeOK
  <2> QED
    BY <1>0, <1>1, <2>1, DemoIsConn DEF Connect, Leave, Send, connVars
<1>2. ReadCommand(Demo) => phase[Demo] # phase'[Demo] /\ inbox'[Demo] = Tail(inbox[Demo])
  <2>1. phase \in [Conns -> {"none", "backlog", "reading", "waiting", "closed"}]
    BY DEF ProcessInv, Inv, TypeOK
  <2> QED
    BY <1>0, <2>1, DemoIsConn DEF ReadCommand
<1>3. CASE OthersStep
  <2>1. \A c \in Others \cup (Conns \cap {CtrlC}) : c \in Conns /\ c # Demo
    BY DemoIsConn DEF Others
  <2> QED
    BY <1>1, <1>2, <1>3, <2>1 DEF OthersStep
<1>4. ASSUME NEW c \in Conns, HandlesConnection(c), ~ReadCommand(Demo)
      PROVE  inbox'[Demo] = inbox[Demo]
  <2>1. CASE ReadCommand(c)
    BY <1>0, <1>4, <2>1, DemoIsConn DEF ReadCommand
  <2>2. CASE ~ReadCommand(c)
    BY <1>4, <2>2 DEF HandlesConnection, ReadFails, WriteReply, WriteFails, ReplyDropped, Close,
       clientVars
  <2> QED
    BY <2>1, <2>2
<1>5. CASE ListenerStep \/ DbStep
  <2>1. inbox' = inbox
    BY <1>5 DEF ListenerStep, Poll, Accept, AcceptNone, AcceptError, Alone, DbStep, Execute,
       StopListener, Return, clientVars
  <2> QED
    BY <1>2, <2>1
<1> QED
  BY <1>2, <1>3, <1>4, <1>5 DEF OtherMoves

LEMMA OtherQueue ==
  ASSUME ProcessInv, OtherMoves
  PROVE  \/ queue' = queue
         \/ queue' = <<>>
         \/ Execute
         \/ \E c \in Conns : ReadCommand(c) /\ queue' = Append(queue, Head(inbox[c]))
<1>1. CASE OthersStep
  BY <1>1 DEF OthersStep, Connect, Leave, Send, dbVars
<1>2. CASE ListenerStep
  BY <1>2 DEF ListenerStep, Poll, Accept, AcceptNone, AcceptError, Alone, dbVars
<1>3. ASSUME NEW c \in Conns, HandlesConnection(c)
      PROVE  queue' = queue \/ (ReadCommand(c) /\ queue' = Append(queue, Head(inbox[c])))
  BY <1>3 DEF HandlesConnection, ReadCommand, ReadFails, WriteReply, WriteFails, ReplyDropped,
     Close, dbVars
<1>4. CASE DbStep
  BY <1>4 DEF DbStep, StopListener, Return
<1> QED
  BY <1>1, <1>2, <1>3, <1>4 DEF OtherMoves

LEMMA RangeOfTail ==
  ASSUME NEW S, NEW s \in Seq(S), s # <<>>
  PROVE  Range(Tail(s)) \subseteq Range(s) /\ Head(s) \in Range(s)
<1>1. PICK k \in Nat : k = Len(s) /\ DOMAIN s = 1..k /\ k # 0
  BY EmptySeq, LenProperties
<1>2. /\ Tail(s) \in Seq(S) /\ Len(Tail(s)) = k - 1
      /\ \A i \in 1..Len(Tail(s)) : Tail(s)[i] = s[i + 1]
      /\ Head(s) = s[1]
  BY <1>1, HeadTailProperties
<1>3. DOMAIN Tail(s) = 1..(k - 1)
  BY <1>1, <1>2, LenProperties
<1> QED
  BY <1>1, <1>2, <1>3 DEF Range

LEMMA RangeOfAppend ==
  ASSUME NEW S, NEW s \in Seq(S), NEW x
  PROVE  Range(Append(s, x)) = Range(s) \cup {x}
<1>1. PICK k \in Nat : k = Len(s) /\ DOMAIN s = 1..k
  BY LenProperties
<1>2. DOMAIN Append(s, x) = 1..(k + 1)
  BY <1>1
<1>3. \A i \in 1..k : Append(s, x)[i] = s[i]
  BY <1>1
<1>4. Append(s, x)[k + 1] = x
  BY <1>1
<1> QED
  BY <1>1, <1>2, <1>3, <1>4 DEF Range

LEMMA OtherFrames ==
  ASSUME ProcessInv, OtherMoves
  PROVE  DemoFrames' \subseteq DemoFrames
<1>0. inbox \in [Conns -> Seq(Frames)] /\ queue \in Seq(Frames) /\ log \in Seq(Frames)
  BY DEF ProcessInv, Inv, TypeOK
<1>1. Range(inbox'[Demo]) \subseteq Range(inbox[Demo])
  <2>1. CASE ReadCommand(Demo)
    <3>1. inbox[Demo] \in Seq(Frames) /\ inbox[Demo] # <<>>
      BY <1>0, <2>1, DemoIsConn DEF ReadCommand
    <3> QED
      BY <2>1, <3>1, OtherInbox, RangeOfTail
  <2>2. CASE ~ReadCommand(Demo)
    BY <2>2, OtherInbox
  <2> QED
    BY <2>1, <2>2
<1>2. ASSUME Execute
      PROVE  Range(queue') \subseteq Range(queue) /\ Range(log') \subseteq Range(log) \cup Range(queue)
  <2>1. queue # <<>> /\ queue' = Tail(queue) /\ log' = Append(log, Head(queue))
    BY <1>2 DEF Execute
  <2> QED
    BY <1>0, <2>1, RangeOfTail, RangeOfAppend
<1>3. Range(log') \subseteq Range(log) \cup Range(queue)
  BY <1>2, OtherLog
<1>4. ASSUME NEW f \in Range(queue'), f.conn = Demo PROVE f \in Range(queue) \cup Range(inbox[Demo])
  <2>1. CASE queue' = queue \/ Execute
    BY <1>2, <1>4, <2>1
  <2>2. CASE queue' = <<>>
    <3>1. Range(<<>>) = {}
      BY DEF Range
    <3> QED
      BY <1>4, <2>2, <3>1
  <2>3. ASSUME NEW c \in Conns, ReadCommand(c), queue' = Append(queue, Head(inbox[c]))
        PROVE  f \in Range(queue) \cup Range(inbox[Demo])
    <3>1. inbox[c] \in Seq(Frames) /\ inbox[c] # <<>> /\ phase[c] = "reading"
      BY <1>0, <2>3 DEF ReadCommand
    <3>2. Head(inbox[c]) \in Range(inbox[c]) /\ Head(inbox[c]).conn = c
      <4>1. Head(inbox[c]) \in Range(inbox[c])
        BY <3>1, RangeOfTail
      <4> QED
        BY <3>1, <4>1 DEF Range, ProcessInv, Inv, InboxNext, Open
    <3>3. f \in Range(queue) \/ f = Head(inbox[c])
      BY <1>0, <1>4, <2>3, RangeOfAppend
    <3> QED
      BY <1>4, <3>2, <3>3
  <2> QED
    BY <2>1, <2>2, <2>3, OtherQueue
<1> QED
  BY <1>1, <1>3, <1>4 DEF DemoFrames

LEMMA OtherScript ==
  ASSUME ProcessInv, OtherMoves
  PROVE  ScriptKept'
<1>1. demo' = demo
  BY DEF OtherMoves, Quietly
<1>2. sent'[Demo] = sent[Demo]
  BY OtherClients
<1> QED
  BY <1>1, <1>2, OtherFrames DEF ProcessInv, ScriptKept

(* A closed connection stays closed, and this is how it comes to be.       *)
LEMMA OtherClosed ==
  ASSUME ProcessInv, OtherMoves, phase[Demo] = "closed"
  PROVE  phase'[Demo] = "closed"
<1>0. phase \in [Conns -> {"none", "backlog", "reading", "waiting", "closed"}]
  BY DEF ProcessInv, Inv, TypeOK
<1>1. ASSUME NEW c \in Conns, c # Demo,
             Connect(c) \/ Leave(c) \/ \E kind \in Kinds \cup {"shutdown"} : Send(c, kind)
      PROVE  phase'[Demo] = phase[Demo]
  BY <1>0, <1>1, DemoIsConn DEF Connect, Leave, Send, connVars
<1>2. CASE OthersStep
  <2>1. \A c \in Others \cup (Conns \cap {CtrlC}) : c \in Conns /\ c # Demo
    BY DemoIsConn DEF Others
  <2> QED
    BY <1>1, <1>2, <2>1 DEF OthersStep
<1>3. CASE ListenerStep
  BY <1>0, <1>3, DemoIsConn DEF ListenerStep, Poll, Accept, AcceptNone, AcceptError, ListenerExits
<1>4. ASSUME NEW c \in Conns, HandlesConnection(c) PROVE phase'[Demo] = "closed"
  BY <1>0, <1>4, DemoIsConn DEF HandlesConnection, ReadCommand, ReadFails, WriteReply, WriteFails,
     ReplyDropped, Waiting, Close
<1>5. CASE DbStep
  BY <1>5 DEF DbStep, Execute, StopListener, Return, connVars
<1> QED
  BY <1>2, <1>3, <1>4, <1>5 DEF OtherMoves

LEMMA OtherCloses ==
  ASSUME ProcessInv, OtherMoves, phase[Demo] # "closed", phase'[Demo] = "closed"
  PROVE  /\ log' = log
         /\ \/ WriteReply(Demo)
            \/ /\ written'[Demo] = written[Demo]
               /\ \/ phase[Demo] = "waiting" => reply[Demo] = 0
                  \/ client[Demo] = "gone"
                  \/ log[reply[Demo]].kind = "large"
<1>0. phase \in [Conns -> {"none", "backlog", "reading", "waiting", "closed"}]
  BY DEF ProcessInv, Inv, TypeOK
<1>1. ASSUME NEW c \in Conns, c # Demo,
             Connect(c) \/ Leave(c) \/ \E kind \in Kinds \cup {"shutdown"} : Send(c, kind)
      PROVE  phase'[Demo] = phase[Demo]
  BY <1>0, <1>1, DemoIsConn DEF Connect, Leave, Send, connVars
<1>2. ~OthersStep
  <2>1. \A c \in Others \cup (Conns \cap {CtrlC}) : c \in Conns /\ c # Demo
    BY DemoIsConn DEF Others
  <2> QED
    BY <1>1, <2>1 DEF OthersStep
<1>3. CASE ListenerStep
  <2>1. log' = log /\ written' = written
    BY <1>3 DEF ListenerStep, Poll, Accept, AcceptNone, AcceptError, Alone, dbVars
  <2>2. phase[Demo] = "backlog"
    BY <1>0, <1>3, DemoIsConn DEF ListenerStep, Poll, Accept, AcceptNone, AcceptError, ListenerExits
  <2> QED
    BY <2>1, <2>2
<1>4. ASSUME NEW c \in Conns, HandlesConnection(c), c # Demo PROVE phase'[Demo] = phase[Demo]
  BY <1>0, <1>4, DemoIsConn DEF HandlesConnection, ReadCommand, ReadFails, WriteReply, WriteFails,
     ReplyDropped, Close
<1>5. CASE ReadCommand(Demo) \/ ReadFails(Demo) \/ ReplyDropped(Demo)
  BY <1>5 DEF ReadCommand, ReadFails, ReplyDropped, Close, dbVars
<1>6. CASE WriteReply(Demo)
  BY <1>6 DEF WriteReply, dbVars
<1>7. CASE WriteFails(Demo) /\ (client[Demo] = "gone" \/ log[reply[Demo]].kind = "large")
  BY <1>7 DEF WriteFails, Close, dbVars
<1>8. ~DbStep
  BY DEF DbStep, Execute, StopListener, Return, connVars
<1> QED
  BY <1>2, <1>3, <1>4, <1>5, <1>6, <1>7, <1>8 DEF OtherMoves, HandlesConnection

LEMMA OtherLinked ==
  ASSUME ProcessInv, OtherMoves
  PROVE  DemoLinked'
<1>1. /\ client'[Demo] = client[Demo] /\ sent'[Demo] = sent[Demo]
      /\ phase[Demo] = "none" <=> phase'[Demo] = "none"
      /\ demo' = demo /\ action' = action
  BY OtherClients DEF OtherMoves, Quietly
<1>2. Over => written'[Demo] = written[Demo]
  BY NothingLeft, OtherWrites DEF WriteReply
<1> QED
  BY <1>1, <1>2, OtherClosed DEF ProcessInv, DemoLinked, Over, AllAnswered

(* The log only grows, and not by a frame of a connection with none queued. *)
LEMMA OtherLogs ==
  ASSUME ProcessInv, OtherMoves, NEW i \in DOMAIN log', log'[i].conn = Demo,
         \A k \in DOMAIN queue : queue[k].conn # Demo
  PROVE  i \in DOMAIN log /\ log'[i] = log[i]
<1>1. CASE Execute
  <2>1. PICK f \in Frames, L \in Nat :
          /\ DOMAIN log = 1..L /\ DOMAIN log' = 1..(L + 1)
          /\ \A j \in 1..L : log'[j] = log[j]
          /\ log'[L + 1] = f
          /\ 1 \in DOMAIN queue /\ f = queue[1]
    BY <1>1, ExecuteStep DEF ProcessInv
  <2>2. i # L + 1
    BY <2>1
  <2> QED
    BY <2>1, <2>2
<1> QED
  BY <1>1, OtherLog

LEMMA OtherLeaves ==
  ASSUME ProcessInv, OtherMoves
  PROVE  LeftAnswered'
<1> SUFFICES ASSUME Over \/ phase'[Demo] = "closed"
             PROVE  DemoAnswered'
  BY DEF LeftAnswered, Over, OtherMoves, Quietly
<1>1. CASE Over \/ phase[Demo] = "closed"
  <2>1. /\ \A k \in DOMAIN queue : queue[k].conn # Demo
        /\ written'[Demo] = written[Demo]
    BY <1>1, NothingLeft, OtherWrites DEF WriteReply
  <2>2. DemoAnswered
    BY <1>1 DEF ProcessInv, LeftAnswered
  <2> QED
    BY <2>1, <2>2, OtherLogs DEF DemoAnswered
<1>2. CASE ~Over /\ phase[Demo] # "closed"
  <2>1. /\ log' = log
        /\ \/ WriteReply(Demo)
           \/ /\ written'[Demo] = written[Demo]
              /\ \/ phase[Demo] = "waiting" => reply[Demo] = 0
                 \/ client[Demo] = "gone"
                 \/ log[reply[Demo]].kind = "large"
    BY <1>2, OtherCloses
  <2>2. client[Demo] # "gone"
    BY <1>2, OtherClients DEF ProcessInv, DemoLinked
  <2> SUFFICES ASSUME NEW i \in DOMAIN log, log[i].conn = Demo
               PROVE  i \in Range(written'[Demo]) \/ log[i].kind = "large"
    BY <2>1 DEF DemoAnswered
  <2>3. i # 0
    BY DEF ProcessInv, Inv, TypeOK
  <2>4. CASE i \in Range(written[Demo])
    <3>1. CASE WriteReply(Demo)
      <4>1. written[Demo] \in Seq(Nat) /\ written'[Demo] = Append(written[Demo], reply[Demo])
        BY <3>1, DemoIsConn DEF WriteReply, ProcessInv, Inv, TypeOK
      <4> QED
        BY <2>4, <4>1, RangeOfAppend
    <3> QED
      BY <2>1, <2>4, <3>1
  <2>5. CASE i \notin Range(written[Demo])
    <3>1. phase[Demo] = "waiting" /\ reply[Demo] = i
      BY <1>2, <2>5, DemoUnanswered DEF ProcessInv
    <3>2. CASE WriteReply(Demo)
      <4>1. written[Demo] \in Seq(Nat) /\ written'[Demo] = Append(written[Demo], reply[Demo])
        BY <3>2, DemoIsConn DEF WriteReply, ProcessInv, Inv, TypeOK
      <4> QED
        BY <3>1, <4>1, RangeOfAppend
    <3> QED
      BY <2>1, <2>2, <2>3, <3>1, <3>2
  <2> QED
    BY <2>4, <2>5
<1> QED
  BY <1>1, <1>2

(* Nothing follows the Shutdown a successful demo ended with.              *)
LEMMA OtherSuccess ==
  ASSUME ProcessInv, OtherMoves
  PROVE  DemoSuccess'
<1> SUFFICES ASSUME demo = "ok" PROVE DemoSuccess'
  BY DEF DemoSuccess, OtherMoves, Quietly
<1>1. DemoSuccess
  BY DEF ProcessInv
<1>2. log' = log
  <2>1. Len(log) \in DOMAIN log
    <3>1. log \in Seq(Frames) /\ log # <<>>
      BY <1>1 DEF DemoSuccess, ShutdownExecuted, ProcessInv, Inv, TypeOK
    <3> QED
      BY <3>1, EmptySeq, LenProperties
  <2>2. ~Execute
    BY <1>1, <2>1 DEF DemoSuccess, ShutdownExecuted, ProcessInv, Inv, DbKnows, Execute
  <2> QED
    BY <2>2, OtherLog
<1>3. written'[Demo] = written[Demo]
  BY NothingLeft, OtherWrites DEF WriteReply, Over
<1> QED
  BY <1>1, <1>2, <1>3 DEF DemoSuccess, ShutdownExecuted

LEMMA OtherJoined ==
  ASSUME ProcessInv, OtherMoves
  PROVE  Joined'
BY DEF OtherMoves, Quietly, ProcessInv, Joined, Over

LEMMA OtherKeeps == ASSUME ProcessInv, OtherMoves PROVE ProcessInv'
<1>1. Inv'
  BY OtherMovesNext, InvStep DEF ProcessInv
<1>2. action' = action
  BY DEF OtherMoves, Quietly
<1> QED
  BY <1>1, <1>2, OtherScript, OtherLinked, OtherLeaves, OtherJoined, OtherSuccess DEF ProcessInv

-----------------------------------------------------------------------------
(* The steps of the demo's client.                                         *)

LEMMA DemoConnectsKeeps == ASSUME ProcessInv, DemoConnects PROVE ProcessInv'
<1>1. /\ Running /\ action = "demo" /\ demo \in {"script", "failing"}
      /\ Connect(Demo)
      /\ UNCHANGED <<action, process, demo>>
  BY DEF DemoConnects, Demonstrates, Quietly
<1>2. Inv'
  BY <1>1, DemoIsConn, InvStep DEF ProcessInv, Next
<1>3. /\ client[Demo] = "idle"
      /\ phase[Demo] = "none"
      /\ \/ client'[Demo] = "gone" /\ phase'[Demo] = "none"
         \/ client'[Demo] = "connected" /\ phase'[Demo] = "backlog"
      /\ UNCHANGED <<sent, inbox, queue, log>>
  BY <1>1, DemoIsConn DEF Connect, dbVars, ProcessInv, Inv, TypeOK, IdleUntouched
<1>4. ScriptKept'
  BY <1>1, <1>3 DEF ProcessInv, ScriptKept, DemoFrames
<1>5. DemoLinked' /\ LeftAnswered'
  BY <1>1, <1>3 DEF ProcessInv, DemoLinked, LeftAnswered, Over
<1>6. Joined' /\ DemoSuccess'
  BY <1>1 DEF Running, Joined, DemoSuccess
<1> QED
  BY <1>1, <1>2, <1>4, <1>5, <1>6 DEF ProcessInv

(* A command of the demo is a frame of its own, one further on.            *)
LEMMA DemoSendsKeeps ==
  ASSUME ProcessInv, NEW kind \in Kinds, Demonstrates(Send(Demo, kind)), Quietly,
         demo = "script" => /\ sent[Demo] < ScriptLength + 1
                            /\ kind = "shutdown" <=> sent[Demo] = ScriptLength
  PROVE  ProcessInv'
<1> DEFINE f == [conn |-> Demo, n |-> sent[Demo] + 1, kind |-> kind]
<1>1. /\ Running /\ action = "demo" /\ demo \in {"script", "failing"}
      /\ Send(Demo, kind)
      /\ UNCHANGED <<action, process, demo>>
  BY DEF Demonstrates, Quietly
<1>2. Inv'
  BY <1>1, DemoIsConn, InvStep DEF ProcessInv, Next
<1>3. /\ client[Demo] = "connected"
      /\ phase[Demo] # "closed"
      /\ sent[Demo] \in Nat
      /\ sent'[Demo] = sent[Demo] + 1
      /\ inbox[Demo] \in Seq(Frames)
      /\ inbox'[Demo] = Append(inbox[Demo], f)
      /\ UNCHANGED <<client, phase, written, queue, log>>
  BY <1>1, DemoIsConn DEF Send, connVars, dbVars, ProcessInv, Inv, TypeOK
<1>4. Range(inbox'[Demo]) = Range(inbox[Demo]) \cup {f}
  BY <1>3, RangeOfAppend
<1>5. DemoFrames' = DemoFrames \cup {f}
  BY <1>3, <1>4 DEF DemoFrames
<1>6. \A g \in DemoFrames : g.n \in Nat
  <2>1. \A g \in Frames : g.n \in Nat
    BY DEF Frames
  <2>2. DemoFrames \subseteq Frames
    <3>1. queue \in Seq(Frames) /\ log \in Seq(Frames)
      BY DEF ProcessInv, Inv, TypeOK
    <3>2. Range(inbox[Demo]) \subseteq Frames /\ Range(queue) \subseteq Frames /\ Range(log) \subseteq Frames
      BY <1>3, <3>1 DEF Range
    <3> QED
      BY <3>2 DEF DemoFrames
  <2> QED
    BY <2>1, <2>2
<1>7. /\ f.n = sent[Demo] + 1
      /\ f.kind = kind
  OBVIOUS
<1> HIDE DEF f
<1>8. \A g \in DemoFrames' : g.n <= sent'[Demo]
  BY <1>3, <1>5, <1>6, <1>7 DEF ProcessInv, ScriptKept
<1>9. demo = "script" => /\ sent'[Demo] <= ScriptLength + 1
                         /\ \A g \in DemoFrames' : g.kind = "shutdown" <=> g.n = ScriptLength + 1
  <2> SUFFICES ASSUME demo = "script"
               PROVE  /\ sent'[Demo] <= ScriptLength + 1
                      /\ \A g \in DemoFrames' : g.kind = "shutdown" <=> g.n = ScriptLength + 1
    OBVIOUS
  <2>1. ScriptLength \in Nat
    BY ProcessAssumption
  <2>2. sent'[Demo] <= ScriptLength + 1
    BY <1>3, <2>1
  <2>3. f.kind = "shutdown" <=> f.n = ScriptLength + 1
    BY <1>3, <1>7, <2>1
  <2>4. \A g \in DemoFrames : g.kind = "shutdown" <=> g.n = ScriptLength + 1
    BY DEF ProcessInv, ScriptKept
  <2> QED
    BY <1>5, <2>2, <2>3, <2>4
<1>10. ScriptKept'
  BY <1>1, <1>8, <1>9 DEF ScriptKept
<1>11. DemoLinked'
  BY <1>1, <1>3 DEF ProcessInv, DemoLinked, Over
<1>12. LeftAnswered'
  BY <1>1, <1>3 DEF LeftAnswered, Over
<1>13. Joined' /\ DemoSuccess'
  BY <1>1 DEF Running, Joined, DemoSuccess
<1> QED
  BY <1>1, <1>2, <1>10, <1>11, <1>12, <1>13 DEF ProcessInv

LEMMA NextCommandKeeps == ASSUME ProcessInv, DemoSends PROVE ProcessInv'
<1>1. PICK kind \in Kinds \ {"shutdown", "bad"} :
        /\ Demonstrates(Send(Demo, kind))
        /\ ~ScriptDone
        /\ Quietly
  BY DEF DemoSends
<1>2. sent[Demo] < ScriptLength + 1 /\ sent[Demo] # ScriptLength
  <2>1. sent[Demo] \in Nat /\ ScriptLength \in Nat
    BY DemoIsConn, ProcessAssumption DEF ProcessInv, Inv, TypeOK
  <2> QED
    BY <1>1, <2>1 DEF ScriptDone
<1> QED
  BY <1>1, <1>2, DemoSendsKeeps

(* The script has one Shutdown at most: were it sent, all answered would   *)
(* mean that it is.                                                        *)
LEMMA ShutdownOnce ==
  ASSUME ProcessInv, demo = "script", AllAnswered, ~ShutdownAnswered
  PROVE  sent[Demo] # ScriptLength + 1
<1> SUFFICES ASSUME sent[Demo] = ScriptLength + 1 PROVE FALSE
  OBVIOUS
<1>1. ScriptLength \in Nat
  BY ProcessAssumption
<1>2. written[Demo] \in Seq(Nat)
  BY DemoIsConn DEF ProcessInv, Inv, TypeOK
<1>3. Len(written[Demo]) = ScriptLength + 1 /\ ScriptLength + 1 \in DOMAIN written[Demo]
  BY <1>1, <1>2, LenProperties DEF AllAnswered
<1>4. PICK i \in DOMAIN log : /\ i = written[Demo][ScriptLength + 1]
                              /\ log[i].conn = Demo
                              /\ log[i].n = ScriptLength + 1
  BY <1>3, DemoIsConn DEF ProcessInv, Inv, AnswersMatch
<1>5. log[i].kind = "shutdown"
  BY <1>4, LogIsSent DEF ProcessInv, ScriptKept
<1>6. log # <<>>
  BY <1>4
<1>7. i \in Range(written[Demo])
  BY <1>3, <1>4 DEF Range
<1> QED
  BY <1>5, <1>6, <1>7 DEF ShutdownAnswered

LEMMA LastCommandKeeps == ASSUME ProcessInv, DemoSendsShutdown PROVE ProcessInv'
<1>1. /\ Demonstrates(Send(Demo, "shutdown"))
      /\ AllAnswered
      /\ ~ShutdownAnswered
      /\ demo = "failing" \/ ScriptDone
      /\ Quietly
  BY DEF DemoSendsShutdown
<1>2. "shutdown" \in Kinds
  BY ProcessAssumption
<1>3. demo = "script" => sent[Demo] < ScriptLength + 1 /\ sent[Demo] = ScriptLength
  <2>1. sent[Demo] \in Nat /\ ScriptLength \in Nat
    BY DemoIsConn, ProcessAssumption DEF ProcessInv, Inv, TypeOK
  <2>2. demo = "script" => sent[Demo] <= ScriptLength + 1 /\ sent[Demo] # ScriptLength + 1
    BY <1>1, ShutdownOnce DEF ProcessInv, ScriptKept
  <2> QED
    BY <1>1, <2>1, <2>2 DEF ScriptDone
<1> QED
  BY <1>1, <1>2, <1>3, DemoSendsKeeps

LEMMA SurpriseKeeps == ASSUME ProcessInv, DemoIsSurprised PROVE ProcessInv'
<1>1. /\ UNCHANGED vars
      /\ UNCHANGED <<action, process>>
      /\ Running /\ demo = "script" /\ demo' = "failing"
  BY DEF DemoIsSurprised, Demonstrates
<1>2. Inv'
  BY <1>1, InvStep DEF ProcessInv
<1>3. UNCHANGED <<client, sent, inbox, phase, written, queue, log>>
  BY <1>1 DEF vars, clientVars, connVars, dbVars
<1>4. ScriptKept'
  BY <1>1, <1>3 DEF ProcessInv, ScriptKept, DemoFrames
<1>5. DemoLinked' /\ LeftAnswered'
  BY <1>1, <1>3 DEF ProcessInv, DemoLinked, LeftAnswered, DemoAnswered, Over, AllAnswered
<1>6. Joined' /\ DemoSuccess'
  BY <1>1 DEF Running, Joined, DemoSuccess
<1> QED
  BY <1>1, <1>2, <1>4, <1>5, <1>6 DEF ProcessInv

(* The demo's client leaves with nothing of its own unanswered.            *)
LEMMA LeavingKeeps ==
  ASSUME ProcessInv, NEW outcome \in {"ok", "failed"}, DemoLeaves(outcome),
         Running, action = "demo",
         AllAnswered \/ phase[Demo] \in {"none", "closed"},
         DemoAnswered, DemoSuccess'
  PROVE  ProcessInv'
<1>1. /\ demo' = outcome
      /\ client' = [client EXCEPT ![Demo] = "gone"]
      /\ UNCHANGED <<sent, inbox, phase, reply, written, listener, stopping, queue, db, log>>
      /\ UNCHANGED <<action, process>>
  BY DEF DemoLeaves, connVars, dbVars
<1>2. TypeOK'
  BY <1>1 DEF ProcessInv, Inv, TypeOK
<1>3. /\ client'[Demo] = "gone"
      /\ \A c \in Conns : client'[c] \in {client[c], "gone"}
  BY <1>1, DemoIsConn DEF ProcessInv, Inv, TypeOK
<1>4. Quiet
  BY <1>1, <1>3 DEF Quiet, ProcessInv, Inv, IdleUntouched, DbKnows
<1>5. Inv'
  BY <1>2, <1>4, QuietKeeps DEF ProcessInv
<1>6. Over'
  BY <1>1 DEF Over
<1>7. ScriptKept'
  BY <1>1 DEF ProcessInv, ScriptKept, DemoFrames
<1>8. DemoLinked'
  BY <1>1, <1>3, <1>6 DEF ProcessInv, DemoLinked, AllAnswered
<1>9. LeftAnswered' /\ Joined'
  BY <1>1, <1>6 DEF LeftAnswered, DemoAnswered, Joined
<1> QED
  BY <1>1, <1>5, <1>7, <1>8, <1>9 DEF ProcessInv

(* The answered Shutdown is the last command and the end of the script.    *)
LEMMA ScriptAnswered ==
  ASSUME ProcessInv, demo = "script", AllAnswered, ShutdownAnswered
  PROVE  /\ ShutdownExecuted
         /\ log[Len(log)].conn = Demo
         /\ log[Len(log)].n = ScriptLength + 1
         /\ Len(written[Demo]) = ScriptLength + 1
<1>1. PICK i \in Range(written[Demo]) : log[i].kind = "shutdown"
  BY DEF ShutdownAnswered
<1>2. PICK j \in DOMAIN written[Demo] : i = written[Demo][j]
  BY DEF Range
<1>3. i \in DOMAIN log /\ log[i].conn = Demo /\ log[i].n = j
  BY <1>2, DemoIsConn DEF ProcessInv, Inv, AnswersMatch
<1>4. i = Len(log)
  BY <1>1, <1>3 DEF ProcessInv, Inv, NothingAfterShutdown
<1>5. log[i].n = ScriptLength + 1
  BY <1>1, <1>3, LogIsSent DEF ProcessInv, ScriptKept
<1>6. sent[Demo] <= ScriptLength + 1
  BY DEF ProcessInv, ScriptKept
<1>7. Len(written[Demo]) = ScriptLength + 1
  <2>1. PICK w \in Nat : w = Len(written[Demo]) /\ DOMAIN written[Demo] = 1..w
    <3>1. written[Demo] \in Seq(Nat)
      BY DemoIsConn DEF ProcessInv, Inv, TypeOK
    <3> QED
      BY <3>1, LenProperties
  <2>2. ScriptLength \in Nat
    BY ProcessAssumption
  <2> QED
    BY <1>2, <1>3, <1>5, <1>6, <2>1, <2>2 DEF AllAnswered
<1>8. log # <<>>
  BY DEF ShutdownAnswered
<1> QED
  BY <1>1, <1>3, <1>4, <1>5, <1>7, <1>8 DEF ShutdownExecuted

LEMMA EndKeeps == ASSUME ProcessInv, DemoEnds PROVE ProcessInv'
<1> DEFINE outcome == IF demo = "script" THEN "ok" ELSE "failed"
<1>1. /\ Running /\ action = "demo"
      /\ AllAnswered
      /\ ShutdownAnswered
      /\ DemoLeaves(outcome)
  BY DEF DemoEnds, Demonstrates
<1>2. outcome \in {"ok", "failed"}
  OBVIOUS
<1>3. DemoAnswered
  BY <1>1, AllAnsweredIsAll DEF DemoAnswered
<1>4. demo' = outcome /\ UNCHANGED <<written, log>>
  BY <1>1 DEF DemoLeaves, connVars, dbVars
<1>5. outcome = "ok" => demo = "script"
  OBVIOUS
<1> HIDE DEF outcome
<1>6. DemoSuccess'
  BY <1>1, <1>4, <1>5, ScriptAnswered DEF DemoSuccess, ShutdownExecuted
<1> QED
  BY <1>1, <1>2, <1>3, <1>6, LeavingKeeps

LEMMA CutOffKeeps == ASSUME ProcessInv, DemoIsCutOff PROVE ProcessInv'
<1>1. /\ Running /\ action = "demo" /\ demo \in {"script", "failing"}
      /\ \/ client[Demo] = "gone"
         \/ phase[Demo] = "closed"
         \/ sent[Demo] = 0
      /\ DemoLeaves("failed")
  BY DEF DemoIsCutOff, Demonstrates
<1>2. ~Over
  BY <1>1 DEF Over
<1>3. DemoAnswered /\ (AllAnswered \/ phase[Demo] \in {"none", "closed"})
  <2>1. CASE phase[Demo] = "closed"
    BY <2>1 DEF ProcessInv, LeftAnswered
  <2>2. phase[Demo] # "closed" => sent[Demo] = 0
    BY <1>1, <1>2 DEF ProcessInv, DemoLinked
  <2>3. CASE sent[Demo] = 0
    <3>1. \A i \in DOMAIN log : log[i].conn # Demo
      BY <2>3, LogIsSent
    <3>2. DemoAnswered
      BY <3>1 DEF DemoAnswered
    <3>3. DOMAIN written[Demo] = {}
      BY <3>1, DemoIsConn DEF ProcessInv, Inv, AnswersMatch
    <3>4. written[Demo] \in Seq(Nat)
      BY DemoIsConn DEF ProcessInv, Inv, TypeOK
    <3>5. Len(written[Demo]) = 0
      <4>1. PICK w \in Nat : w = Len(written[Demo]) /\ DOMAIN written[Demo] = 1..w
        BY <3>4, LenProperties
      <4>2. 1 \notin 1..w
        BY <3>3, <4>1
      <4> QED
        BY <4>1, <4>2
    <3> QED
      BY <2>3, <3>2, <3>5 DEF AllAnswered
  <2> QED
    BY <2>1, <2>2, <2>3
<1>4. DemoSuccess'
  BY <1>1 DEF DemoLeaves, DemoSuccess
<1> QED
  BY <1>1, <1>3, <1>4, LeavingKeeps

-----------------------------------------------------------------------------
(* The process.                                                            *)
LEMMA ExitKeeps == ASSUME ProcessInv, ExitProcess PROVE ProcessInv'
<1>1. /\ db = "returned"
      /\ action = "demo" => Over
      /\ phase' = [c \in Conns |-> IF phase[c] = "none" THEN "none" ELSE "closed"]
      /\ UNCHANGED <<client, sent, inbox, reply, written, listener, stopping, queue, db, log>>
      /\ UNCHANGED <<action, demo>>
  BY DEF ExitProcess, Over, clientVars, dbVars
<1>2. /\ \A c \in Conns : phase'[c] = IF phase[c] = "none" THEN "none" ELSE "closed"
      /\ phase' \in [Conns -> {"none", "backlog", "reading", "waiting", "closed"}]
  BY <1>1
<1>3. TypeOK'
  BY <1>1, <1>2 DEF ProcessInv, Inv, TypeOK
<1>4. Range(queue) = {}
  BY <1>1 DEF ProcessInv, Inv, DbKnows, Range
<1>5. Quiet
  <2>1. \A c \in Conns : \/ phase'[c] = phase[c]
                         \/ /\ phase[c] \in {"none", "backlog", "reading"}
                            /\ phase'[c] \in {"backlog", "reading", "closed"}
                         \/ /\ phase[c] = "waiting"
                            /\ phase'[c] = "closed"
                            /\ \A f \in Range(queue) : f.conn # c
    BY <1>2, <1>4 DEF ProcessInv, Inv, TypeOK
  <2>2. \A c \in Conns : client[c] = "idle" => phase'[c] = "none"
    BY <1>2 DEF ProcessInv, Inv, IdleUntouched
  <2> QED
    BY <1>1, <2>1, <2>2 DEF Quiet, ProcessInv, Inv, DbKnows
<1>6. Inv'
  BY <1>3, <1>5, QuietKeeps DEF ProcessInv
<1>7. ScriptKept'
  BY <1>1 DEF ProcessInv, ScriptKept, DemoFrames
<1>8. DemoLinked'
  BY <1>1, <1>2, DemoIsConn DEF ProcessInv, DemoLinked, Over
<1>9. LeftAnswered'
  <2>1. CASE Over
    BY <1>1, <2>1 DEF ProcessInv, LeftAnswered, DemoAnswered
  <2>2. CASE ~Over
    <3>1. sent[Demo] = 0
      BY <1>1, <2>2 DEF ProcessInv, DemoLinked
    <3>2. \A i \in DOMAIN log : log[i].conn # Demo
      BY <3>1, LogIsSent
    <3> QED
      BY <1>1, <3>2 DEF LeftAnswered, DemoAnswered
  <2> QED
    BY <2>1, <2>2
<1>10. Joined' /\ DemoSuccess'
  BY <1>1 DEF ProcessInv, Joined, Over, DemoSuccess, ShutdownExecuted
<1> QED
  BY <1>1, <1>6, <1>7, <1>8, <1>9, <1>10 DEF ProcessInv

LEMMA StillKeeps ==
  ASSUME ProcessInv, UNCHANGED <<vars, action, demo>>, process' = "ended" => process = "ended"
  PROVE  ProcessInv'
<1>1. Inv'
  BY InvStep DEF ProcessInv
<1>2. UNCHANGED <<client, sent, inbox, phase, written, queue, log>>
  BY DEF vars, clientVars, connVars, dbVars
<1>3. ScriptKept'
  BY <1>2 DEF ProcessInv, ScriptKept, DemoFrames
<1>4. DemoLinked' /\ LeftAnswered'
  BY <1>2 DEF ProcessInv, DemoLinked, LeftAnswered, DemoAnswered, Over, AllAnswered
<1>5. Joined' /\ DemoSuccess'
  BY <1>2 DEF ProcessInv, Joined, Over, DemoSuccess, ShutdownExecuted
<1> QED
  BY <1>1, <1>3, <1>4, <1>5 DEF ProcessInv

LEMMA ProcessInvInit == ProcessInit => ProcessInv
<1> SUFFICES ASSUME ProcessInit PROVE ProcessInv
  OBVIOUS
<1>1. Init /\ action \in {"serve", "demo"} /\ process = "starting" /\ demo = "script"
  BY DEF ProcessInit
<1>2. Inv
  BY <1>1, InvInit
<1>3. /\ client[Demo] = "idle" /\ sent[Demo] = 0 /\ inbox[Demo] = <<>> /\ phase[Demo] = "none"
      /\ queue = <<>> /\ log = <<>>
  BY <1>1, DemoIsConn DEF Init
<1>4. DemoFrames = {}
  BY <1>3 DEF DemoFrames, Range
<1>5. ScriptKept
  BY <1>3, <1>4, ProcessAssumption DEF ScriptKept
<1>6. DemoLinked /\ LeftAnswered /\ Joined /\ DemoSuccess
  BY <1>1, <1>3 DEF DemoLinked, LeftAnswered, Joined, DemoSuccess, Over
<1> QED
  BY <1>1, <1>2, <1>5, <1>6 DEF ProcessInv

LEMMA ProcessInvStep == ProcessInv /\ [ProcessNext]_processVars => ProcessInv'
<1> SUFFICES ASSUME ProcessInv, [ProcessNext]_processVars PROVE ProcessInv'
  OBVIOUS
<1>1. CASE UNCHANGED processVars
  BY <1>1, StillKeeps DEF processVars
<1>2. CASE Start
  BY <1>2, StillKeeps DEF Start
<1>3. CASE DemoStep
  BY <1>3, DemoConnectsKeeps, NextCommandKeeps, SurpriseKeeps, LastCommandKeeps, EndKeeps, CutOffKeeps
     DEF DemoStep
<1>4. CASE OtherMoves
  BY <1>4, OtherKeeps
<1>5. CASE ExitProcess
  BY <1>5, ExitKeeps
<1> QED
  BY <1>1, <1>2, <1>3, <1>4, <1>5 DEF ProcessNext, OtherMoves

(* The binary keeps the server's invariant, and more about its own client. *)
THEOREM ProcessInvariance == ProcessSpec => []ProcessInv
BY ProcessInvInit, ProcessInvStep, PTL DEF ProcessSpec

(* A demo reports success only if its whole script and its own Shutdown    *)
(* were executed and answered and nothing was executed after.              *)
THEOREM SuccessIsMeant == ProcessSpec => []DemoSuccess
<1>1. ProcessInv => DemoSuccess
  BY DEF ProcessInv
<1> QED
  BY <1>1, ProcessInvariance, PTL

(* The process never ends on a command of the demo that was executed and   *)
(* could be answered.                                                      *)
THEOREM DemoHearsAll == ProcessSpec => []DemoIsAnswered
<1>1. ProcessInv => DemoIsAnswered
  <2> SUFFICES ASSUME ProcessInv, process = "ended" PROVE DemoAnswered
    BY DEF DemoIsAnswered, DemoAnswered
  <2>1. CASE Over
    BY <2>1 DEF ProcessInv, LeftAnswered
  <2>2. CASE ~Over
    <3>1. sent[Demo] = 0
      BY <2>2 DEF ProcessInv, Joined, DemoLinked
    <3> QED
      BY <3>1, LogIsSent DEF DemoAnswered
  <2> QED
    BY <2>1, <2>2
<1> QED
  BY <1>1, ProcessInvariance, PTL

=============================================================================
