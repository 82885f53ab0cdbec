------------------------------ MODULE Framing -------------------------------
(***************************************************************************)
(* One direction of a connection, byte for byte (src/src/protocol.rs):     *)
(* write_frame puts a length and a payload on a TCP stream, read_frame     *)
(* takes them off it.  The stream keeps order and loses nothing, but it    *)
(* hands over any number of bytes at a time, and a write may end anywhere. *)
(* The peer may also be a program that knows nothing of frames.            *)
(***************************************************************************)
EXTENDS Lengths

CONSTANTS MaxFrame,      \* MAX_FRAME_SIZE
          Payloads,      \* what serialized commands or responses look like
          Foreign,       \* the byte streams of other programs
          MaxWrites      \* how many frames a writer begins

ASSUME FramingAssumption ==
  /\ MaxFrame \in Nat
  /\ MaxWrites \in Nat
  /\ Payloads \subseteq Seq(Digits)
  /\ Foreign \subseteq Seq(Digits)
  /\ \A p \in Payloads : Len(p) \in Sizes

VARIABLES writer,      \* "idle", "writing", "closed", or "foreign"
          unsent,     \* what write_all has still to hand over
          begun,       \* history: the frames whose write began
          stream,      \* history: all bytes handed over
          wire,        \* those the reader has not taken
          got,         \* the bytes read_exact has filled in
          want,        \* the length it has read, <<>> while it reads one
          reader,      \* "reading", or how it ended
          delivered    \* the frames returned

writerVars == <<writer, unsent, begun>>
framingVars == <<writerVars, stream, wire, got, want, reader, delivered>>

FramingInit == /\ \/ writer = "idle" /\ wire = <<>>
                  \/ writer = "foreign" /\ wire \in Foreign
               /\ stream = wire
               /\ unsent = <<>>
               /\ begun = <<>>
               /\ got = <<>>
               /\ want = <<>>
               /\ reader = "reading"
               /\ delivered = <<>>

-----------------------------------------------------------------------------
(* Writing.  A payload over the limit is refused before anything is        *)
(* written, and the writer may go on with another.                         *)

WriteFrame(p) == /\ writer = "idle"
                 /\ Len(begun) < MaxWrites
                 /\ Len(p) <= MaxFrame
                 /\ writer' = "writing"
                 /\ unsent' = Framed(p)
                 /\ begun' = Append(begun, p)
                 /\ UNCHANGED <<stream, wire, got, want, reader, delivered>>

WriteRefused(p) == writer = "idle" /\ Len(p) > MaxFrame /\ UNCHANGED framingVars

(* write_all hands over some bytes after the other.                        *)
WriteSome(n) == /\ writer = "writing"
                /\ n \in 1..Len(unsent)
                /\ wire' = wire \o SubSeq(unsent, 1, n)
                /\ stream' = stream \o SubSeq(unsent, 1, n)
                /\ unsent' = SubSeq(unsent, n + 1, Len(unsent))
                /\ writer' = IF n = Len(unsent) THEN "idle" ELSE "writing"
                /\ UNCHANGED <<begun, got, want, reader, delivered>>

(* Fault: the connection is used again after a write that failed.          *)
WriteFailsGoesOn == /\ writer = "writing"
                    /\ writer' = "idle"
                    /\ unsent' = <<>>
                    /\ UNCHANGED <<begun, stream, wire, got, want, reader, delivered>>

(* A write times out or the peer resets: every caller then drops the       *)
(* stream.  (The demo client tries one more frame, but only a broken       *)
(* connection makes its writes fail, and that takes nothing any more.)     *)
WriteFails == /\ writer = "writing"
              /\ writer' = "closed"
              /\ UNCHANGED <<unsent, begun, stream, wire, got, want, reader, delivered>>

WriterLeaves == /\ writer \in {"idle", "foreign"}
                /\ writer' = "closed"
                /\ UNCHANGED <<unsent, begun, stream, wire, got, want, reader, delivered>>

-----------------------------------------------------------------------------
(* Reading.  read_exact fills a buffer of a known length from reads that   *)
(* return what is there, but never more than what is still missing.        *)

Need == IF want = <<>> THEN Width ELSE want[1]

Missing == Need - Len(got)

(* Fault: a read takes what is there, and the rest is lost.                *)
ReadAll(n) == /\ reader = "reading"
              /\ Missing > 0
              /\ n \in 1..Len(wire)
              /\ got' = got \o SubSeq(wire, 1, IF n < Missing THEN n ELSE Missing)
              /\ wire' = SubSeq(wire, n + 1, Len(wire))
              /\ UNCHANGED <<writerVars, stream, want, reader, delivered>>

ReadSome(n) == /\ reader = "reading"
               /\ n \in 1..Missing
               /\ n <= Len(wire)
               /\ got' = got \o SubSeq(wire, 1, n)
               /\ wire' = SubSeq(wire, n + 1, Len(wire))
               /\ UNCHANGED <<writerVars, stream, want, reader, delivered>>

(* Any error ends the use of the stream, in the middle of a frame or not.  *)
Fail(kind) == /\ reader' = kind
              /\ UNCHANGED <<writerVars, stream, wire, got, want, delivered>>

TakePrefix == /\ reader = "reading"
              /\ want = <<>>
              /\ Missing = 0
              /\ IF FromLe(got) > MaxFrame
                 THEN Fail("InvalidData")
                 ELSE /\ want' = <<FromLe(got)>>
                      /\ got' = <<>>
                      /\ UNCHANGED <<writerVars, stream, wire, reader, delivered>>

(* The payload is complete; it must also deserialize.                      *)
TakePayload == /\ reader = "reading"
               /\ want # <<>>
               /\ Missing = 0
               /\ IF got \notin Payloads
                  THEN Fail("InvalidData")
                  ELSE /\ delivered' = Append(delivered, got)
                       /\ got' = <<>>
                       /\ want' = <<>>
                       /\ UNCHANGED <<writerVars, stream, wire, reader>>

(* Fault: the end of the stream ends the payload.                          *)
ReachEndTakes == /\ reader = "reading"
                 /\ Missing > 0
                 /\ wire = <<>>
                 /\ writer = "closed"
                 /\ reader' = "UnexpectedEof"
                 /\ delivered' = IF got \in Payloads /\ want # <<>>
                                 THEN Append(delivered, got) ELSE delivered
                 /\ UNCHANGED <<writerVars, stream, wire, got, want>>

ReachEnd == /\ reader = "reading"
            /\ Missing > 0
            /\ wire = <<>>
            /\ writer = "closed"
            /\ Fail("UnexpectedEof")

(* Fault: the time is up for the frame as a whole.                         *)
TimeOutLate == reader = "reading" /\ Missing > 0 /\ Fail("TimedOut")

(* Thirty seconds in which nothing arrived; the time starts again with     *)
(* every byte.                                                             *)
TimeOut == /\ reader = "reading"
           /\ Missing > 0
           /\ wire = <<>>
           /\ Fail("TimedOut")

ReaderStep == \/ \E n \in 1..Len(wire) : ReadSome(n)
              \/ TakePrefix \/ TakePayload \/ ReachEnd \/ TimeOut

FramingNext == \/ \E p \in Payloads : WriteFrame(p) \/ WriteRefused(p)
               \/ \E n \in 1..Len(unsent) : WriteSome(n)
               \/ WriteFails \/ WriterLeaves
               \/ ReaderStep

(* The reading thread runs.  Nothing is asked of the writer.               *)
Reads == WF_framingVars(ReaderStep)

FramingSpec == FramingInit /\ [][FramingNext]_framingVars /\ Reads

-----------------------------------------------------------------------------
(* No byte is skipped, read twice or made up, wherever reads and writes    *)
(* break and whoever wrote: the frames returned, what is in hand and what  *)
(* is on the wire make up the stream.                                      *)
StreamAccountedFor ==
  LET prefix == IF want = <<>> THEN <<>> ELSE ToLe(want[1])
  IN  AllFramed(delivered) \o prefix \o got \o wire = stream

(* Between two programs that use these functions frames arrive whole, once *)
(* each and in order, however a stream ends.                               *)
Undelivered == SubSeq(begun, Len(delivered) + 1, Len(begun))

Channel == INSTANCE FrameChannel WITH
  inFlight <- Undelivered,
  received <- IF begun = <<>> THEN <<>> ELSE delivered

ImplementsChannel == Channel!ChannelSpec

(* A frame that is cut off does not arrive, in whole or in part.           *)
CutOffIsLost == unsent # <<>> => Len(delivered) < Len(begun)

(* A frame that was written to the end arrives, if the reader has not      *)
(* given up before: what write_frame accepts read_frame accepts, up to the *)
(* limit, and bytes that are there are read before time runs out.          *)
WrittenArrives ==
  \A n \in 1..MaxWrites :
    (Len(begun) = n /\ writer = "idle" /\ reader = "reading") ~> Len(delivered) >= n

=============================================================================
