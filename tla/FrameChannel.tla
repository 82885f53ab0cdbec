---------------------------- MODULE FrameChannel ----------------------------
(***************************************************************************)
(* What one direction of a connection promises, without bytes: frames      *)
(* arrive whole, once, and in the order they were given to it.  It may end *)
(* at any time and lose what is on its way; it never goes on after a loss. *)
(***************************************************************************)
EXTENDS Sequences

CONSTANT Payloads

VARIABLES inFlight,   \* frames given to the channel and not yet received
          received    \* frames received

channelVars == <<inFlight, received>>

ChannelInit == inFlight = <<>> /\ received = <<>>

Give == /\ received' = received
        /\ \E p \in Payloads : inFlight' = Append(inFlight, p)

Receive == /\ inFlight # <<>>
           /\ received' = Append(received, Head(inFlight))
           /\ inFlight' = Tail(inFlight)

ChannelSpec == ChannelInit /\ [][Give \/ Receive]_channelVars
=============================================================================
