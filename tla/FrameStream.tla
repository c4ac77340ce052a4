---------------------------- MODULE FrameStream ----------------------------
(***************************************************************************)
(* What the video path promises to the decoder, whatever the network does: *)
(* every frame it hands over is one the host of this session encoded,      *)
(* whole and unaltered, unless pieces of an earlier session are in it.  It *)
(* promises neither that every frame arrives, or any, nor an order, nor    *)
(* that a frame arrives only once, nor that what is queued is ever taken.  *)
(***************************************************************************)
EXTENDS Naturals, Sequences

CONSTANT Frames             \* the frames a host may encode

VARIABLES session,          \* which host process is streaming
          offered,          \* frames it has encoded so far
          ready,            \* frames waiting for the decoder, oldest first
          current           \* frame the decoder took last, or {} before the first

vars == <<session, offered, ready, current>>

Init == /\ session = 1
        /\ offered = {}
        /\ ready = <<>>
        /\ current = {}

\* The host encodes a new frame.
Offer == /\ UNCHANGED <<session, ready, current>>
         /\ \E f \in offered' \ offered :
               f \in Frames /\ offered' = offered \cup {f}

\* A piece of the frame is one that an earlier session's host sent.
Mixed(f) == \E i \in DOMAIN f.data : f.data[i].session < session

\* The network side has a whole frame, and queues it for the decoder.
Deliver == /\ Len(ready') = Len(ready) + 1
           /\ LET f == ready'[Len(ready')]
              IN  /\ ready' = Append(ready, f)
                  /\ f \in offered \/ Mixed(f)
           /\ UNCHANGED <<session, offered, current>>

\* The decoder takes the oldest queued frame.
Take == /\ ready # <<>>
        /\ current' = {Head(ready)}
        /\ ready' = Tail(ready)
        /\ UNCHANGED <<session, offered>>

\* The client connects to a new host process; what was queued is gone.
Restart == /\ session' = session + 1
           /\ offered' = {}
           /\ ready' = <<>>
           /\ UNCHANGED current

Next == Offer \/ Deliver \/ Take \/ Restart

Spec == Init /\ [][Next]_vars
=============================================================================
