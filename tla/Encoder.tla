------------------------------- MODULE Encoder -------------------------------
(***************************************************************************)
(* The video encoder of the host (host/encoder.cpp).  NvencEncoder and     *)
(* SoftwareEncoder are stubs with one and the same behaviour: they number  *)
(* the frames, decide which are keyframes, and produce a bitstream of a    *)
(* size that follows from the bitrate.  Here a frame is its number, its    *)
(* size and whether it is a keyframe.                                      *)
(***************************************************************************)
EXTENDS Integers

CONSTANTS IdrPeriod,        \* EncoderConfig::idrPeriod, in frames
          FrameRate,        \* EncoderConfig::frameRate
          Bitrates,         \* bitrates the encoder may be configured with
          MaxFrames         \* bound on the frames of one session

ASSUME EncoderAssumption ==
    /\ IdrPeriod \in Nat \ {0}        \* the code divides by both
    /\ FrameRate \in Nat \ {0}
    /\ Bitrates \subseteq Nat /\ Bitrates # {}
    /\ MaxFrames \in Nat

VARIABLES initialized,      \* VideoEncoder::initialized
          bitrate,          \* EncoderConfig::bitrate
          frameCounter,     \* VideoEncoder::frameCounter
          forceIDR,         \* the next frame is to be a keyframe
          lastKeyframe,     \* number of the last keyframe, 0 before the first
          bitstreamSize     \* size of the last frame, 0 before the first

vars == <<initialized, bitrate, frameCounter, forceIDR, lastKeyframe, bitstreamSize>>
-----------------------------------------------------------------------------
\* Bytes of the NAL units: SPS, PPS and an IDR slice, or a P slice.
NalSize(key) == IF key THEN 28 ELSE 8

\* The bitstream is padded to the size of an average frame.
EstimatedSize == (bitrate \div FrameRate) \div 8

BitstreamSize(key) ==
    IF EstimatedSize > NalSize(key) THEN EstimatedSize ELSE NalSize(key)

\* Mutant of IsKeyframe: one frame too many between two keyframes.
IsKeyframeLate(n) == forceIDR \/ n % (IdrPeriod + 1) = 0

IsKeyframe(n) == forceIDR \/ n % IdrPeriod = 0

Init ==
    /\ initialized = FALSE
    /\ bitrate \in Bitrates
    /\ frameCounter = 0
    /\ forceIDR = FALSE
    /\ lastKeyframe = 0
    /\ bitstreamSize = 0

\* Mutant of Initialize: the frames are not counted from 0 again.
InitializeGoesOn ==
    /\ ~initialized
    /\ initialized' = TRUE
    /\ bitrate' \in Bitrates
    /\ lastKeyframe' = 0
    /\ bitstreamSize' = 0
    /\ UNCHANGED <<frameCounter, forceIDR>>

\* Initialize after Shutdown: a keyframe that was asked for still is.
Initialize ==
    /\ ~initialized
    /\ initialized' = TRUE
    /\ bitrate' \in Bitrates
    /\ frameCounter' = 0
    /\ lastKeyframe' = 0
    /\ bitstreamSize' = 0
    /\ UNCHANGED forceIDR

Shutdown ==
    /\ initialized
    /\ initialized' = FALSE
    /\ UNCHANGED <<bitrate, frameCounter, forceIDR, lastKeyframe, bitstreamSize>>

\* Mutant of EncodeFrame: the request is dropped before it is looked at.
EncodeFrameForgets ==
    LET n == frameCounter + 1
    IN  /\ initialized
        /\ frameCounter < MaxFrames
        /\ frameCounter' = n
        /\ lastKeyframe' = IF n % IdrPeriod = 0 THEN n ELSE lastKeyframe
        /\ bitstreamSize' = BitstreamSize(n % IdrPeriod = 0)
        /\ forceIDR' = FALSE
        /\ UNCHANGED <<initialized, bitrate>>

EncodeFrame ==
    LET n == frameCounter + 1
    IN  /\ initialized
        /\ frameCounter < MaxFrames
        /\ frameCounter' = n
        /\ lastKeyframe' = IF IsKeyframe(n) THEN n ELSE lastKeyframe
        /\ bitstreamSize' = BitstreamSize(IsKeyframe(n))
        /\ forceIDR' = FALSE
        /\ UNCHANGED <<initialized, bitrate>>

\* Allowed at any time.
ForceKeyframe ==
    /\ forceIDR' = TRUE
    /\ UNCHANGED <<initialized, bitrate, frameCounter, lastKeyframe, bitstreamSize>>

Reconfigure ==
    /\ initialized
    /\ bitrate' \in Bitrates
    /\ UNCHANGED <<initialized, frameCounter, forceIDR, lastKeyframe, bitstreamSize>>

Next == Initialize \/ Shutdown \/ EncodeFrame \/ ForceKeyframe \/ Reconfigure

Spec == Init /\ [][Next]_vars
-----------------------------------------------------------------------------
\* The types of the variables.  A frame is never empty: what VideoStream
\* assumes of the sizes it packetizes.
TypeOK ==
    /\ initialized \in BOOLEAN
    /\ bitrate \in Bitrates
    /\ frameCounter \in 0..MaxFrames
    /\ forceIDR \in BOOLEAN
    /\ lastKeyframe \in 0..frameCounter
    /\ bitstreamSize \in Nat
    /\ bitstreamSize = 0 <=> frameCounter = 0

\* Whatever keyframes are forced in between, whatever is reconfigured and
\* however often the encoder is restarted, a stretch of idrPeriod frames holds
\* a keyframe: a decoder that starts anywhere waits for no longer (EncodeFrame).
KeyframeEveryPeriod == frameCounter - lastKeyframe < IdrPeriod

\* A keyframe asked for by ForceKeyframe is the next frame encoded, even if
\* the encoder is shut down and initialized in between.
ForcedIsNext ==
    [][forceIDR /\ frameCounter' > frameCounter => lastKeyframe' = frameCounter']_vars
=============================================================================
