---------------------------- MODULE EncoderProofs ----------------------------
(***************************************************************************)
(* What is proved of the encoder: its type invariant, and that no stretch  *)
(* of idrPeriod frames is without a keyframe.  The second is not inductive *)
(* by itself.  It follows from where the last keyframe must at least be:   *)
(* at or after the last multiple of the period.                            *)
(***************************************************************************)
EXTENDS Encoder, TLAPS

\* The last multiple of the period up to n.
LastMultiple(n) == n - (n % IdrPeriod)

SinceMultiple == LastMultiple(frameCounter) <= lastKeyframe

EncoderInv == TypeOK /\ SinceMultiple
-----------------------------------------------------------------------------
\* A number has one remainder.
LEMMA OneRemainder ==
    ASSUME NEW p \in Nat \ {0}, NEW a \in Nat, NEW b \in Nat,
           NEW r \in 0 .. p - 1, NEW s \in 0 .. p - 1,
           p * a + r = p * b + s
    PROVE  r = s
<1>1. CASE a = b
  BY <1>1
<1>2. CASE a < b
  <2>1. PICK d \in Nat : b = a + 1 + d
    BY <1>2
  <2>2. p * b = p * a + p + p * d /\ p * d \in Nat /\ p * a \in Nat
    BY <2>1
  <2>3. QED BY <2>2
<1>3. CASE b < a
  <2>1. PICK d \in Nat : a = b + 1 + d
    BY <1>3
  <2>2. p * a = p * b + p + p * d /\ p * d \in Nat /\ p * b \in Nat
    BY <2>1
  <2>3. QED BY <2>2
<1>4. QED BY <1>1, <1>2, <1>3

\* One frame further the last multiple is this frame, or what it was before.
LEMMA NextMultiple ==
    ASSUME NEW n \in Nat
    PROVE  /\ (n + 1) % IdrPeriod # 0 => LastMultiple(n + 1) = LastMultiple(n)
           /\ LastMultiple(n) \in Int
           /\ LastMultiple(n) <= n /\ n < LastMultiple(n) + IdrPeriod
<1> DEFINE q == n \div IdrPeriod
           r == n % IdrPeriod
           k == (n + 1) \div IdrPeriod
           s == (n + 1) % IdrPeriod
<1>1. IdrPeriod \in Nat \ {0}
  BY EncoderAssumption DEF EncoderAssumption
<1>2. q \in Nat /\ r \in 0 .. IdrPeriod - 1 /\ n = IdrPeriod * q + r
  BY <1>1
<1>3. k \in Nat /\ s \in 0 .. IdrPeriod - 1 /\ n + 1 = IdrPeriod * k + s
  BY <1>1
<1>4. LastMultiple(n) = n - r /\ LastMultiple(n + 1) = (n + 1) - s
  <2>1. LastMultiple(n) = n - r
    BY DEF LastMultiple
  <2>2. LastMultiple(n + 1) = (n + 1) - s
    BY DEF LastMultiple
  <2>3. QED BY <2>1, <2>2
<1> HIDE DEF q, r, k, s
<1>5. CASE r + 1 < IdrPeriod
  <2>1. IdrPeriod * q + (r + 1) = IdrPeriod * k + s /\ r + 1 \in 0 .. IdrPeriod - 1
    BY <1>1, <1>2, <1>3, <1>5
  <2>2. r + 1 = s
    BY <1>1, <1>2, <1>3, <2>1, OneRemainder
  <2>3. LastMultiple(n + 1) = LastMultiple(n)
    BY <1>2, <1>4, <2>2
  <2>4. QED BY <1>1, <1>2, <1>4, <2>3
<1>6. CASE r + 1 = IdrPeriod
  <2>1. IdrPeriod * (q + 1) = IdrPeriod * q + IdrPeriod
    BY <1>1, <1>2
  <2>2. IdrPeriod * (q + 1) + 0 = IdrPeriod * k + s /\ q + 1 \in Nat
    BY <1>1, <1>2, <1>3, <1>6, <2>1
  <2>3. 0 = s
    BY <1>1, <1>3, <2>2, OneRemainder
  <2>4. QED BY <1>1, <1>2, <1>4, <2>3 DEF s
<1>7. QED BY <1>1, <1>2, <1>5, <1>6

-----------------------------------------------------------------------------
\* What a step must keep of the two.
LEMMA EncoderStep == EncoderInv /\ [Next]_vars => EncoderInv'
<1> SUFFICES ASSUME EncoderInv, [Next]_vars
             PROVE  EncoderInv'
  OBVIOUS
<1> USE DEF EncoderInv
<1>0. IdrPeriod \in Nat \ {0} /\ FrameRate \in Nat \ {0} /\ Bitrates \subseteq Nat
      /\ MaxFrames \in Nat
  BY EncoderAssumption DEF EncoderAssumption
<1>1. frameCounter \in Nat /\ lastKeyframe \in Nat
  BY <1>0 DEF TypeOK
<1>2. CASE Initialize
  <2>1. TypeOK'
    BY <1>0, <1>2 DEF TypeOK, Initialize
  <2>2. LastMultiple(0) = 0
    BY <1>0 DEF LastMultiple
  <2>3. SinceMultiple'
    BY <1>2, <2>2 DEF SinceMultiple, Initialize, LastMultiple
  <2>4. QED BY <2>1, <2>3
<1>3. CASE Shutdown
  BY <1>3 DEF TypeOK, SinceMultiple, LastMultiple, Shutdown
<1>4. CASE EncodeFrame
  <2> DEFINE n == frameCounter + 1
  <2>1. BitstreamSize(IsKeyframe(n)) \in Nat \ {0}
    <3>1. EstimatedSize \in Nat
      <4>1. bitrate \in Nat
        BY <1>0 DEF TypeOK
      <4>2. bitrate \div FrameRate \in Nat
        BY <1>0, <4>1
      <4>3. QED BY <4>2 DEF EstimatedSize
    <3>2. QED BY <3>1 DEF BitstreamSize, NalSize
  <2>2. /\ frameCounter' = n /\ n \in 0..MaxFrames /\ n # 0
        /\ lastKeyframe' \in {n, lastKeyframe}
        /\ ~IsKeyframe(n) => n % IdrPeriod # 0
        /\ IsKeyframe(n) => lastKeyframe' = n
        /\ bitstreamSize' = BitstreamSize(IsKeyframe(n))
        /\ forceIDR' = FALSE /\ UNCHANGED <<initialized, bitrate>>
    BY <1>0, <1>1, <1>4 DEF EncodeFrame, IsKeyframe
  <2>3. lastKeyframe \in 0..frameCounter
    BY DEF TypeOK
  <2>4. TypeOK'
    <3>1. lastKeyframe' \in 0..n
      BY <1>1, <2>2, <2>3
    <3>2. bitstreamSize' \in Nat /\ bitstreamSize' # 0
      BY <2>1, <2>2
    <3>3. QED BY <2>2, <3>1, <3>2 DEF TypeOK
  <2>5. LastMultiple(n) <= lastKeyframe'
    <3>1. CASE IsKeyframe(n)
      <4>1. LastMultiple(n) <= n
        BY <1>1, NextMultiple
      <4>2. QED BY <2>2, <3>1, <4>1
    <3>2. CASE ~IsKeyframe(n)
      <4>1. LastMultiple(n) = LastMultiple(frameCounter)
        BY <1>1, <2>2, <3>2, NextMultiple
      <4>2. lastKeyframe' = lastKeyframe
        BY <1>4, <3>2 DEF EncodeFrame
      <4>3. QED BY <4>1, <4>2 DEF SinceMultiple
    <3>3. QED BY <3>1, <3>2
  <2>6. SinceMultiple'
    BY <2>2, <2>5 DEF SinceMultiple, LastMultiple
  <2>7. QED BY <2>4, <2>6
<1>5. CASE ForceKeyframe
  BY <1>5 DEF TypeOK, SinceMultiple, LastMultiple, ForceKeyframe
<1>6. CASE Reconfigure
  BY <1>6 DEF TypeOK, SinceMultiple, LastMultiple, Reconfigure
<1>7. CASE UNCHANGED vars
  BY <1>7 DEF TypeOK, SinceMultiple, LastMultiple, vars
<1>8. QED BY <1>2, <1>3, <1>4, <1>5, <1>6, <1>7 DEF Next

LEMMA EncoderStarts == Init => EncoderInv
<1> SUFFICES ASSUME Init PROVE EncoderInv
  OBVIOUS
<1>0. IdrPeriod \in Nat \ {0} /\ MaxFrames \in Nat
  BY EncoderAssumption DEF EncoderAssumption
<1>1. LastMultiple(0) = 0
  BY <1>0 DEF LastMultiple
<1>2. TypeOK
  <2>1. 0 \in 0..MaxFrames /\ 0 \in 0..0 /\ 0 \in Nat
    BY <1>0
  <2>2. QED BY <2>1 DEF Init, TypeOK
<1>3. SinceMultiple
  BY <1>1 DEF Init, SinceMultiple
<1>4. QED BY <1>2, <1>3 DEF EncoderInv

\* The encoder's variables keep their types, and a frame is never empty.
THEOREM EncoderTyped == Spec => []TypeOK
<1>1. EncoderInv => TypeOK
  BY DEF EncoderInv
<1>2. QED BY <1>1, EncoderStarts, EncoderStep, PTL DEF Spec

LEMMA PeriodFromInv == EncoderInv => KeyframeEveryPeriod
<1> SUFFICES ASSUME EncoderInv PROVE KeyframeEveryPeriod
  OBVIOUS
<1>1. IdrPeriod \in Nat \ {0} /\ MaxFrames \in Nat
  BY EncoderAssumption DEF EncoderAssumption
<1>2. frameCounter \in Nat /\ lastKeyframe \in Nat
  BY <1>1 DEF EncoderInv, TypeOK
<1>3. /\ LastMultiple(frameCounter) \in Int
      /\ frameCounter < LastMultiple(frameCounter) + IdrPeriod
  BY <1>2, NextMultiple
<1>4. LastMultiple(frameCounter) <= lastKeyframe
  BY DEF EncoderInv, SinceMultiple
<1>5. QED
  BY <1>1, <1>2, <1>3, <1>4 DEF KeyframeEveryPeriod

\* For every period, bitrate and sequence of calls: a keyframe among any
\* idrPeriod frames in a row.
THEOREM KeyframesPeriodic == Spec => []KeyframeEveryPeriod
BY PeriodFromInv, EncoderStarts, EncoderStep, PTL DEF Spec

\* A forced keyframe is not lost between the request and the next frame.
THEOREM ForcedNext == Spec => ForcedIsNext
<1>1. EncoderInv /\ [Next]_vars =>
        [forceIDR /\ frameCounter' > frameCounter => lastKeyframe' = frameCounter']_vars
  <2> SUFFICES ASSUME EncoderInv, [Next]_vars, forceIDR, frameCounter' > frameCounter
               PROVE  lastKeyframe' = frameCounter'
    OBVIOUS
  <2>1. frameCounter \in Nat
    BY EncoderAssumption DEF EncoderAssumption, EncoderInv, TypeOK
  <2>2. frameCounter' # frameCounter /\ frameCounter' # 0
    BY <2>1
  <2>3. EncodeFrame
    BY <2>2 DEF Next, Initialize, Shutdown, ForceKeyframe, Reconfigure, vars
  <2>4. QED BY <2>3 DEF EncodeFrame, IsKeyframe
<1>2. QED BY <1>1, EncoderStarts, EncoderStep, PTL DEF Spec, ForcedIsNext
=============================================================================
