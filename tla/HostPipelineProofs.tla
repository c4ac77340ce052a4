------------------------- MODULE HostPipelineProofs -------------------------
(***************************************************************************)
(* What is proved of the screen capture and of the composed host, for      *)
(* every set of modes, however often the desktop changes, and for every    *)
(* keyframe period.                                                        *)
(*                                                                         *)
(* The capture never asks for a frame while another one is out: DXGI has a *)
(* frame out only while frameAcquired says so, and CaptureFrame got past   *)
(* its first two checks.                                                   *)
(*                                                                         *)
(* The host calls the capture and the encoder only as their modules allow, *)
(* so that what is proved of the parts holds in the whole; and every frame *)
(* is accounted for and nothing left up, for which one has to know how far *)
(* each part is at each place of the main thread.                          *)
(***************************************************************************)
EXTENDS HostPipeline, TLAPS

(* The screen capture *)

HeldIsKnown == held => frameAcquired

ChecksPassed == call # "idle" => initialized /\ ~frameAcquired

CaptureInv == CaptureTypeOK /\ HeldIsKnown /\ ChecksPassed
-----------------------------------------------------------------------------
LEMMA CaptureStarts == CaptureInit => CaptureInv
<1> SUFFICES ASSUME CaptureInit PROVE CaptureInv
  OBVIOUS
<1>1. 0 \in 0..MaxFrames /\ 0 \in 0..0
  BY CaptureAssumption DEF CaptureAssumption
<1>2. QED
  BY <1>1 DEF CaptureInit, CaptureInv, CaptureTypeOK, HeldIsKnown, ChecksPassed

\* The desktop only ever turns a live duplication into a lost one.
LEMMA DesktopStep == CaptureInv /\ Environment => CaptureInv'
<1> SUFFICES ASSUME CaptureInv, Environment PROVE CaptureInv'
  OBVIOUS
<1> USE DEF CaptureInv
<1>1. /\ available' \in BOOLEAN /\ screen' \in Modes
      /\ DuplicationLost
      /\ UNCHANGED <<frame, initialized, outputDesc, call, result>>
  BY DEF Environment, DesktopLocked, DesktopUnlocked, ModeChanged, CaptureTypeOK
<1>2. CaptureTypeOK'
  BY <1>1 DEF CaptureTypeOK, DuplicationLost, frame
<1>3. QED
  BY <1>1, <1>2 DEF HeldIsKnown, ChecksPassed, frame

\* The steps inside CaptureFrame.
LEMMA InCallStep == CaptureInv /\ InCall => CaptureInv'
<1> SUFFICES ASSUME CaptureInv, InCall PROVE CaptureInv'
  OBVIOUS
<1> USE DEF CaptureInv
<1>1. CASE AcquireFromNull
  BY <1>1 DEF AcquireFromNull, CaptureTypeOK, HeldIsKnown, ChecksPassed, desktop, frame
<1>2. CASE AcquireTimesOut \/ AcquireNothingNew \/ AcquireFails
  BY <1>2 DEF AcquireTimesOut, AcquireNothingNew, AcquireFails, Returns, CaptureTypeOK,
     HeldIsKnown, ChecksPassed, desktop, frame
<1>3. CASE AcquireFrame
  <2>1. /\ textures' \in 0..MaxFrames /\ frameCounter' \in 0..textures'
        /\ initialized /\ deskDupl = "live"
    BY <1>3, CaptureAssumption
    DEF CaptureAssumption, AcquireFrame, CaptureTypeOK, ChecksPassed
  <2>2. QED
    BY <1>3, <2>1 DEF AcquireFrame, Returns, CaptureTypeOK, HeldIsKnown, ChecksPassed, desktop
<1>4. CASE AcquireAccessLost
  BY <1>4 DEF AcquireAccessLost, CaptureTypeOK, HeldIsKnown, ChecksPassed, desktop
<1>5. CASE HandleAccessLost
  BY <1>5 DEF HandleAccessLost, InitializeDuplication, Returns, CaptureTypeOK, HeldIsKnown,
     ChecksPassed, desktop, frame
<1>6. QED
  BY <1>1, <1>2, <1>3, <1>4, <1>5 DEF InCall

LEMMA CaptureStep == CaptureInv /\ [CaptureNext]_captureVars => CaptureInv'
<1> SUFFICES ASSUME CaptureInv, [CaptureNext]_captureVars PROVE CaptureInv'
  OBVIOUS
<1> USE DEF CaptureInv
<1>1. CASE Environment
  BY <1>1, DesktopStep
<1>2. CASE CaptureInitialize
  <2>1. frameCounter' \in 0..textures
    BY <1>2, CaptureAssumption DEF CaptureAssumption, CaptureInitialize, CaptureTypeOK
  <2>2. QED
    BY <1>2, <2>1 DEF CaptureInitialize, InitializeDuplication, CaptureTypeOK, HeldIsKnown,
       ChecksPassed, desktop
<1>3. CASE CaptureShutdown
  BY <1>3 DEF CaptureShutdown, CaptureTypeOK, HeldIsKnown, ChecksPassed, desktop
<1>4. CASE CaptureRefused
  BY <1>4 DEF CaptureRefused, Returns, CaptureTypeOK, HeldIsKnown, ChecksPassed, desktop, frame
<1>5. CASE CaptureFrame
  BY <1>5 DEF CaptureFrame, CaptureTypeOK, HeldIsKnown, ChecksPassed, desktop, frame
<1>6. CASE InCall
  BY <1>6, InCallStep
<1>7. CASE ReleaseFrame
  BY <1>7 DEF ReleaseFrame, CaptureTypeOK, HeldIsKnown, ChecksPassed, desktop
<1>8. CASE UNCHANGED captureVars
  BY <1>8 DEF captureVars, CaptureTypeOK, HeldIsKnown, ChecksPassed, desktop, frame
<1>9. QED
  BY <1>1, <1>2, <1>3, <1>4, <1>5, <1>6, <1>7, <1>8 DEF CaptureNext

\* The capture's variables keep their types: there is no duplication outside
\* of Initialize and Shutdown, and no frame without one.
THEOREM CaptureTyped == CaptureSpec => []CaptureTypeOK
<1>1. CaptureInv => CaptureTypeOK
  BY DEF CaptureInv
<1>2. QED BY <1>1, CaptureStarts, CaptureStep, PTL DEF CaptureSpec

\* AcquireNextFrame is never called while a frame is out.
THEOREM NeverInvalidCall == CaptureSpec => []AcquireWhenReleased
<1>1. CaptureInv => AcquireWhenReleased
  BY DEF CaptureInv, HeldIsKnown, ChecksPassed, AcquireWhenReleased
<1>2. QED BY <1>1, CaptureStarts, CaptureStep, PTL DEF CaptureSpec
-----------------------------------------------------------------------------
(* A lost duplication that is not made again *)

\* The capture works on, but there is nothing that it could capture from.
Orphaned == initialized /\ deskDupl = "null" /\ call # "recreate"

\* Nothing is captured any more, and only Shutdown can end it.
LEMMA OrphanedStep ==
    CaptureInv /\ [CaptureNext]_captureVars
      => (Orphaned => frameCounter' = frameCounter /\ (initialized' => Orphaned'))
<1> SUFFICES ASSUME CaptureInv, [CaptureNext]_captureVars, Orphaned
             PROVE  frameCounter' = frameCounter /\ (initialized' => Orphaned')
  OBVIOUS
<1>1. CASE Environment
  BY <1>1 DEF Environment, DesktopLocked, DesktopUnlocked, ModeChanged, DuplicationLost, frame,
     Orphaned
<1>2. CASE CaptureInitialize \/ CaptureShutdown \/ ReleaseFrame
  BY <1>2 DEF CaptureInitialize, CaptureShutdown, ReleaseFrame, Orphaned
<1>3. CASE CaptureRefused \/ CaptureFrame
  BY <1>3 DEF CaptureRefused, CaptureFrame, Returns, frame, Orphaned
<1>4. CASE InCall
  <2>1. AcquireFromNull
    BY <1>4 DEF InCall, AcquireTimesOut, AcquireNothingNew, AcquireFrame, AcquireFails,
       AcquireAccessLost, HandleAccessLost, Orphaned
  <2>2. QED BY <2>1 DEF AcquireFromNull, frame, Orphaned
<1>5. CASE UNCHANGED captureVars
  BY <1>5 DEF captureVars, frame, Orphaned
<1>6. QED
  BY <1>1, <1>2, <1>3, <1>4, <1>5 DEF CaptureNext

\* Once a recreation has failed, no call makes another one: CaptureFrame fails
\* for good, by the missing duplication (HandleAccessLost, CaptureFrame).
THEOREM NeverRepaired ==
    CaptureSpec => [][Orphaned => frameCounter' = frameCounter
                                  /\ (initialized' => Orphaned')]_captureVars
BY CaptureStarts, CaptureStep, OrphanedStep, PTL DEF CaptureSpec

\* Each time that CaptureFrame has slept it gets a duplication again.
RecreationSucceeds == HandleAccessLost => deskDupl' = "live"

NotOrphaned == CaptureInv /\ ~Orphaned /\ NeverCrashes

LEMMA NotOrphanedStep ==
    NotOrphaned /\ [CaptureNext]_captureVars /\ [RecreationSucceeds]_captureVars => NotOrphaned'
<1> SUFFICES ASSUME NotOrphaned, [CaptureNext]_captureVars, [RecreationSucceeds]_captureVars
             PROVE  ~Orphaned' /\ NeverCrashes'
  BY CaptureStep DEF NotOrphaned
<1> USE DEF NotOrphaned
<1>1. CASE Environment
  BY <1>1 DEF Environment, DesktopLocked, DesktopUnlocked, ModeChanged, DuplicationLost,
     Orphaned, NeverCrashes
<1>2. CASE CaptureInitialize
  BY <1>2 DEF CaptureInitialize, InitializeDuplication, Orphaned, NeverCrashes
<1>3. CASE CaptureShutdown \/ ReleaseFrame
  BY <1>3 DEF CaptureShutdown, ReleaseFrame, Orphaned, NeverCrashes
<1>4. CASE CaptureRefused \/ CaptureFrame
  BY <1>4 DEF CaptureRefused, CaptureFrame, Returns, Orphaned, NeverCrashes
<1>5. CASE InCall
  <2>1. CASE HandleAccessLost
    <3>1. deskDupl' = "live"
      BY <2>1 DEF HandleAccessLost, Returns, RecreationSucceeds, captureVars
    <3>2. QED BY <2>1, <3>1 DEF HandleAccessLost, Orphaned, NeverCrashes
  <2>2. CASE AcquireAccessLost
    BY <2>2 DEF AcquireAccessLost, Orphaned, NeverCrashes
  <2>3. CASE AcquireFromNull
    BY <2>3 DEF AcquireFromNull, CaptureInv, ChecksPassed, Orphaned
  <2>4. CASE AcquireTimesOut \/ AcquireNothingNew \/ AcquireFrame \/ AcquireFails
    BY <2>4 DEF AcquireTimesOut, AcquireNothingNew, AcquireFrame, AcquireFails, Returns,
       Orphaned, NeverCrashes
  <2>5. QED BY <1>5, <2>1, <2>2, <2>3, <2>4 DEF InCall
<1>6. CASE UNCHANGED captureVars
  BY <1>6 DEF captureVars, Orphaned, NeverCrashes
<1>7. QED
  BY <1>1, <1>2, <1>3, <1>4, <1>5, <1>6 DEF CaptureNext

\* Half a second is all that stands between the capture and the crash: where
\* every recreation succeeds, whatever was locked, changed and unlocked in the
\* meantime and whether or not Initialize failed, the missing duplication is
\* never used.
THEOREM CrashNeedsFailedRecreation ==
    CaptureSpec /\ [][RecreationSucceeds]_captureVars => []NeverCrashes
<1>1. CaptureInit => NotOrphaned
  BY CaptureStarts DEF CaptureInit, NotOrphaned, Orphaned, NeverCrashes
<1>2. NotOrphaned => NeverCrashes
  BY DEF NotOrphaned
<1>3. QED BY <1>1, <1>2, NotOrphanedStep, PTL DEF CaptureSpec
-----------------------------------------------------------------------------
(* What the capture tells of its frames *)

\* GetWidth and GetHeight tell of the frame that is out.
DimensionsTold == frameAcquired => textureDesc = outputDesc

LiveTold == deskDupl = "live" => outputDesc = screen

DimensionsInv == CaptureInv /\ DimensionsTold /\ LiveTold

LEMMA DimensionsStep ==
    DimensionsInv /\ [CaptureNext]_captureVars => DimensionsInv'
<1> SUFFICES ASSUME DimensionsInv, [CaptureNext]_captureVars
             PROVE  DimensionsTold' /\ LiveTold'
  BY CaptureStep DEF DimensionsInv
<1> USE DEF DimensionsInv
<1>1. CASE Environment
  BY <1>1 DEF Environment, DesktopLocked, DesktopUnlocked, ModeChanged, DuplicationLost, frame,
     DimensionsTold, LiveTold
<1>2. CASE CaptureInitialize
  <2>1. ~frameAcquired /\ ~frameAcquired'
    BY <1>2 DEF CaptureInitialize, CaptureInv, CaptureTypeOK
  <2>2. QED
    BY <1>2, <2>1 DEF CaptureInitialize, InitializeDuplication, desktop, DimensionsTold, LiveTold
<1>3. CASE CaptureShutdown \/ ReleaseFrame
  BY <1>3 DEF CaptureShutdown, ReleaseFrame, desktop, DimensionsTold, LiveTold
<1>4. CASE CaptureRefused \/ CaptureFrame
  BY <1>4 DEF CaptureRefused, CaptureFrame, desktop, frame, DimensionsTold, LiveTold
<1>5. CASE InCall
  <2>1. CASE HandleAccessLost
    <3>1. ~frameAcquired /\ ~frameAcquired'
      BY <2>1 DEF HandleAccessLost, CaptureInv, ChecksPassed, frame
    <3>2. QED
      BY <2>1, <3>1 DEF HandleAccessLost, InitializeDuplication, desktop, DimensionsTold, LiveTold
  <2>2. CASE AcquireFrame
    BY <2>2 DEF AcquireFrame, desktop, DimensionsTold, LiveTold
  <2>3. CASE AcquireAccessLost
    BY <2>3 DEF AcquireAccessLost, desktop, DimensionsTold, LiveTold
  <2>4. CASE AcquireFromNull \/ AcquireTimesOut \/ AcquireNothingNew \/ AcquireFails
    BY <2>4 DEF AcquireFromNull, AcquireTimesOut, AcquireNothingNew, AcquireFails, desktop,
       frame, DimensionsTold, LiveTold
  <2>5. QED BY <1>5, <2>1, <2>2, <2>3, <2>4 DEF InCall
<1>6. CASE UNCHANGED captureVars
  BY <1>6 DEF captureVars, desktop, frame, DimensionsTold, LiveTold
<1>7. QED
  BY <1>1, <1>2, <1>3, <1>4, <1>5, <1>6 DEF CaptureNext

\* While a frame is out, the dimensions that the capture tells are that
\* frame's, however the mode changes while the caller works on it: the
\* description is read again only when no frame is out (CaptureFrame,
\* InitializeDuplication, GetWidth, GetHeight).
THEOREM CaptureTellsDimensions == CaptureSpec => []DimensionsTold
<1>1. CaptureInit => DimensionsInv
  BY CaptureStarts DEF CaptureInit, DimensionsInv, DimensionsTold, LiveTold
<1>2. DimensionsInv => DimensionsTold
  BY DEF DimensionsInv
<1>3. QED BY <1>1, <1>2, DimensionsStep, PTL DEF CaptureSpec
-----------------------------------------------------------------------------
(* The host and its parts *)

CoderProofs == INSTANCE EncoderProofs
                  WITH initialized <- encoding, frameCounter <- encoded

\* A step of the host is a step of the capture or leaves it alone.
LEMMA CaptureStepOf == [Next]_vars => [CaptureNext]_captureVars
<1> SUFFICES ASSUME [Next]_vars PROVE [CaptureNext]_captureVars
  OBVIOUS
<1>1. CASE UNCHANGED vars
  BY <1>1 DEF vars
<1>2. CASE InitCapture \/ InitServerFails \/ ShutdownParts
  BY <1>2 DEF InitCapture, InitServerFails, ShutdownParts, CaptureNext
<1>3. CASE InitEncoder \/ InitServer \/ NoFrame \/ EncodeAndSend \/ Shutdown \/ ServerStopped
  BY <1>3 DEF InitEncoder, InitServer, NoFrame, EncodeAndSend, Shutdown, ServerStopped
<1>4. CASE Loop \/ InCaptureFrame \/ Release
  BY <1>4 DEF Loop, InCaptureFrame, Release, CaptureNext
<1>5. CASE SignalHandler \/ ViewerConnects \/ ViewerLeaves
  BY <1>5 DEF SignalHandler, ViewerConnects, ViewerLeaves
<1>6. CASE Desktop
  BY <1>6 DEF Desktop, CaptureNext
<1>7. QED
  BY <1>1, <1>2, <1>3, <1>4, <1>5, <1>6 DEF Next, MainThread

\* A step of the host is a step of the encoder or leaves it alone.
LEMMA CoderStepOf == [Next]_vars => [Coder!Next]_(Coder!vars)
<1> SUFFICES ASSUME [Next]_vars PROVE [Coder!Next]_(Coder!vars)
  OBVIOUS
<1>1. CASE UNCHANGED vars
  BY <1>1 DEF vars, encoderVars, Coder!vars
<1>2. CASE InitEncoder
  BY <1>2 DEF InitEncoder, Coder!Next
<1>3. CASE InitServerFails \/ ShutdownParts
  BY <1>3 DEF InitServerFails, ShutdownParts, Coder!Next
<1>4. CASE EncodeAndSend
  BY <1>4 DEF EncodeAndSend, Coder!Next
<1>5. CASE \/ InitCapture \/ InitServer \/ Loop \/ InCaptureFrame \/ NoFrame \/ Release
           \/ Shutdown \/ ServerStopped
  BY <1>5 DEF InitCapture, InitServer, Loop, InCaptureFrame, NoFrame, Release, Shutdown,
     ServerStopped, encoderVars, Coder!vars
<1>6. CASE SignalHandler \/ Desktop \/ ViewerConnects \/ ViewerLeaves
  BY <1>6 DEF SignalHandler, Desktop, ViewerConnects, ViewerLeaves, encoderVars, Coder!vars
<1>7. QED
  BY <1>1, <1>2, <1>3, <1>4, <1>5, <1>6 DEF Next, MainThread

\* The main loop calls the capture as its module allows, whatever the desktop
\* does: the host implements the capture's specification (Initialize, Run,
\* Shutdown).
THEOREM HostImplementsCapture == Spec => CaptureSpec
<1>1. Init => CaptureInit
  BY DEF Init
<1>2. QED BY <1>1, CaptureStepOf, PTL DEF Spec, CaptureSpec

\* So it does the encoder's.
THEOREM HostImplementsEncoder == Spec => Coder!Spec
<1>1. Init => Coder!Init
  BY DEF Init
<1>2. QED BY <1>1, CoderStepOf, PTL DEF Spec, Coder!Spec

\* AcquireNextFrame is never called while a frame is out, in the host either.
THEOREM HostNeverInvalidCall == Spec => []AcquireWhenReleased
BY HostImplementsCapture, NeverInvalidCall, PTL

\* The host crashes in no other way than the capture does.
THEOREM HostCrashNeedsFailedRecreation ==
    Spec /\ [][RecreationSucceeds]_vars => []NeverCrashes
<1>1. [RecreationSucceeds]_vars => [RecreationSucceeds]_captureVars
  BY DEF vars
<1>2. QED BY <1>1, HostImplementsCapture, CrashNeedsFailedRecreation, PTL

-----------------------------------------------------------------------------
(* What is up at each place of the main thread *)

InLoop == {"loop", "capturing", "release"}

Stopping == {"stop server", "stop parts"}

PartsUp ==
    /\ pc \in {"capture", "encoder", "server", "failed", "done"} \cup InLoop \cup Stopping
    /\ initialized <=> pc \in {"encoder", "server"} \cup InLoop \cup Stopping
    /\ encoding <=> pc \in {"server"} \cup InLoop \cup Stopping
    /\ serverUp <=> pc \in {"stop server"} \cup InLoop
    /\ serverUp \in BOOLEAN /\ encoding \in BOOLEAN

\* Where the capture is, and how far the encoder is behind it.
CallsPlaced ==
    /\ call # "idle" => pc = "capturing"
    /\ pc = "capturing" => result # "frame" \/ call = "idle"
    /\ frameAcquired <=> pc = "release" \/ (pc = "capturing" /\ result = "frame")

Behind ==
    /\ pc \in {"encoder", "server"} => frameCounter = 0
    /\ pc = "server" => encoded = 0
    /\ pc \in InLoop \cup Stopping => frameCounter = IF pc = "capturing" /\ result = "frame"
                                                 THEN encoded + 1 ELSE encoded

Settings == configured \in Modes /\ running \in BOOLEAN /\ connected \in BOOLEAN

HostInv ==
    CaptureInv /\ encoded \in Nat /\ PartsUp /\ CallsPlaced /\ Behind /\ Settings

LEMMA HostStarts == Init => HostInv
<1> SUFFICES ASSUME Init PROVE HostInv
  OBVIOUS
<1>1. CaptureInv
  BY CaptureStarts DEF Init
<1>2. /\ pc = "capture" /\ ~initialized /\ ~encoding /\ encoding \in BOOLEAN
      /\ serverUp = FALSE /\ call = "idle" /\ frameAcquired = FALSE /\ encoded = 0
  BY DEF Init, CaptureInit, Coder!Init
<1>3. QED
  BY <1>1, <1>2 DEF Init, CaptureInv, CaptureTypeOK, HostInv, PartsUp, CallsPlaced, Behind,
     Settings, InLoop, Stopping

LEMMA SettingsStep == HostInv /\ [Next]_vars => Settings'
<1> SUFFICES ASSUME HostInv, [Next]_vars PROVE Settings'
  OBVIOUS
<1>1. CASE UNCHANGED vars
  BY <1>1, Zenon DEF vars, HostInv, Settings
<1>2. CASE MainThread
  <2>1. configured' \in {configured, outputDesc} /\ UNCHANGED <<running, connected>>
    BY <1>2, Zenon DEF MainThread, InitCapture, InitEncoder, InitServer, InitServerFails, Loop,
       InCaptureFrame, NoFrame, EncodeAndSend, Release, Shutdown, ShutdownParts
  <2>2. QED BY <2>1 DEF HostInv, CaptureInv, CaptureTypeOK, Settings
<1>3. CASE ServerStopped \/ SignalHandler \/ Desktop \/ ViewerConnects \/ ViewerLeaves
  <2>1. configured' = configured /\ running' \in {running, FALSE}
        /\ connected' \in {connected, TRUE, FALSE}
    BY <1>3, Zenon DEF ServerStopped, SignalHandler, Desktop, ViewerConnects, ViewerLeaves
  <2>2. QED BY <2>1 DEF HostInv, Settings
<1>4. QED BY <1>1, <1>2, <1>3 DEF Next

LEMMA HostStep == HostInv /\ [Next]_vars => HostInv'
<1> SUFFICES ASSUME HostInv, [Next]_vars PROVE HostInv'
  OBVIOUS
<1> USE DEF HostInv
<1>0. CaptureInv' /\ Settings'
  BY CaptureStepOf, CaptureStep, SettingsStep
<1>t. frameCounter \in Nat /\ initialized \in BOOLEAN /\ result \in {"none", "frame", "nothing", "failed"}
  <2>1. 0..textures \subseteq Nat
    BY DEF CaptureInv, CaptureTypeOK
  <2>2. QED BY <2>1 DEF CaptureInv, CaptureTypeOK
<1>1. CASE UNCHANGED vars
  BY <1>0, <1>1 DEF vars, captureVars, frame, desktop, encoderVars, PartsUp, CallsPlaced, Behind
<1>2. CASE InitCapture
  BY <1>0, <1>2, <1>t DEF InitCapture, CaptureInitialize, encoderVars, PartsUp, CallsPlaced,
     Behind, InLoop, Stopping
<1>3. CASE InitEncoder
  BY <1>0, <1>3, <1>t DEF InitEncoder, Coder!Initialize, captureVars, frame, desktop, PartsUp,
     CallsPlaced, Behind, InLoop, Stopping
<1>4. CASE InitServer
  BY <1>0, <1>4, <1>t DEF InitServer, captureVars, frame, desktop, encoderVars, PartsUp,
     CallsPlaced, Behind, InLoop, Stopping
<1>5. CASE InitServerFails
  BY <1>0, <1>5, <1>t DEF InitServerFails, CaptureShutdown, Coder!Shutdown, PartsUp,
     CallsPlaced, Behind, InLoop, Stopping
<1>6. CASE Loop
  BY <1>0, <1>6, <1>t DEF Loop, CaptureFrame, frame, desktop, encoderVars, PartsUp,
     CallsPlaced, Behind, InLoop, Stopping
<1>7. CASE InCaptureFrame
  <2>1. call # "idle" /\ pc = "capturing" /\ result # "frame" /\ ~frameAcquired
    BY <1>7 DEF InCaptureFrame, InCall, AcquireFromNull, AcquireTimesOut, AcquireNothingNew,
       AcquireFrame, AcquireFails, AcquireAccessLost, HandleAccessLost, CallsPlaced
  <2>2. UNCHANGED <<encoderVars, pc, running, serverUp, configured, connected, initialized>>
    BY <1>7 DEF InCaptureFrame, InCall, AcquireFromNull, AcquireTimesOut, AcquireNothingNew,
       AcquireFrame, AcquireFails, AcquireAccessLost, HandleAccessLost
  <2>3. CASE AcquireFrame
    BY <1>0, <1>t, <2>1, <2>2, <2>3 DEF AcquireFrame, Returns, encoderVars, PartsUp, CallsPlaced,
       Behind, InLoop, Stopping
  <2>4. CASE UNCHANGED <<frameAcquired, frameCounter>> /\ result' # "frame"
    BY <1>0, <1>t, <2>1, <2>2, <2>4 DEF encoderVars, PartsUp, CallsPlaced, Behind, InLoop, Stopping
  <2>5. QED
    BY <1>7, <2>1, <2>3, <2>4 DEF InCaptureFrame, InCall, AcquireFromNull, AcquireTimesOut,
       AcquireNothingNew, AcquireFails, AcquireAccessLost, HandleAccessLost, Returns, frame
<1>8. CASE NoFrame
  BY <1>0, <1>8, <1>t DEF NoFrame, captureVars, frame, desktop, encoderVars, PartsUp,
     CallsPlaced, Behind, InLoop, Stopping
<1>9. CASE EncodeAndSend
  BY <1>0, <1>9, <1>t DEF EncodeAndSend, Coder!EncodeFrame, captureVars, frame, desktop, PartsUp,
     CallsPlaced, Behind, InLoop, Stopping
<1>10. CASE Release
  BY <1>0, <1>10, <1>t DEF Release, ReleaseFrame, encoderVars, PartsUp, CallsPlaced,
     Behind, InLoop, Stopping
<1>11. CASE Shutdown
  BY <1>0, <1>11, <1>t DEF Shutdown, captureVars, frame, desktop, encoderVars, PartsUp,
     CallsPlaced, Behind, InLoop, Stopping
<1>12. CASE SignalHandler \/ Desktop \/ ViewerConnects \/ ViewerLeaves
  <2>1. UNCHANGED <<initialized, frameAcquired, frameCounter, call, result, encoding, encoded,
                    pc, serverUp>>
    BY <1>12, Zenon DEF SignalHandler, Desktop, Environment, DesktopLocked, DesktopUnlocked,
       ModeChanged, ViewerConnects, ViewerLeaves, captureVars, frame, encoderVars
  <2>2. PartsUp' /\ CallsPlaced' /\ Behind'
    BY <2>1 DEF PartsUp, CallsPlaced, Behind
  <2>3. QED BY <1>0, <2>1, <2>2
<1>13. CASE ServerStopped
  BY <1>0, <1>13, <1>t DEF ServerStopped, captureVars, frame, desktop, encoderVars, PartsUp,
     CallsPlaced, Behind, InLoop, Stopping
<1>14. CASE ShutdownParts
  BY <1>0, <1>14, <1>t DEF ShutdownParts, CaptureShutdown, Coder!Shutdown, PartsUp, CallsPlaced,
     Behind, InLoop, Stopping
<1>15. QED
  BY <1>1, <1>2, <1>3, <1>4, <1>5, <1>6, <1>7, <1>8, <1>9, <1>10, <1>11, <1>12, <1>13, <1>14
  DEF Next, MainThread

\* Every frame captured is encoded exactly once and given back, each time
\* round the loop.
THEOREM EveryFrameAccounted == Spec => []FramesAccounted
<1>1. HostInv => FramesAccounted
  BY DEF HostInv, CallsPlaced, Behind, InLoop, CaptureInv, HeldIsKnown, FramesAccounted
<1>2. QED BY <1>1, HostStarts, HostStep, PTL DEF Spec

\* The encoder works for the mode that the screen has.
AsConfigured ==
    /\ configured = screen /\ outputDesc = screen /\ textureDesc = screen

LEMMA AsConfiguredStep ==
    AsConfigured /\ [Next]_vars /\ [UNCHANGED screen]_vars => AsConfigured'
<1> SUFFICES ASSUME AsConfigured, [Next]_vars, [UNCHANGED screen]_vars PROVE AsConfigured'
  OBVIOUS
<1> USE DEF AsConfigured
<1>1. screen' = screen
  BY DEF vars, captureVars, desktop
<1>2. outputDesc' \in {outputDesc, screen} /\ textureDesc' \in {textureDesc, screen}
  <2>1. [CaptureNext]_captureVars
    BY CaptureStepOf
  <2>2. CASE Environment \/ UNCHANGED captureVars
    BY <2>2 DEF Environment, DesktopLocked, DesktopUnlocked, ModeChanged, captureVars, frame
  <2>3. CASE CaptureInitialize \/ CaptureShutdown \/ ReleaseFrame
    BY <2>3 DEF CaptureInitialize, InitializeDuplication, CaptureShutdown, ReleaseFrame
  <2>4. CASE CaptureRefused \/ CaptureFrame \/ InCall
    BY <2>4 DEF CaptureRefused, CaptureFrame, InCall, AcquireFromNull, AcquireTimesOut,
       AcquireNothingNew, AcquireFrame, AcquireFails, AcquireAccessLost, HandleAccessLost,
       InitializeDuplication, frame
  <2>5. QED BY <2>1, <2>2, <2>3, <2>4 DEF CaptureNext
<1>3. configured' \in {configured, outputDesc}
  <2>1. CASE MainThread
    BY <2>1, Zenon DEF MainThread, InitCapture, InitEncoder, InitServer, InitServerFails, Loop,
       InCaptureFrame, NoFrame, EncodeAndSend, Release, Shutdown, ShutdownParts
  <2>2. CASE \/ ServerStopped \/ SignalHandler \/ Desktop \/ ViewerConnects \/ ViewerLeaves
             \/ UNCHANGED vars
    BY <2>2 DEF ServerStopped, SignalHandler, Desktop, ViewerConnects, ViewerLeaves, vars
  <2>3. QED BY <2>1, <2>2 DEF Next
<1>4. QED BY <1>1, <1>2, <1>3

\* The encoder gets frames of the dimensions it was configured with, through
\* locking, unlocking and recreations, unless the mode changes: nothing else
\* makes what Initialize asked for go stale.  (After a change of mode it does:
\* nobody asks again, although CaptureTellsDimensions has the answer.)
THEOREM FramesFitUntilModeChanges ==
    Spec /\ [][UNCHANGED screen]_vars => [](frameAcquired => textureDesc = configured)
<1>1. Init => AsConfigured
  BY DEF Init, CaptureInit, AsConfigured
<1>2. AsConfigured => (frameAcquired => textureDesc = configured)
  BY DEF AsConfigured
<1>3. QED BY <1>1, <1>2, AsConfiguredStep, PTL DEF Spec

\* Every frame's texture is still referred to.
TexturesKept ==
    /\ textures = frameCounter
    /\ pc = "capture" => textures = 0
    /\ pc = "done" => encoded = frameCounter

LEMMA TexturesStep == HostInv /\ TexturesKept /\ [Next]_vars => TexturesKept'
<1> SUFFICES ASSUME HostInv, TexturesKept, [Next]_vars PROVE TexturesKept'
  OBVIOUS
<1> USE DEF TexturesKept
<1>1. (pc' = "capture" => pc = "capture") /\ (pc' = "done" => pc = "done" \/ ShutdownParts)
  BY Zenon DEF Next, MainThread, InitCapture, InitEncoder, InitServer, InitServerFails, Loop,
     InCaptureFrame, NoFrame, EncodeAndSend, Release, Shutdown, ShutdownParts, ServerStopped,
     SignalHandler, Desktop, ViewerConnects, ViewerLeaves, vars
<1>2. CASE InitCapture
  BY <1>2 DEF InitCapture, CaptureInitialize
<1>3. CASE InCaptureFrame
  <2>1. pc = "capturing" /\ UNCHANGED pc
    BY <1>3 DEF InCaptureFrame, InCall, AcquireFromNull, AcquireTimesOut, AcquireNothingNew,
       AcquireFrame, AcquireFails, AcquireAccessLost, HandleAccessLost, HostInv, CallsPlaced
  <2>2. CASE AcquireFrame
    BY <2>1, <2>2 DEF AcquireFrame
  <2>3. CASE UNCHANGED <<textures, frameCounter>>
    BY <2>1, <2>3
  <2>4. QED
    BY <1>3, <2>2, <2>3 DEF InCaptureFrame, InCall, AcquireFromNull, AcquireTimesOut,
       AcquireNothingNew, AcquireFails, AcquireAccessLost, HandleAccessLost, frame
<1>4. CASE UNCHANGED <<textures, frameCounter>>
  <2>1. pc' = "done" => encoded' = frameCounter
    <3>1. CASE ShutdownParts
      BY <3>1 DEF ShutdownParts, Coder!Shutdown, HostInv, Behind, InLoop, Stopping
    <3>2. CASE pc = "done" /\ pc' = "done"
      BY <3>2, Zenon DEF Next, MainThread, InitCapture, InitEncoder, InitServer,
         InitServerFails, Loop, InCaptureFrame, NoFrame, EncodeAndSend, Release, Shutdown,
         ShutdownParts, ServerStopped,
         SignalHandler, Desktop, ViewerConnects, ViewerLeaves, vars, encoderVars
    <3>3. QED BY <1>1, <3>1, <3>2
  <2>2. QED BY <1>1, <1>4, <2>1
<1>5. QED
  BY <1>2, <1>3, <1>4
  DEF Next, MainThread, InitEncoder, InitServer, InitServerFails, Loop, NoFrame, EncodeAndSend,
      Release, Shutdown, ShutdownParts, ServerStopped, SignalHandler, Desktop, ViewerConnects, ViewerLeaves,
      Environment,
      DesktopLocked, DesktopUnlocked, ModeChanged, CaptureFrame, CaptureShutdown, ReleaseFrame,
      vars, captureVars, frame

\* However the loop goes, each frame that was encoded has left one reference to
\* a texture behind, which not even Shutdown gives back (CaptureFrame's
\* QueryInterface, ReleaseFrame).
THEOREM TexturesPileUp == Spec => [](pc \in {"loop", "done"} => textures = encoded)
<1>1. Init => HostInv /\ TexturesKept
  BY HostStarts DEF Init, CaptureInit, TexturesKept
<1>2. HostInv /\ TexturesKept => (pc \in {"loop", "done"} => textures = encoded)
  BY DEF TexturesKept, HostInv, Behind, InLoop
<1>3. QED BY <1>1, <1>2, TexturesStep, HostStep, PTL DEF Spec

\* Nothing that Initialize brought up is left when the process ends.
THEOREM EverythingDown == Spec => []NothingLeftUp
<1>1. HostInv => NothingLeftUp
  BY DEF HostInv, PartsUp, InLoop, Stopping, NothingLeftUp
<1>2. QED BY <1>1, HostStarts, HostStep, PTL DEF Spec
-----------------------------------------------------------------------------
(* The types *)

LEMMA CoderAssumed == CoderProofs!EncoderAssumption
BY HostAssumption, CaptureAssumption
DEF HostAssumption, CaptureAssumption, CoderProofs!EncoderAssumption

\* The two instances of Encoder are the same.
LEMMA SameCoder ==
    /\ Coder!Init => CoderProofs!Init
    /\ [Coder!Next]_(Coder!vars) => [CoderProofs!Next]_(CoderProofs!vars)
<1>1. Coder!Init => CoderProofs!Init
  BY DEF Coder!Init, CoderProofs!Init
<1>2. Coder!EncodeFrame => CoderProofs!EncodeFrame
  BY DEF Coder!EncodeFrame, CoderProofs!EncodeFrame, Coder!IsKeyframe, CoderProofs!IsKeyframe,
     Coder!BitstreamSize, CoderProofs!BitstreamSize, Coder!NalSize, CoderProofs!NalSize,
     Coder!EstimatedSize, CoderProofs!EstimatedSize
<1>3. Coder!Next => CoderProofs!Next
  BY <1>2 DEF Coder!Next, CoderProofs!Next, Coder!Initialize, CoderProofs!Initialize,
     Coder!Shutdown, CoderProofs!Shutdown, Coder!ForceKeyframe, CoderProofs!ForceKeyframe,
     Coder!Reconfigure, CoderProofs!Reconfigure
<1>4. UNCHANGED Coder!vars => UNCHANGED CoderProofs!vars
  BY DEF Coder!vars, CoderProofs!vars
<1>5. QED BY <1>1, <1>3, <1>4

TypesInv == HostInv /\ CoderProofs!EncoderInv

LEMMA TypesStart == Init => TypesInv
BY HostStarts, CoderAssumed, CoderProofs!EncoderStarts, SameCoder DEF Init, TypesInv

LEMMA TypesStep == TypesInv /\ [Next]_vars => TypesInv'
BY HostStep, CoderAssumed, CoderProofs!EncoderStep, SameCoder, CoderStepOf DEF TypesInv

\* Every part's variables, the place of the main thread and what it knows keep
\* their types in the composed host.
THEOREM HostTyped == Spec => []TypeOK
<1>1. TypesInv => TypeOK
  <2> SUFFICES ASSUME TypesInv PROVE TypeOK
    OBVIOUS
  <2>1. CaptureTypeOK /\ PartsUp /\ Settings /\ CoderProofs!TypeOK
    BY DEF TypesInv, HostInv, CaptureInv, CoderProofs!EncoderInv
  <2>2. Coder!TypeOK
    BY <2>1, Zenon DEF Coder!TypeOK, CoderProofs!TypeOK
  <2>3. pc \in {"capture", "encoder", "server", "loop", "capturing", "release",
                "stop server", "stop parts", "failed", "done"}
    BY <2>1 DEF PartsUp, InLoop, Stopping
  <2>4. configured \in Modes /\ running \in BOOLEAN /\ serverUp \in BOOLEAN /\ connected \in BOOLEAN
    BY <2>1, Zenon DEF Settings, PartsUp
  <2>5. QED BY <2>1, <2>2, <2>3, <2>4, Zenon DEF TypeOK
<1>2. QED BY <1>1, TypesStart, TypesStep, PTL DEF Spec
=============================================================================
