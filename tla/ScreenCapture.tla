--------------------------- MODULE ScreenCapture ---------------------------
(***************************************************************************)
(* The capture of the host's screen (host/capture.cpp) over DXGI desktop   *)
(* duplication.  The duplication object is lost whenever the desktop       *)
(* becomes unavailable (a secure desktop, a locked session) or changes its *)
(* mode; CaptureFrame then waits half a second and makes a new one.        *)
(* CaptureFrame is taken apart at its calls of DXGI, because the desktop   *)
(* changes between them; CaptureNext adds a caller that makes every legal  *)
(* call.                                                                   *)
(***************************************************************************)
EXTENDS Naturals

CONSTANTS Modes,            \* the screen's modes
          MaxFrames         \* bound on the frames ever captured

ASSUME CaptureAssumption ==
    Modes # {} /\ MaxFrames \in Nat

VARIABLES available,        \* the desktop can be duplicated
          screen,           \* its mode
          initialized,      \* ScreenCapture::initialized
          deskDupl,         \* "null", "live", or "lost": returns ACCESS_LOST
          held,             \* DXGI: a frame was acquired and not released
          frameAcquired,    \* ScreenCapture::frameAcquired
          frameCounter,     \* ScreenCapture::frameCounter
          outputDesc,       \* the mode ScreenCapture::outputDesc tells of
          textureDesc,      \* the mode of the last frame's texture
          textures,         \* references to textures that nobody has released
          call,             \* where CaptureFrame is, "idle" outside of it
          result            \* what the last call of CaptureFrame returned

desktop == <<available, screen>>
frame == <<held, frameAcquired, frameCounter, textureDesc, textures>>
captureVars == <<desktop, frame, initialized, deskDupl, outputDesc, call, result>>
-----------------------------------------------------------------------------
CaptureInit ==
    /\ available \in BOOLEAN
    /\ screen \in Modes
    /\ initialized = FALSE
    /\ deskDupl = "null"
    /\ held = FALSE /\ frameAcquired = FALSE
    /\ frameCounter = 0
    /\ outputDesc = screen /\ textureDesc = screen
    /\ textures = 0
    /\ call = "idle" /\ result = "none"

(***************************************************************************)
(* The desktop, which may change at any time and as often as it likes.     *)
(***************************************************************************)
DuplicationLost == deskDupl' = IF deskDupl = "live" THEN "lost" ELSE deskDupl

DesktopLocked ==
    /\ available /\ DuplicationLost
    /\ available' = FALSE
    /\ UNCHANGED <<screen, frame, initialized, outputDesc, call, result>>

DesktopUnlocked ==
    /\ ~available /\ DuplicationLost
    /\ available' = TRUE
    /\ UNCHANGED <<screen, frame, initialized, outputDesc, call, result>>

ModeChanged ==
    /\ DuplicationLost
    /\ \E m \in Modes \ {screen} : screen' = m
    /\ UNCHANGED <<available, frame, initialized, outputDesc, call, result>>

Environment == DesktopLocked \/ DesktopUnlocked \/ ModeChanged
-----------------------------------------------------------------------------
(***************************************************************************)
(* Starting and ending the capture.                                        *)
(***************************************************************************)
\* EnumOutputs fails, and nothing was read; or what comes after GetDesc does,
\* always when the desktop is away; or there is a duplication.
InitializeDuplication ==
    \/ deskDupl' = "null" /\ outputDesc' \in {outputDesc, screen}
    \/ available /\ deskDupl' = "live" /\ outputDesc' = screen

CaptureInitialize ==
    /\ call = "idle" /\ ~initialized
    /\ InitializeDuplication
    /\ initialized' = (deskDupl' = "live")
    /\ frameCounter' = IF initialized' THEN 0 ELSE frameCounter
    /\ result' = "none"
    /\ UNCHANGED <<desktop, held, frameAcquired, textureDesc, textures, call>>

\* Mutant of CaptureShutdown: the duplication is kept.
CaptureShutdownKeeps ==
    /\ call = "idle" /\ initialized
    /\ initialized' = FALSE
    /\ held' = FALSE /\ frameAcquired' = FALSE
    /\ result' = "none"
    /\ UNCHANGED <<desktop, deskDupl, frameCounter, outputDesc, textureDesc,
                   textures, call>>

CaptureShutdown ==
    /\ call = "idle" /\ initialized
    /\ initialized' = FALSE
    /\ deskDupl' = "null"
    /\ held' = FALSE /\ frameAcquired' = FALSE
    /\ result' = "none"
    /\ UNCHANGED <<desktop, frameCounter, outputDesc, textureDesc, textures, call>>
-----------------------------------------------------------------------------
(***************************************************************************)
(* CaptureFrame.                                                           *)
(***************************************************************************)
Returns(r) == call' = "idle" /\ result' = r

\* Not initialized, or the previous frame was not released.
CaptureRefused ==
    /\ call = "idle" /\ (~initialized \/ frameAcquired)
    /\ Returns("failed")
    /\ UNCHANGED <<desktop, frame, initialized, deskDupl, outputDesc>>

CaptureFrame ==
    /\ call = "idle" /\ initialized /\ ~frameAcquired
    /\ call' = "acquire" /\ result' = "none"
    /\ UNCHANGED <<desktop, frame, initialized, deskDupl, outputDesc>>

\* The duplication is used whether or not there is one.
AcquireFromNull ==
    /\ call = "acquire" /\ deskDupl = "null"
    /\ call' = "crashed"
    /\ UNCHANGED <<desktop, frame, initialized, deskDupl, outputDesc, result>>

AcquireTimesOut ==
    /\ call = "acquire" /\ deskDupl = "live" /\ ~held
    /\ Returns("nothing")
    /\ UNCHANGED <<desktop, frame, initialized, deskDupl, outputDesc>>

\* Mutant of AcquireNothingNew: the frame is not given back.
AcquireNothingNewKept ==
    /\ call = "acquire" /\ deskDupl = "live" /\ ~held
    /\ held' = TRUE
    /\ Returns("nothing")
    /\ UNCHANGED <<desktop, frameAcquired, frameCounter, textureDesc, textures,
                   initialized, deskDupl, outputDesc>>

\* A frame in which only the pointer moved: acquired and released at once.
AcquireNothingNew ==
    /\ call = "acquire" /\ deskDupl = "live" /\ ~held
    /\ Returns("nothing")
    /\ UNCHANGED <<desktop, frame, initialized, deskDupl, outputDesc>>

\* The caller gets a texture that QueryInterface added a reference to.
AcquireFrame ==
    /\ call = "acquire" /\ deskDupl = "live" /\ ~held
    /\ textures < MaxFrames
    /\ held' = TRUE /\ frameAcquired' = TRUE
    /\ frameCounter' = frameCounter + 1
    /\ textureDesc' = screen
    /\ textures' = textures + 1
    /\ Returns("frame")
    /\ UNCHANGED <<desktop, initialized, deskDupl, outputDesc>>

\* Any other error, or a resource that is no texture.
AcquireFails ==
    /\ call = "acquire" /\ deskDupl = "live"
    /\ Returns("failed")
    /\ UNCHANGED <<desktop, frame, initialized, deskDupl, outputDesc>>

\* HandleAccessLost, up to its sleep.
AcquireAccessLost ==
    /\ call = "acquire" /\ deskDupl = "lost"
    /\ deskDupl' = "null"
    /\ held' = FALSE
    /\ call' = "recreate"
    /\ UNCHANGED <<desktop, frameAcquired, frameCounter, textureDesc, textures,
                   initialized, outputDesc, result>>

\* After its sleep: CaptureFrame calls itself, or gives up.
HandleAccessLost ==
    /\ call = "recreate"
    /\ InitializeDuplication
    /\ IF deskDupl' = "live" THEN call' = "acquire" /\ UNCHANGED result
                             ELSE Returns("failed")
    /\ UNCHANGED <<desktop, frame, initialized>>

InCall ==
    \/ AcquireFromNull \/ AcquireTimesOut \/ AcquireNothingNew \/ AcquireFrame
    \/ AcquireFails \/ AcquireAccessLost \/ HandleAccessLost

\* The texture itself keeps its reference.
ReleaseFrame ==
    /\ call = "idle" /\ frameAcquired
    /\ held' = FALSE /\ frameAcquired' = FALSE
    /\ result' = "none"
    /\ UNCHANGED <<desktop, frameCounter, textureDesc, textures, initialized,
                   deskDupl, outputDesc, call>>

CaptureNext ==
    \/ Environment \/ CaptureInitialize \/ CaptureShutdown
    \/ CaptureRefused \/ CaptureFrame \/ InCall \/ ReleaseFrame

CaptureSpec == CaptureInit /\ [][CaptureNext]_captureVars
-----------------------------------------------------------------------------
\* The types of the variables.  There is a duplication only between
\* Initialize and Shutdown, and a frame is out only while there is one.
CaptureTypeOK ==
    /\ available \in BOOLEAN /\ screen \in Modes
    /\ initialized \in BOOLEAN
    /\ deskDupl \in IF initialized THEN {"null", "live", "lost"} ELSE {"null"}
    /\ held \in BOOLEAN /\ frameAcquired \in BOOLEAN
    /\ frameAcquired => deskDupl # "null"
    /\ frameCounter \in 0..textures /\ textures \in 0..MaxFrames
    /\ outputDesc \in Modes /\ textureDesc \in Modes
    /\ call \in {"idle", "acquire", "recreate", "crashed"}
    /\ result \in {"none", "frame", "nothing", "failed"}

\* Whatever path the call before took (no news, an error, a lost
\* duplication, a caller that released the frame), DXGI has no frame out
\* when AcquireNextFrame is called: it never answers INVALID_CALL, which
\* CaptureFrame could not recover from.
AcquireWhenReleased == call = "acquire" => ~held

\* A locked screen is no reason to end: "Graceful failure with logging".
NeverCrashes == call # "crashed"
=============================================================================
