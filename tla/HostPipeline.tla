---------------------------- MODULE HostPipeline ----------------------------
(***************************************************************************)
(* The host application (host/main.cpp): HostApplication brings up the     *)
(* screen capture, the encoder and the network server, runs the loop that  *)
(* captures, encodes and sends, and shuts everything down on a signal.     *)
(* It is one thread that calls ScreenCapture, whose module is extended,    *)
(* and Encoder, an instance of its module; of the network server the loop  *)
(* sees only whether somebody is connected.                                *)
(***************************************************************************)
EXTENDS ScreenCapture

CONSTANTS IdrPeriod, FrameRate, Bitrates    \* of Encoder

ASSUME HostAssumption ==
    /\ IdrPeriod \in Nat \ {0} /\ FrameRate \in Nat \ {0}
    /\ Bitrates \subseteq Nat /\ Bitrates # {}

VARIABLES encoding, bitrate, encoded, forceIDR, lastKeyframe,
          bitstreamSize             \* of Encoder
VARIABLES pc,           \* where the main thread is
          running,      \* g_running
          serverUp,     \* networkServer is initialized and started
          configured,   \* the mode the encoder and the input handler work for
          connected     \* HasConnectedClients

encoderVars == <<encoding, bitrate, encoded, forceIDR, lastKeyframe, bitstreamSize>>
vars == <<captureVars, encoderVars, pc, running, serverUp, configured, connected>>

Coder == INSTANCE Encoder WITH initialized <- encoding, frameCounter <- encoded
-----------------------------------------------------------------------------
Init ==
    /\ CaptureInit
    /\ Coder!Init
    /\ pc = "capture"
    /\ running = TRUE
    /\ serverUp = FALSE
    /\ configured = screen
    /\ connected = FALSE

(***************************************************************************)
(* Initialize: each part in turn, and back down when one of them fails.    *)
(***************************************************************************)
InitCapture ==
    /\ pc = "capture"
    /\ CaptureInitialize
    /\ pc' = IF initialized' THEN "encoder" ELSE "failed"
    /\ UNCHANGED <<encoderVars, running, serverUp, configured, connected>>

\* The factory always finds the stub.  The dimensions are asked for once.
InitEncoder ==
    /\ pc = "encoder"
    /\ Coder!Initialize
    /\ configured' = outputDesc
    /\ pc' = "server"
    /\ UNCHANGED <<captureVars, running, serverUp, connected>>

InitServer ==
    /\ pc = "server"
    /\ serverUp' = TRUE
    /\ pc' = "loop"
    /\ UNCHANGED <<captureVars, encoderVars, running, configured, connected>>

\* Mutant of InitServerFails: only what came last is taken down.
InitServerFailsHalfway ==
    /\ pc = "server"
    /\ Coder!Shutdown
    /\ pc' = "failed"
    /\ UNCHANGED <<captureVars, running, serverUp, configured, connected>>

\* A port is taken.
InitServerFails ==
    /\ pc = "server"
    /\ Coder!Shutdown
    /\ CaptureShutdown
    /\ pc' = "failed"
    /\ UNCHANGED <<running, serverUp, configured, connected>>
-----------------------------------------------------------------------------
(***************************************************************************)
(* Run.                                                                    *)
(***************************************************************************)
Loop ==
    /\ pc = "loop" /\ running
    /\ CaptureFrame
    /\ pc' = "capturing"
    /\ UNCHANGED <<encoderVars, running, serverUp, configured, connected>>

InCaptureFrame ==
    /\ InCall
    /\ UNCHANGED <<encoderVars, pc, running, serverUp, configured, connected>>

\* Mutant of NoFrame: asks again at once.
NoFrameAgain ==
    /\ pc = "capturing" /\ call = "idle" /\ result # "frame"
    /\ CaptureFrame
    /\ UNCHANGED <<encoderVars, pc, running, serverUp, configured, connected>>

\* Nothing new, or an error: the loop goes round.
NoFrame ==
    /\ pc = "capturing" /\ call = "idle" /\ result # "frame"
    /\ pc' = "loop"
    /\ UNCHANGED <<captureVars, encoderVars, running, serverUp, configured, connected>>

\* EncodeFrame, then SendFrame to whoever is connected.
EncodeAndSend ==
    /\ pc = "capturing" /\ call = "idle" /\ result = "frame"
    /\ Coder!EncodeFrame
    /\ pc' = "release"
    /\ UNCHANGED <<captureVars, running, serverUp, configured, connected>>

\* Mutant of Release: only a frame that somebody saw is released.
ReleaseIfSent ==
    /\ pc = "release"
    /\ IF connected THEN ReleaseFrame ELSE UNCHANGED captureVars
    /\ pc' = "loop"
    /\ UNCHANGED <<encoderVars, running, serverUp, configured, connected>>

Release ==
    /\ pc = "release"
    /\ ReleaseFrame
    /\ pc' = "loop"
    /\ UNCHANGED <<encoderVars, running, serverUp, configured, connected>>

\* Shutdown, when the loop sees that g_running was cleared: the server first,
\* whose Stop joins the accept thread.
Shutdown ==
    /\ pc = "loop" /\ ~running
    /\ pc' = "stop server"
    /\ UNCHANGED <<captureVars, encoderVars, running, serverUp, configured, connected>>

\* The accept thread has ended, which it does only when accept lets it go.
ServerStopped ==
    /\ pc = "stop server"
    /\ serverUp' = FALSE /\ connected' = FALSE
    /\ pc' = "stop parts"
    /\ UNCHANGED <<captureVars, encoderVars, running, configured>>

ShutdownParts ==
    /\ pc = "stop parts"
    /\ Coder!Shutdown
    /\ CaptureShutdown
    /\ pc' = "done"
    /\ UNCHANGED <<running, serverUp, configured, connected>>

MainThread ==
    \/ InitCapture \/ InitEncoder \/ InitServer \/ InitServerFails
    \/ Loop \/ InCaptureFrame \/ NoFrame \/ EncodeAndSend \/ Release
    \/ Shutdown \/ ShutdownParts
-----------------------------------------------------------------------------
(***************************************************************************)
(* The rest of the world.                                                  *)
(***************************************************************************)
SignalHandler ==
    /\ running
    /\ running' = FALSE
    /\ UNCHANGED <<captureVars, encoderVars, pc, serverUp, configured, connected>>

Desktop ==
    /\ Environment
    /\ UNCHANGED <<encoderVars, pc, running, serverUp, configured, connected>>

ViewerConnects ==
    /\ serverUp /\ ~connected
    /\ connected' = TRUE
    /\ UNCHANGED <<captureVars, encoderVars, pc, running, serverUp, configured>>

ViewerLeaves ==
    /\ connected
    /\ connected' = FALSE
    /\ UNCHANGED <<captureVars, encoderVars, pc, running, serverUp, configured>>

Next ==
    \/ MainThread \/ ServerStopped
    \/ SignalHandler \/ Desktop \/ ViewerConnects \/ ViewerLeaves

Spec == Init /\ [][Next]_vars

\* The main thread goes on: DXGI's wait times out.  Only the join of the accept
\* thread (ServerStopped) has no end of its own.
FairSpec == Spec /\ WF_vars(MainThread)
-----------------------------------------------------------------------------
\* The types of the variables that the modules of the parts do not type.
TypeOK ==
    /\ CaptureTypeOK /\ Coder!TypeOK
    /\ pc \in {"capture", "encoder", "server", "loop", "capturing", "release",
               "stop server", "stop parts", "failed", "done"}
    /\ running \in BOOLEAN /\ serverUp \in BOOLEAN /\ connected \in BOOLEAN
    /\ configured \in Modes

\* Each time round, every frame captured was encoded, exactly once and in
\* step with the capture's own count, and was given back to DXGI, whatever
\* became of the duplication in the meantime (Run, CaptureFrame).
FramesAccounted ==
    pc = "loop" => encoded = frameCounter /\ ~frameAcquired /\ ~held

\* When the process ends nothing that Initialize brought up is left,
\* however far Initialize got (Initialize, Shutdown).
NothingLeftUp ==
    pc \in {"failed", "done"} => ~initialized /\ ~encoding /\ ~serverUp

\* The main thread stays in the join of the accept thread.
AcceptBlocks == <>[](pc = "stop server")

\* CaptureFrame calls itself again and again, as long as every duplication it
\* makes is lost before a frame comes.
RecursesForever == []<>(call = "recreate")

\* After Ctrl+C the process ends, or the call of a missing duplication ends it
\* first.  Only an accept that never returns and a desktop that never comes to
\* rest can keep it (Run, CaptureFrame, HandleAccessLost, NetworkServer::Stop).
StopEnds ==
    <>~running => \/ <>(pc \in {"failed", "done"} \/ call = "crashed")
                  \/ AcceptBlocks \/ RecursesForever
=============================================================================
