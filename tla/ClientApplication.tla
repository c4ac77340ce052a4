-------------------------- MODULE ClientApplication --------------------------
(***************************************************************************)
(* The client application (client/main.cpp).  Its main thread connects,    *)
(* brings up decoder, renderer and input sender one after the other, runs  *)
(* the loop that shows frames, and takes everything down again, beside the *)
(* three threads of NetworkClient and the one of InputSender, whose        *)
(* modules are extended.  Of the renderer (client/renderer.cpp) there are  *)
(* its window and its device, of the decoder (client/decoder.cpp) there is *)
(* the reference to the device that it keeps.                              *)
(*                                                                         *)
(* main creates a first decoder before there is a device.  The decoder of  *)
(* the repository refuses that; the one of CODEC_INTEGRATION.md would not. *)
(***************************************************************************)
EXTENDS NetworkClient, InputSender

VARIABLES pc,           \* where the main thread is
          gRunning,     \* g_running
          status,       \* what main is going to return
          refusesNull,  \* a decoder wants a device: see above
          decoding,     \* the decoder is initialized and refers to the device
          rendering,    \* D3DRenderer::initialized
          window,       \* there is a window
          deviceRefs,   \* references to the device that are not released
          halfway       \* what failed in the middle of its initialization

videoVars == <<refusesNull, decoding, rendering, window, deviceRefs, halfway>>
mainVars == <<pc, gRunning, status>>
vars == <<clientVars, senderVars, mainVars, videoVars>>
-----------------------------------------------------------------------------
Init ==
    /\ ClientInit /\ SenderInit
    /\ pc = "connect"
    /\ gRunning = TRUE
    /\ status = 0
    /\ refusesNull \in BOOLEAN
    /\ decoding = FALSE /\ rendering = FALSE /\ window = FALSE
    /\ deviceRefs = 0
    /\ halfway = {}

Goto(place) == pc' = place /\ UNCHANGED <<gRunning, status>>

\* Something is missing: main goes on at place and will return 1.
Fail(place) == pc' = place /\ status' = 1 /\ UNCHANGED gRunning

(***************************************************************************)
(* Each part in turn, and back down when one of them fails.                *)
(***************************************************************************)
Connect ==
    /\ pc = "connect"
    /\ \/ ConnectSucceeds /\ Goto("start")
       \/ ConnectFails /\ Fail("prompt")
    /\ UNCHANGED <<senderVars, videoVars>>

Start ==
    /\ pc = "start"
    /\ ClientStart
    /\ Goto("decoder")
    /\ UNCHANGED <<senderVars, videoVars>>

\* CreateDecoder(nullptr).
CreateDecoder ==
    /\ pc = "decoder"
    /\ \/ ~refusesNull /\ Goto("renderer")
       \/ Fail("disconnect")
    /\ UNCHANGED <<clientVars, senderVars, videoVars>>

\* D3DRenderer::Initialize; without a device the window is destroyed again.
InitRenderer ==
    /\ pc = "renderer"
    /\ rendering' = TRUE /\ window' = TRUE /\ deviceRefs' = 1
    /\ Goto("shared decoder")
    /\ UNCHANGED <<clientVars, senderVars, refusesNull, decoding, halfway>>

InitRendererFails ==
    /\ pc = "renderer"
    /\ Fail("disconnect")
    /\ UNCHANGED <<clientVars, senderVars, videoVars>>

\* No render target: Shutdown does nothing yet, so window and device stay.
InitRendererHalfway ==
    /\ pc = "renderer"
    /\ window' = TRUE /\ deviceRefs' = 1
    /\ halfway' = {"renderer"}
    /\ Fail("disconnect")
    /\ UNCHANGED <<clientVars, senderVars, refusesNull, decoding, rendering>>

\* CreateDecoder(renderer.GetDevice()).
SharedDecoder ==
    /\ pc = "shared decoder"
    /\ decoding' = TRUE /\ deviceRefs' = deviceRefs + 1
    /\ Goto("sender")
    /\ UNCHANGED <<clientVars, senderVars, refusesNull, rendering, window, halfway>>

\* No texture: the decoder's Shutdown does nothing yet and its reference stays.
SharedDecoderHalfway ==
    /\ pc = "shared decoder"
    /\ deviceRefs' = deviceRefs + 1
    /\ halfway' = {"decoder"}
    /\ Fail("close renderer")
    /\ UNCHANGED <<clientVars, senderVars, refusesNull, decoding, rendering, window>>

\* Without input the client goes on all the same.
StartSender ==
    /\ pc = "sender"
    /\ SenderStart \/ SenderStartFails \/ UNCHANGED senderVars
    /\ Goto("loop")
    /\ UNCHANGED <<clientVars, videoVars>>
-----------------------------------------------------------------------------
(***************************************************************************)
(* The loop.                                                               *)
(***************************************************************************)
\* while (g_running && IsConnected()).  The hooks are called in here, from
\* ProcessMessages; frames are taken and shown without a trace in this state.
LeaveLoop ==
    /\ pc = "loop" /\ ~(gRunning /\ connected)
    /\ Goto("stop sender")
    /\ UNCHANGED <<clientVars, senderVars, videoVars>>

\* ProcessMessages finds WM_CLOSE.
CloseWindow ==
    /\ pc = "loop" /\ gRunning
    /\ Goto("stop sender")
    /\ UNCHANGED <<clientVars, senderVars, videoVars>>
-----------------------------------------------------------------------------
(***************************************************************************)
(* The way out.                                                            *)
(***************************************************************************)
\* inputSender->Shutdown, which returns early if nothing was started.
StopSender ==
    /\ pc = "stop sender"
    /\ IF capturing
       THEN SenderStop /\ Goto("join mouse")
       ELSE UNCHANGED senderVars /\ Goto("close renderer")
    /\ UNCHANGED <<clientVars, videoVars>>

JoinMouse ==
    /\ pc = "join mouse"
    /\ SenderShutdown
    /\ Goto("close renderer")
    /\ UNCHANGED <<clientVars, videoVars>>

\* Mutant of CloseRenderer: the device is kept for the decoder.
CloseWindowOnly ==
    /\ pc = "close renderer"
    /\ rendering' = FALSE /\ window' = FALSE
    /\ Goto("disconnect")
    /\ UNCHANGED <<clientVars, senderVars, refusesNull, decoding, deviceRefs, halfway>>

CloseRenderer ==
    /\ pc = "close renderer"
    /\ rendering' = FALSE /\ window' = FALSE /\ deviceRefs' = deviceRefs - 1
    /\ Goto("disconnect")
    /\ UNCHANGED <<clientVars, senderVars, refusesNull, decoding, halfway>>

CallDisconnect ==
    /\ pc = "disconnect"
    /\ Disconnect
    /\ Goto("disconnecting")
    /\ UNCHANGED <<senderVars, videoVars>>

InsideDisconnect ==
    /\ pc = "disconnecting"
    /\ InDisconnect
    /\ UNCHANGED <<senderVars, mainVars, videoVars>>

Disconnected ==
    /\ pc = "disconnecting" /\ call = "idle"
    /\ Goto(IF status = 1 THEN "prompt" ELSE "return")
    /\ UNCHANGED <<clientVars, senderVars, videoVars>>

\* "Press Enter to exit..."
Enter ==
    /\ pc = "prompt"
    /\ Goto("return")
    /\ UNCHANGED <<clientVars, senderVars, videoVars>>

\* The destructors: the decoder gives its reference back, and a thread object
\* that was never joined ends the process by std::terminate.
Return ==
    /\ pc = "return"
    /\ decoding' = FALSE
    /\ deviceRefs' = IF decoding THEN deviceRefs - 1 ELSE deviceRefs
    /\ Goto(IF joinable = {} THEN "exit" ELSE "terminated")
    /\ UNCHANGED <<clientVars, senderVars, refusesNull, rendering, window, halfway>>

MainThread ==
    \/ Connect \/ Start \/ CreateDecoder
    \/ InitRenderer \/ InitRendererFails \/ InitRendererHalfway
    \/ SharedDecoder \/ SharedDecoderHalfway \/ StartSender
    \/ LeaveLoop
    \/ StopSender \/ JoinMouse \/ CloseRenderer
    \/ CallDisconnect \/ InsideDisconnect \/ Disconnected \/ Return
-----------------------------------------------------------------------------
(***************************************************************************)
(* The other threads, the network and the user.                            *)
(***************************************************************************)
Alive == pc \notin {"exit", "terminated"}

NetworkThreads ==
    /\ Alive
    /\ ClientThreads
    /\ UNCHANGED <<senderVars, mainVars, videoVars>>

Mouse ==
    /\ MouseThread(connected)
    /\ UNCHANGED <<clientVars, mainVars, videoVars>>

World ==
    /\ Alive
    /\ HostGoes
    /\ UNCHANGED <<senderVars, mainVars, videoVars>>

\* As long as somebody looks.
PointerMoves ==
    /\ mouse \notin Ended
    /\ MoveCursor
    /\ UNCHANGED <<clientVars, mainVars, videoVars>>

SignalHandler ==
    /\ gRunning /\ Alive
    /\ gRunning' = FALSE
    /\ UNCHANGED <<clientVars, senderVars, pc, status, videoVars>>

Next ==
    \/ MainThread \/ CloseWindow \/ Enter \/ NetworkThreads \/ Mouse
    \/ World \/ PointerMoves \/ SignalHandler

Spec == Init /\ [][Next]_vars

\* Every thread goes on until it waits for somebody: for the user at the
\* prompt, or for a datagram in recvfrom, which need not come: a host whose
\* screen does not change sends none, and hardly any reaches the right port.
FairSpec ==
    /\ Spec
    /\ WF_vars(MainThread) /\ WF_vars(Mouse)
    /\ WF_vars(Alive /\ TcpReceiveThread /\ UNCHANGED <<senderVars, mainVars, videoVars>>)
    /\ WF_vars(Alive /\ UdpLoop /\ UNCHANGED <<senderVars, mainVars, videoVars>>)
    /\ WF_vars(Alive /\ KeepaliveThread /\ UNCHANGED <<senderVars, mainVars, videoVars>>)
-----------------------------------------------------------------------------
Stopped == {"prompt", "exit", "terminated"}

\* The types of the variables.
TypeOK ==
    /\ ClientTypeOK /\ SenderTypeOK
    /\ pc \in {"connect", "start", "decoder", "renderer", "shared decoder", "sender",
               "loop", "stop sender", "join mouse", "close renderer",
               "disconnect", "disconnecting", "prompt", "return", "exit", "terminated"}
    /\ call # "idle" => pc = "disconnecting"
    /\ gRunning \in BOOLEAN /\ status \in {0, 1}
    /\ refusesNull \in BOOLEAN /\ decoding \in BOOLEAN /\ rendering \in BOOLEAN
    /\ window \in BOOLEAN
    /\ deviceRefs \in 0..2
    /\ halfway \subseteq {"renderer", "decoder"}

\* Whatever a thread or a callback uses is still there when it runs, however
\* the client came to an end: the sockets for the network threads and for the
\* mouse thread, which sends through the TCP socket and asks the window for
\* coordinates, and the object that the hooks' static pointer is to.
ResourcesOutliveUsers ==
    /\ tcpSocket = "closed" => tcp \in Ended /\ udp \in Ended /\ keeper \in Ended
    /\ mouse \notin Ended => tcpSocket = "open" /\ window /\ instance = "alive"
    /\ hooks # {} => tcpSocket = "open" /\ instance = "alive"

\* main leaves either no thread behind or, when a thread of its own noticed
\* the loss of the connection before Disconnect was called, all three, and
\* only then std::terminate ends the process.
AllJoinedOrNone ==
    /\ pc = "exit" => joinable = {} /\ mouse \in Ended
    /\ pc = "terminated" => joinable = Threads /\ running /\ ~connected

\* When the process ends the window and every reference to the device are
\* gone, unless an initialization failed half-way, which leaves one behind.
DeviceReleased ==
    pc \in {"exit", "terminated"} =>
        /\ deviceRefs = IF halfway = {} THEN 0 ELSE 1
        /\ window => "renderer" \in halfway

\* When the host closes the connection or falls silent, the TCP and the
\* keepalive thread end ("Timeout Handling: Detects server disconnection",
\* PHASE5_COMPLETE.md), or the process does.
LossNoticed ==
    (host # "open" /\ running) ~> ((tcp = "ended" /\ keeper = "ended") \/ ~Alive)

\* "Graceful Shutdown: Clean exit on Ctrl+C or window close"
\* (PHASE5_COMPLETE.md).  The code does not keep it: Disconnect joins the UDP
\* thread before it closes the socket that the thread waits at.
StopEnds == ~gRunning ~> pc \in Stopped

UdpBlocks == call = "join udp" /\ udp = "recv" /\ udpSocket = "open"

\* That join is the only thing that can keep the client: once Ctrl+C is
\* pressed it comes to its end, or it waits there for a datagram for ever,
\* from wherever it is interrupted and whatever becomes of the host.
OnlyUdpBlocks == <>~gRunning => <>(pc \in Stopped) \/ <>[]UdpBlocks

\* While input is captured, the host is told where the pointer comes to rest,
\* unless it has not moved since the thread first saw it, or the send of that
\* last position failed: the thread notes a position as seen whether it was
\* sent or not, and does not try again.
PointerFollows ==
    \A p \in Positions :
        <>[](capturing /\ windowHasFocus /\ connected /\ cursor = p)
            => <>[](lastMousePos = p /\ (reported \in {p, None} \/ reportLost))
=============================================================================
