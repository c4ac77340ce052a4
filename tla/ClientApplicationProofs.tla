----------------------- MODULE ClientApplicationProofs -----------------------
(***************************************************************************)
(* What is proved of the client application, for every timeout and every   *)
(* set of pointer positions: whatever fails, and whenever the user, the    *)
(* host or a thread ends it, nothing is taken away from those who still    *)
(* use it, and nothing is left but what the code leaves.  What each part   *)
(* is like is known at each place of the main thread.                      *)
(***************************************************************************)
EXTENDS ClientApplication, TLAPS

\* The network client: nothing was started; all threads may run; they were
\* joined and the sockets closed after them; and in between, inside Disconnect.
Unstarted ==
    /\ tcp = "none" /\ udp = "none" /\ keeper = "none"
    /\ joinable = {} /\ ~running /\ ~connected

Started ==
    /\ tcp # "none" /\ udp # "none" /\ keeper # "none"
    /\ tcpSocket = "open" /\ udpSocket = "open"
    /\ joinable = Threads /\ running

Stopping ==
    /\ tcpSocket = "open" /\ udpSocket = "open"
    /\ \/ /\ call = "join tcp" /\ joinable = Threads
          /\ tcp # "none" /\ udp # "none" /\ keeper # "none"
       \/ /\ call = "join udp" /\ joinable = {"udp", "keeper"}
          /\ tcp = "ended" /\ udp # "none" /\ keeper # "none"
       \/ /\ call = "join keeper" /\ joinable = {"keeper"}
          /\ tcp = "ended" /\ udp = "ended" /\ keeper # "none"
       \/ /\ call = "close" /\ joinable = {}
          /\ tcp = "ended" /\ udp = "ended" /\ keeper = "ended"

Joined ==
    /\ tcp = "ended" /\ udp = "ended" /\ keeper = "ended"
    /\ joinable = {} /\ ~connected
    /\ tcpSocket = "closed" /\ udpSocket = "closed"

Within == {"decoder", "renderer", "shared decoder", "sender", "loop", "stop sender",
           "join mouse", "close renderer", "disconnect"}
After  == {"prompt", "return"}

NetInv ==
    /\ pc = "connect" => Unstarted
    /\ pc = "start" =>
          /\ tcp = "none" /\ udp = "none" /\ keeper = "none"
          /\ joinable = {} /\ ~running
          /\ tcpSocket = "open" /\ udpSocket = "open"
    /\ pc \in Within => Started
    /\ pc = "disconnecting" => Stopping \/ (call = "idle" /\ (Joined \/ (Started /\ ~connected)))
    /\ pc # "disconnecting" => call = "idle"
    /\ pc \in After => Unstarted \/ Joined \/ (Started /\ ~connected)
    /\ pc = "exit" => Unstarted \/ Joined
    /\ pc = "terminated" => Started /\ ~connected

\* The input sender: it captures, or it does not.
Captures ==
    /\ capturing /\ mouse \in {"loop", "send"}
    /\ instance = "alive"

Rests == ~capturing /\ hooks = {} /\ mouse \in Ended

SenderInv ==
    /\ pc \in {"loop", "stop sender"} => Captures \/ Rests
    /\ pc = "join mouse" => ~capturing /\ hooks = {} /\ mouse # "none" /\ instance = "alive"
    /\ pc \notin {"loop", "stop sender", "join mouse"} => Rests

\* The window and the device: what the renderer and the decoder hold, and what
\* is left of them when either failed half-way.
DecoderHolds == decoding /\ halfway = {} /\ deviceRefs = 1 /\ ~window
DecoderLeaks == ~decoding /\ halfway = {"decoder"} /\ deviceRefs = 1 /\ ~window
RendererLeaks == ~decoding /\ halfway = {"renderer"} /\ deviceRefs = 1
NothingHeld == ~decoding /\ halfway = {} /\ deviceRefs = 0 /\ ~window

DeviceInv ==
    /\ pc \in {"connect", "start", "decoder", "renderer"} => NothingHeld
    /\ pc = "shared decoder" => ~decoding /\ halfway = {} /\ deviceRefs = 1 /\ window
    /\ pc \in {"sender", "loop", "stop sender", "join mouse"} =>
          decoding /\ halfway = {} /\ deviceRefs = 2 /\ window
    /\ pc = "close renderer" =>
          /\ deviceRefs = 2
          /\ (decoding /\ halfway = {}) \/ (~decoding /\ halfway = {"decoder"})
    /\ pc \in {"disconnect", "disconnecting", "prompt", "return"} =>
          DecoderHolds \/ DecoderLeaks \/ RendererLeaks \/ NothingHeld
    /\ pc \in {"exit", "terminated"} => DecoderLeaks \/ RendererLeaks \/ NothingHeld

-----------------------------------------------------------------------------
(***************************************************************************)
(* Types.  Flags, places and the number of intervals on their own.         *)
(***************************************************************************)
Flags ==
    /\ connected \in BOOLEAN /\ running \in BOOLEAN
    /\ capturing \in BOOLEAN /\ windowHasFocus \in BOOLEAN
    /\ gRunning \in BOOLEAN /\ refusesNull \in BOOLEAN
    /\ decoding \in BOOLEAN /\ rendering \in BOOLEAN /\ window \in BOOLEAN
    /\ samePort \in BOOLEAN /\ reportLost \in BOOLEAN

Places ==
    /\ call \in {"idle", "join tcp", "join udp", "join keeper", "close"}
    /\ tcp \in {"none", "loop", "recv", "ended"}
    /\ udp \in {"none", "loop", "recv", "ended"}
    /\ keeper \in {"none", "loop", "sleep", "check", "ended"}
    /\ joinable \subseteq {"tcp", "udp", "keeper"}
    /\ tcpSocket \in {"none", "open", "closed"} /\ udpSocket \in {"none", "open", "closed"}
    /\ udp # "none" => udpSocket = tcpSocket
    /\ host \in {"open", "closed", "silent"}

SenderPlaces ==
    /\ instance \in {"null", "alive", "dangling"}
    /\ hooks \subseteq {"keyboard", "mouse"}
    /\ mouse \in {"none", "loop", "send", "ended"}
    /\ lastMousePos \in Positions \union {None}
    /\ reported \in Positions \union {None}
    /\ cursor \in Positions

MainPlaces ==
    /\ pc \in {"connect", "start", "decoder", "renderer", "shared decoder", "sender",
               "loop", "stop sender", "join mouse", "close renderer",
               "disconnect", "disconnecting", "prompt", "return", "exit", "terminated"}
    /\ status \in {0, 1}
    /\ halfway \subseteq {"renderer", "decoder"}

Silence == silence \in 0..(MaxSilence + 1)

\* The steps of the network client, and all others leave it alone.
ClientStep ==
    \/ ConnectSucceeds \/ ConnectFails \/ ClientStart \/ Disconnect \/ InDisconnect
    \/ ClientThreads \/ HostGoes

LEMMA ClientCases ==
    [Next]_vars =>
        \/ Connect \/ Start \/ CallDisconnect \/ InDisconnect \/ TcpReceiveThread
        \/ UdpReceiveThread \/ KeepaliveThread \/ HostGoes \/ UNCHANGED clientVars
BY DEF Next, MainThread, InsideDisconnect, CreateDecoder, InitRenderer, InitRendererFails,
   InitRendererHalfway, SharedDecoder, SharedDecoderHalfway, StartSender, LeaveLoop,
   CloseWindow, StopSender, JoinMouse, CloseRenderer, Disconnected, Enter, Return,
   NetworkThreads, ClientThreads, Mouse, World, PointerMoves, SignalHandler, vars

LEMMA ClientSteps == [Next]_vars => ClientStep \/ UNCHANGED clientVars
BY DEF ClientStep, Next, MainThread, Connect, Start, CallDisconnect, InsideDisconnect,
   CreateDecoder, InitRenderer, InitRendererFails, InitRendererHalfway, SharedDecoder,
   SharedDecoderHalfway, StartSender, LeaveLoop, CloseWindow, StopSender, JoinMouse,
   CloseRenderer, Disconnected, Enter, Return, NetworkThreads, Mouse, World, PointerMoves,
   SignalHandler, vars

\* Those of the input sender.
SenderStep ==
    \/ SenderStart \/ SenderStartFails \/ SenderStop \/ SenderShutdown \/ Mouse \/ MoveCursor

LEMMA SenderSteps == [Next]_vars => SenderStep \/ UNCHANGED senderVars
BY DEF SenderStep, Next, MainThread, StartSender, StopSender, JoinMouse, PointerMoves,
   Connect, Start, CreateDecoder, InitRenderer, InitRendererFails, InitRendererHalfway,
   SharedDecoder, SharedDecoderHalfway, LeaveLoop, CloseWindow, CloseRenderer,
   CallDisconnect, InsideDisconnect, Disconnected, Enter, Return, NetworkThreads, World,
   SignalHandler, vars

\* One more interval, saturating.
Waited(n) == IF n > MaxSilence THEN n ELSE n + 1

LEMMA WaitedTyped == \A n \in 0..(MaxSilence + 1) : Waited(n) \in 0..(MaxSilence + 1)
BY ClientAssumption DEF ClientAssumption, Waited

LEMMA SilenceTyped == Silence /\ [Next]_vars => Silence'
<1> SUFFICES ASSUME Silence, [Next]_vars PROVE Silence'
  OBVIOUS
<1>1. silence' \in {silence, 0, Waited(silence)}
  <2>1. CASE UNCHANGED clientVars
    BY <2>1, Zenon DEF clientVars
  <2>2. CASE KeepaliveWakes
    BY <2>2, Zenon DEF KeepaliveWakes, Waited
  <2>3. CASE ClientStep /\ ~KeepaliveWakes
    BY <2>3, Zenon DEF ClientStep, ConnectSucceeds, ConnectFails, ClientStart, Disconnect,
       InDisconnect, Join, CloseSockets, ClientThreads, HostGoes, TcpReceiveThread,
       TcpLoop, TcpReceive, TcpTimeout, TcpClosed, UdpReceiveThread, UdpLoop, UdpReceive,
       KeepaliveThread, KeepaliveLoop, KeepaliveChecks
  <2>4. QED BY <2>1, <2>2, <2>3, ClientSteps
<1>2. 0 \in 0..(MaxSilence + 1)
  BY ClientAssumption DEF ClientAssumption
<1>3. QED BY <1>1, <1>2, WaitedTyped, Zenon DEF Silence

LEMMA FlagsTyped == Flags /\ [Next]_vars => Flags'
<1> SUFFICES ASSUME Flags, [Next]_vars PROVE Flags'
  OBVIOUS
<1>1. connected' \in BOOLEAN /\ running' \in BOOLEAN /\ samePort' \in BOOLEAN
  <2>1. CASE UNCHANGED clientVars
    BY <2>1, Zenon DEF clientVars, flagVars, socketVars, Flags
  <2>2. CASE ClientStep
    BY <2>2, Zenon DEF Flags, ClientStep, ConnectSucceeds, ConnectFails, ClientStart,
       Disconnect, InDisconnect, Join, CloseSockets, ClientThreads, HostGoes,
       TcpReceiveThread, TcpLoop, TcpReceive, HandleControlPacket, TcpTimeout, TcpClosed,
       UdpReceiveThread, UdpLoop, UdpReceive, KeepaliveThread, KeepaliveLoop,
       KeepaliveWakes, KeepaliveChecks, flagVars, socketVars
  <2>3. QED BY <2>1, <2>2, ClientSteps
<1>2. capturing' \in BOOLEAN /\ windowHasFocus' \in BOOLEAN /\ reportLost' \in BOOLEAN
  <2>1. CASE UNCHANGED senderVars
    BY <2>1, Zenon DEF senderVars, Flags
  <2>2. CASE SenderStep
    <3>1. CASE SendMouseMove(connected)
      <4>1. reportLost' \in BOOLEAN
        BY <3>1 DEF SendMouseMove
      <4>2. QED BY <3>1, <4>1, Zenon DEF Flags, SendMouseMove
    <3>2. CASE ~SendMouseMove(connected)
      BY <2>2, <3>2, Zenon DEF Flags, SenderStep, SenderStart, SenderStartFails, SenderStop,
         SenderShutdown, Mouse, MouseThread, MouseEnds, MousePoll, MoveCursor
    <3>3. QED BY <3>1, <3>2
  <2>3. QED BY <2>1, <2>2, SenderSteps
<1>3. /\ gRunning' \in BOOLEAN /\ refusesNull' \in BOOLEAN
      /\ decoding' \in BOOLEAN /\ rendering' \in BOOLEAN /\ window' \in BOOLEAN
  <2>1. CASE UNCHANGED videoVars /\ (UNCHANGED gRunning \/ gRunning' = FALSE)
    BY <2>1, Zenon DEF videoVars, Flags
  <2>2. CASE InitRenderer \/ InitRendererHalfway \/ SharedDecoder \/ SharedDecoderHalfway
             \/ CloseRenderer \/ Return
    BY <2>2, Zenon DEF Flags, InitRenderer, InitRendererHalfway, SharedDecoder,
       SharedDecoderHalfway, CloseRenderer, Return, Goto, Fail
  <2>3. QED
    BY <2>1, <2>2, Zenon DEF Next, MainThread, Connect, Start, CallDisconnect,
       InsideDisconnect, CreateDecoder, InitRendererFails, StartSender, LeaveLoop,
       CloseWindow, StopSender, JoinMouse, Disconnected, Enter, NetworkThreads, Mouse, World,
       PointerMoves, SignalHandler, Goto, Fail, mainVars, vars
<1>4. QED BY <1>1, <1>2, <1>3, Zenon DEF Flags

LEMMA PlacesTyped == Places /\ NetInv /\ [Next]_vars => Places'
<1> SUFFICES ASSUME Places, NetInv, [Next]_vars PROVE Places'
  OBVIOUS
<1> USE DEF Places
<1>1. CASE UNCHANGED clientVars
  BY <1>1 DEF clientVars, socketVars
<1>2. CASE Connect
  BY <1>2 DEF Connect, ConnectSucceeds, ConnectFails, NetInv, Unstarted
<1>3. CASE Start
  BY <1>3 DEF Start, ClientStart, socketVars, NetInv, Threads
<1>4. CASE CallDisconnect
  BY <1>4 DEF CallDisconnect, Disconnect, socketVars
<1>5. CASE InDisconnect
  BY <1>5 DEF InDisconnect, Join, CloseSockets, socketVars
<1>6. CASE TcpReceiveThread
  BY <1>6 DEF TcpReceiveThread, TcpLoop, TcpReceive, TcpTimeout, TcpClosed, socketVars
<1>7. CASE UdpReceiveThread
  BY <1>7 DEF UdpReceiveThread, UdpLoop, UdpReceive, socketVars
<1>8. CASE KeepaliveThread
  BY <1>8 DEF KeepaliveThread, KeepaliveLoop, KeepaliveWakes, KeepaliveChecks, socketVars
<1>9. CASE HostGoes
  BY <1>9 DEF HostGoes, socketVars
<1>10. QED
  BY <1>1, <1>2, <1>3, <1>4, <1>5, <1>6, <1>7, <1>8, <1>9, ClientCases

LEMMA SenderPlacesTyped == SenderPlaces /\ [Next]_vars => SenderPlaces'
<1> SUFFICES ASSUME SenderPlaces, [Next]_vars PROVE SenderPlaces'
  OBVIOUS
<1> USE DEF SenderPlaces
<1>1. CASE UNCHANGED senderVars
  BY <1>1 DEF senderVars
<1>2. CASE SenderStart \/ SenderStartFails \/ SenderStop \/ SenderShutdown
  BY <1>2 DEF SenderStart, SenderStartFails, SenderStop, SenderShutdown
<1>3. CASE Mouse
  BY <1>3 DEF Mouse, MouseThread, MouseEnds, MousePoll, SendMouseMove
<1>4. CASE MoveCursor
  BY <1>4 DEF MoveCursor
<1>5. QED BY <1>1, <1>2, <1>3, <1>4, SenderSteps DEF SenderStep

LEMMA MainPlacesTyped == MainPlaces /\ [Next]_vars => MainPlaces'
<1> SUFFICES ASSUME MainPlaces, [Next]_vars PROVE MainPlaces'
  OBVIOUS
<1> USE DEF MainPlaces, Goto, Fail
<1>1. CASE UNCHANGED <<pc, status, halfway>>
  BY <1>1
<1>2. CASE Connect \/ Start \/ CreateDecoder
  BY <1>2 DEF Connect, Start, CreateDecoder, videoVars
<1>3. CASE InitRenderer \/ InitRendererFails \/ InitRendererHalfway
  BY <1>3 DEF InitRenderer, InitRendererFails, InitRendererHalfway, videoVars
<1>4. CASE SharedDecoder \/ SharedDecoderHalfway \/ StartSender
  BY <1>4 DEF SharedDecoder, SharedDecoderHalfway, StartSender, videoVars
<1>5. CASE LeaveLoop \/ CloseWindow \/ StopSender \/ JoinMouse \/ CloseRenderer
  BY <1>5 DEF LeaveLoop, CloseWindow, StopSender, JoinMouse, CloseRenderer, videoVars
<1>6. CASE CallDisconnect \/ Disconnected \/ Enter \/ Return
  BY <1>6 DEF CallDisconnect, Disconnected, Enter, Return, videoVars
<1>7. QED
  BY <1>1, <1>2, <1>3, <1>4, <1>5, <1>6 DEF Next, MainThread, InsideDisconnect,
     NetworkThreads, Mouse, World, PointerMoves, SignalHandler, mainVars, videoVars, vars
-----------------------------------------------------------------------------
(***************************************************************************)
(* What is up, at each place.                                              *)
(***************************************************************************)
LEMMA References == 1 + 1 = 2 /\ 2 - 1 = 1 /\ 1 - 1 = 0
OBVIOUS

LEMMA DeviceStep == Flags /\ Flags' /\ MainPlaces /\ DeviceInv /\ [Next]_vars => DeviceInv'
<1> SUFFICES ASSUME Flags, Flags', MainPlaces, DeviceInv, [Next]_vars PROVE DeviceInv'
  OBVIOUS
<1> USE DEF Flags, MainPlaces, DeviceInv, NothingHeld, DecoderHolds, DecoderLeaks, RendererLeaks, Goto, Fail
<1>1. CASE UNCHANGED <<pc, videoVars>>
  BY <1>1 DEF videoVars
<1>2. CASE Connect \/ Start \/ CreateDecoder \/ InitRendererFails
  BY <1>2 DEF Connect, Start, CreateDecoder, InitRendererFails, videoVars
<1>3. CASE InitRenderer \/ InitRendererHalfway
  BY <1>3 DEF InitRenderer, InitRendererHalfway
<1>4. CASE SharedDecoder \/ SharedDecoderHalfway
  <2>1. pc = "shared decoder" /\ deviceRefs = 1 /\ deviceRefs' = deviceRefs + 1
    BY <1>4 DEF SharedDecoder, SharedDecoderHalfway
  <2>2. deviceRefs' = 2
    BY <2>1, References, Zenon
  <2>3. QED BY <1>4, <2>1, <2>2 DEF SharedDecoder, SharedDecoderHalfway
<1>5. CASE StartSender \/ LeaveLoop \/ CloseWindow \/ StopSender \/ JoinMouse
  BY <1>5 DEF StartSender, LeaveLoop, CloseWindow, StopSender, JoinMouse, videoVars
<1>6. CASE CloseRenderer
  <2>1. pc = "close renderer" /\ deviceRefs = 2 /\ deviceRefs' = deviceRefs - 1
    BY <1>6 DEF CloseRenderer
  <2>2. deviceRefs' = 1
    BY <2>1, References, Zenon
  <2>3. QED BY <1>6, <2>1, <2>2 DEF CloseRenderer
<1>7. CASE CallDisconnect \/ Disconnected \/ Enter
  BY <1>7 DEF CallDisconnect, Disconnected, Enter, videoVars
<1>8. CASE Return
  BY <1>8 DEF Return
<1>9. QED
  BY <1>1, <1>2, <1>3, <1>4, <1>5, <1>6, <1>7, <1>8 DEF Next, MainThread, InsideDisconnect,
     NetworkThreads, Mouse, World, PointerMoves, SignalHandler, mainVars, vars

LEMMA SenderInvStep == Flags /\ Flags' /\ MainPlaces /\ SenderInv /\ [Next]_vars => SenderInv'
<1> SUFFICES ASSUME Flags, Flags', MainPlaces, SenderInv, [Next]_vars PROVE SenderInv'
  OBVIOUS
<1> USE DEF Flags, MainPlaces, SenderInv, Captures, Rests, Ended, Goto, Fail
<1>1. CASE UNCHANGED <<pc, senderVars>>
  BY <1>1 DEF senderVars
<1>2. CASE UNCHANGED senderVars /\ pc \notin {"sender", "loop", "stop sender", "join mouse"}
           /\ pc' \notin {"loop", "stop sender", "join mouse"}
  BY <1>2 DEF senderVars
<1>3. CASE StartSender
  BY <1>3 DEF StartSender, SenderStart, SenderStartFails, senderVars
<1>4. CASE LeaveLoop \/ CloseWindow
  BY <1>4 DEF LeaveLoop, CloseWindow, senderVars
<1>5. CASE StopSender
  BY <1>5 DEF StopSender, SenderStop, senderVars
<1>6. CASE JoinMouse
  BY <1>6 DEF JoinMouse, SenderShutdown
<1>7. CASE Mouse
  BY <1>7 DEF Mouse, MouseThread, MouseEnds, MousePoll, SendMouseMove, mainVars
<1>8. CASE PointerMoves
  BY <1>8 DEF PointerMoves, MoveCursor, mainVars
<1>9. CASE SignalHandler
  BY <1>9 DEF SignalHandler, senderVars
<1>10. QED
  BY <1>1, <1>2, <1>3, <1>4, <1>5, <1>6, <1>7, <1>8, <1>9 DEF Next, MainThread, Connect, Start,
     CreateDecoder, InitRenderer, InitRendererFails, InitRendererHalfway, SharedDecoder,
     SharedDecoderHalfway, CloseRenderer, CallDisconnect, InsideDisconnect, Disconnected,
     Enter, Return, NetworkThreads, World, mainVars, vars

LEMMA NetStep == Flags /\ Flags' /\ Places /\ MainPlaces /\ NetInv /\ [Next]_vars => NetInv'
<1> SUFFICES ASSUME Flags, Flags', Places, MainPlaces, NetInv, [Next]_vars PROVE NetInv'
  OBVIOUS
<1> USE DEF Flags, Places, MainPlaces, NetInv, Unstarted, Started, Joined, Stopping, Within,
        After, Goto, Fail
<1>1. CASE UNCHANGED <<pc, clientVars>>
  BY <1>1 DEF clientVars, flagVars, socketVars
<1>2. CASE Connect
  BY <1>2 DEF Connect, ConnectSucceeds, ConnectFails, flagVars
<1>3. CASE Start
  BY <1>3 DEF Start, ClientStart, socketVars
<1>4. CASE UNCHANGED clientVars /\ pc \in Within /\ pc' \in Within
  BY <1>4 DEF clientVars, flagVars, socketVars
<1>5. CASE CallDisconnect
  BY <1>5 DEF CallDisconnect, Disconnect, socketVars
<1>6. CASE InsideDisconnect
  BY <1>6 DEF InsideDisconnect, InDisconnect, Join, CloseSockets, Threads, mainVars, flagVars,
     socketVars
<1>7. CASE Disconnected \/ Enter
  BY <1>7 DEF Disconnected, Enter, clientVars, flagVars, socketVars
<1>8. CASE Return
  BY <1>8 DEF Return, Threads, clientVars, flagVars, socketVars
<1>9. CASE NetworkThreads
  <2>1. CASE TcpReceiveThread
    BY <1>9, <2>1 DEF NetworkThreads, TcpReceiveThread, TcpLoop, TcpReceive,
       HandleControlPacket, TcpTimeout, TcpClosed, mainVars, flagVars, socketVars
  <2>2. CASE UdpReceiveThread
    BY <1>9, <2>2 DEF NetworkThreads, UdpReceiveThread, UdpLoop, UdpReceive, mainVars,
       flagVars, socketVars
  <2>3. CASE KeepaliveThread
    BY <1>9, <2>3 DEF NetworkThreads, KeepaliveThread, KeepaliveLoop, KeepaliveWakes,
       KeepaliveChecks, mainVars, flagVars, socketVars
  <2>4. QED BY <1>9, <2>1, <2>2, <2>3 DEF NetworkThreads, ClientThreads
<1>10. CASE World
  BY <1>10 DEF World, HostGoes, mainVars, flagVars, socketVars
<1>11. QED
  BY <1>1, <1>2, <1>3, <1>4, <1>5, <1>6, <1>7, <1>8, <1>9, <1>10 DEF Next, MainThread,
     CreateDecoder, InitRenderer, InitRendererFails, InitRendererHalfway, SharedDecoder,
     SharedDecoderHalfway, StartSender, LeaveLoop, CloseWindow, StopSender, JoinMouse,
     CloseRenderer, Mouse, PointerMoves, SignalHandler, mainVars, vars
-----------------------------------------------------------------------------
ClientInv ==
    /\ Flags /\ Places /\ SenderPlaces /\ MainPlaces /\ Silence
    /\ NetInv /\ SenderInv /\ DeviceInv

LEMMA ClientStarts == Init => ClientInv
<1> SUFFICES ASSUME Init PROVE ClientInv
  OBVIOUS
<1> USE DEF Init, ClientInit, SenderInit
<1>1. Flags
  BY DEF Flags
<1>2. Places /\ MainPlaces
  BY DEF Places, MainPlaces
<1>3. SenderPlaces
  BY SenderAssumption DEF SenderAssumption, SenderPlaces
<1>4. Silence
  BY ClientAssumption DEF ClientAssumption, Silence
<1>5. NetInv
  BY DEF NetInv, Unstarted, Within, After
<1>6. SenderInv /\ DeviceInv
  BY DEF SenderInv, Rests, Ended, DeviceInv, NothingHeld
<1>7. QED BY <1>1, <1>2, <1>3, <1>4, <1>5, <1>6 DEF ClientInv

LEMMA ClientInvStep == ClientInv /\ [Next]_vars => ClientInv'
<1> SUFFICES ASSUME ClientInv, [Next]_vars PROVE ClientInv'
  OBVIOUS
<1> USE DEF ClientInv
<1>1. Flags' /\ Places' /\ SenderPlaces' /\ MainPlaces' /\ Silence'
  BY FlagsTyped, PlacesTyped, SenderPlacesTyped, MainPlacesTyped, SilenceTyped
<1>2. NetInv' /\ SenderInv' /\ DeviceInv'
  BY <1>1, NetStep, SenderInvStep, DeviceStep
<1>3. QED BY <1>1, <1>2

LEMMA ClientAlways == Spec => []ClientInv
BY ClientStarts, ClientInvStep, PTL DEF Spec

\* The types of the client's variables; at most the renderer and the decoder
\* hold the device.
THEOREM ClientTyped == Spec => []TypeOK
<1>1. ClientInv => TypeOK
  <2> SUFFICES ASSUME ClientInv PROVE TypeOK
    OBVIOUS
  <2> USE DEF ClientInv
  <2>1. ClientTypeOK
    BY DEF ClientTypeOK, Flags, Places, Silence, Sockets, Threads
  <2>2. SenderTypeOK
    BY DEF SenderTypeOK, Flags, SenderPlaces
  <2>3. deviceRefs \in 0..2
    <3>1. deviceRefs = 0 \/ deviceRefs = 1 \/ deviceRefs = 2
      BY Zenon DEF MainPlaces, DeviceInv, NothingHeld, DecoderHolds, DecoderLeaks, RendererLeaks
    <3>2. 0 \in 0..2 /\ 1 \in 0..2 /\ 2 \in 0..2
      OBVIOUS
    <3>3. QED BY <3>1, <3>2, Zenon
  <2>4. call # "idle" => pc = "disconnecting"
    BY DEF NetInv
  <2>5. QED BY <2>1, <2>2, <2>3, <2>4 DEF TypeOK, Flags, MainPlaces
<1>2. QED BY <1>1, ClientAlways, PTL

\* Nothing is taken away from a thread or a hook that still uses it, whatever
\* fails on the way up and whoever ends the client (main, Stop, Disconnect).
THEOREM NothingTakenAway == Spec => []ResourcesOutliveUsers
<1>1. ClientInv => ResourcesOutliveUsers
  BY DEF ClientInv, MainPlaces, Places, SenderPlaces, NetInv, Unstarted, Started, Stopping,
     Joined, Within, After, SenderInv, Captures, Rests, Ended, DeviceInv, ResourcesOutliveUsers
<1>2. QED BY <1>1, ClientAlways, PTL

\* The process ends with every thread joined, or by std::terminate with none
\* (Disconnect, which returns at once when connected is false already).
THEOREM JoinedOrTerminated == Spec => []AllJoinedOrNone
<1>1. ClientInv => AllJoinedOrNone
  BY DEF ClientInv, NetInv, Unstarted, Started, Joined, SenderInv, Rests, AllJoinedOrNone
<1>2. QED BY <1>1, ClientAlways, PTL

\* Window and device are gone at the end, but for what failed half-way
\* (renderer.cpp and decoder.cpp, Initialize).
THEOREM DeviceGivenBack == Spec => []DeviceReleased
<1>1. ClientInv => DeviceReleased
  BY DEF ClientInv, DeviceInv, NothingHeld, DecoderLeaks, RendererLeaks, DeviceReleased
<1>2. QED BY <1>1, ClientAlways, PTL
-----------------------------------------------------------------------------
(***************************************************************************)
(* With a decoder that refuses to be created without a device, as that of  *)
(* the repository does, main gets no further than CreateDecoder.           *)
(***************************************************************************)
NeverFurther == {"connect", "start", "decoder", "disconnect", "disconnecting", "prompt",
                 "return", "exit", "terminated"}

Refused ==
    /\ pc \in NeverFurther
    /\ ~rendering /\ ~decoding /\ ~window /\ deviceRefs = 0
    /\ pc \notin {"connect", "start", "decoder"} => status = 1

RefusedInv == refusesNull => Refused

LEMMA RefusedStep == RefusedInv /\ [Next]_vars => RefusedInv'
<1> SUFFICES ASSUME RefusedInv, [Next]_vars PROVE RefusedInv'
  OBVIOUS
<1> USE DEF RefusedInv, Refused, NeverFurther, Goto, Fail
<1>1. CASE UNCHANGED <<pc, status, videoVars>>
  BY <1>1 DEF videoVars
<1>2. CASE Connect \/ Start \/ CreateDecoder
  BY <1>2 DEF Connect, Start, CreateDecoder, videoVars
<1>3. CASE InitRenderer \/ InitRendererFails \/ InitRendererHalfway \/ SharedDecoder
           \/ SharedDecoderHalfway \/ StartSender \/ LeaveLoop \/ CloseWindow
           \/ StopSender \/ JoinMouse \/ CloseRenderer
  BY <1>3 DEF InitRenderer, InitRendererFails, InitRendererHalfway, SharedDecoder,
     SharedDecoderHalfway, StartSender, LeaveLoop, CloseWindow, StopSender, JoinMouse,
     CloseRenderer, videoVars
<1>4. CASE CallDisconnect \/ Disconnected \/ Enter
  BY <1>4 DEF CallDisconnect, Disconnected, Enter, videoVars
<1>5. CASE Return
  BY <1>5 DEF Return
<1>6. QED
  BY <1>1, <1>2, <1>3, <1>4, <1>5 DEF Next, MainThread, InsideDisconnect, NetworkThreads,
     Mouse, World, PointerMoves, SignalHandler, mainVars, vars

\* Such a client never has a window, never decodes, shows or captures anything,
\* and if it ends by itself it returns 1 (main.cpp, CreateDecoder(nullptr)).
THEOREM RefusedShowsNothing ==
    Spec => [](refusesNull =>
                  /\ ~window /\ ~rendering /\ ~decoding
                  /\ ~capturing /\ hooks = {} /\ mouse \in Ended
                  /\ pc \in {"exit", "terminated"} => status = 1)
<1>1. Init => RefusedInv
  BY DEF Init, RefusedInv, Refused, NeverFurther
<1>2. Spec => []RefusedInv
  BY <1>1, RefusedStep, PTL DEF Spec
<1>3. ClientInv /\ RefusedInv =>
         (refusesNull =>
             /\ ~window /\ ~rendering /\ ~decoding
             /\ ~capturing /\ hooks = {} /\ mouse \in Ended
             /\ pc \in {"exit", "terminated"} => status = 1)
  BY DEF ClientInv, SenderInv, Rests, RefusedInv, Refused, NeverFurther
<1>4. QED BY <1>2, <1>3, ClientAlways, PTL
-----------------------------------------------------------------------------
(***************************************************************************)
(* The focus is read once, when the capture starts.                        *)
(***************************************************************************)
BeforeCapture ==
    {"connect", "start", "decoder", "renderer", "shared decoder", "sender"}

Unreported == lastMousePos = None /\ reported = None /\ mouse # "send"

FocusInv ==
    /\ pc \in BeforeCapture => ~windowHasFocus
    /\ ~windowHasFocus => Unreported

LEMMA FocusStep == MainPlaces /\ FocusInv /\ [Next]_vars => FocusInv'
<1> SUFFICES ASSUME MainPlaces, FocusInv, [Next]_vars PROVE FocusInv'
  OBVIOUS
<1> USE DEF FocusInv, Unreported, BeforeCapture, Goto, Fail
<1>1. pc' \in BeforeCapture => pc \in BeforeCapture
  BY DEF MainPlaces, Next, MainThread, Connect, Start, CreateDecoder, InitRenderer,
     InitRendererFails, InitRendererHalfway, SharedDecoder, SharedDecoderHalfway, StartSender,
     LeaveLoop, CloseWindow, StopSender, JoinMouse, CloseRenderer, CallDisconnect,
     InsideDisconnect, Disconnected, Enter, Return, NetworkThreads, Mouse, World,
     PointerMoves, SignalHandler, mainVars, vars
<1>2. CASE UNCHANGED senderVars
  BY <1>1, <1>2 DEF senderVars
<1>3. CASE StartSender
  BY <1>3 DEF StartSender, SenderStart, SenderStartFails, senderVars
<1>4. CASE StopSender \/ JoinMouse
  BY <1>1, <1>4 DEF StopSender, SenderStop, JoinMouse, SenderShutdown, senderVars
<1>5. CASE Mouse
  <2>1. UNCHANGED windowHasFocus
    BY <1>5, Zenon DEF Mouse, MouseThread, MouseEnds, MousePoll, SendMouseMove
  <2>2. windowHasFocus => FocusInv'
    BY <1>1, <2>1, Zenon
  <2>3. ~windowHasFocus => MouseEnds
    BY <1>5, Zenon DEF Mouse, MouseThread, MousePoll, SendMouseMove
  <2>4. ~windowHasFocus => FocusInv'
    BY <1>1, <2>1, <2>3, Zenon DEF MouseEnds
  <2>5. QED BY <2>2, <2>4, Zenon
<1>6. CASE PointerMoves
  BY <1>1, <1>6 DEF PointerMoves, MoveCursor
<1>7. QED
  BY <1>2, <1>3, <1>4, <1>5, <1>6 DEF Next, MainThread, Connect, Start, CreateDecoder,
     InitRenderer, InitRendererFails, InitRendererHalfway, SharedDecoder,
     SharedDecoderHalfway, LeaveLoop, CloseWindow, CloseRenderer, CallDisconnect,
     InsideDisconnect, Disconnected, Enter, Return, NetworkThreads, World, SignalHandler, vars

\* Past the start of the capture nobody writes the flag again.
Background == pc \notin BeforeCapture /\ ~windowHasFocus

LEMMA BackgroundStays == MainPlaces /\ Background /\ [Next]_vars => Background'
<1> SUFFICES ASSUME MainPlaces, Background, [Next]_vars PROVE Background'
  OBVIOUS
<1>1. pc' \notin BeforeCapture
  BY DEF Background, BeforeCapture, Goto, Fail, MainPlaces, Next, MainThread, Connect, Start,
     CreateDecoder, InitRenderer, InitRendererFails, InitRendererHalfway, SharedDecoder,
     SharedDecoderHalfway, StartSender, LeaveLoop, CloseWindow, StopSender, JoinMouse,
     CloseRenderer, CallDisconnect, InsideDisconnect, Disconnected, Enter, Return,
     NetworkThreads, Mouse, World, PointerMoves, SignalHandler, mainVars, vars
<1>2. ~StartSender
  BY DEF Background, BeforeCapture, StartSender
<1>3. UNCHANGED windowHasFocus
  BY <1>2, Zenon DEF Next, MainThread, Connect, Start, CreateDecoder, InitRenderer,
     InitRendererFails, InitRendererHalfway, SharedDecoder, SharedDecoderHalfway, LeaveLoop,
     CloseWindow, StopSender, SenderStop, JoinMouse, SenderShutdown, CloseRenderer,
     CallDisconnect, InsideDisconnect, Disconnected, Enter, Return, NetworkThreads, Mouse,
     MouseThread, MouseEnds, MousePoll, SendMouseMove, World, PointerMoves, MoveCursor,
     SignalHandler, senderVars, vars
<1>4. QED BY <1>1, <1>3 DEF Background

\* A window that is not in front when the capture starts never reports a
\* position of the pointer, wherever the user goes with it afterwards
\* (input_sender.cpp, Initialize and MouseThread).
THEOREM BackgroundNeverReports ==
    Spec => [](capturing /\ ~windowHasFocus => [](reported = None))
<1>1. Init => FocusInv
  BY DEF Init, SenderInit, FocusInv, Unreported
<1>2. ClientInv /\ FocusInv /\ [Next]_vars => FocusInv'
  BY FocusStep DEF ClientInv
<1>3. Spec => []FocusInv
  BY <1>1, <1>2, ClientAlways, PTL DEF Spec
<1>4. ClientInv /\ capturing /\ ~windowHasFocus => Background
  BY DEF ClientInv, SenderInv, Rests, Background, BeforeCapture
<1>5. ClientInv /\ Background /\ [Next]_vars => Background'
  BY BackgroundStays DEF ClientInv
<1>6. FocusInv /\ Background => reported = None
  BY DEF FocusInv, Background, Unreported
<1>7. QED BY <1>3, <1>4, <1>5, <1>6, ClientAlways, PTL DEF Spec
-----------------------------------------------------------------------------
(***************************************************************************)
(* What the host has been told of the pointer.                             *)
(***************************************************************************)
ReportInv ==
    /\ lastMousePos = None => reported = None /\ ~reportLost /\ mouse # "send"
    /\ mouse # "send" /\ ~reportLost => reported \in {lastMousePos, None}

LEMMA ReportStep == MainPlaces /\ SenderPlaces /\ SenderInv /\ ReportInv /\ [Next]_vars => ReportInv'
<1> SUFFICES ASSUME MainPlaces, SenderPlaces, SenderInv, ReportInv, [Next]_vars PROVE ReportInv'
  OBVIOUS
<1> USE DEF ReportInv
<1>1. CASE UNCHANGED senderVars
  BY <1>1 DEF senderVars
<1>2. CASE StartSender /\ SenderStart
  <2>1. pc = "sender" /\ mouse # "send"
    BY <1>2 DEF StartSender, SenderInv, Rests, Ended
  <2>2. UNCHANGED <<lastMousePos, reported, reportLost>> /\ mouse' = "loop"
    BY <1>2 DEF SenderStart
  <2>3. QED BY <2>1, <2>2
<1>3. CASE SenderStartFails \/ SenderStop \/ SenderShutdown \/ MoveCursor
  BY <1>3 DEF SenderStartFails, SenderStop, SenderShutdown, MoveCursor
<1>4. CASE MouseEnds
  BY <1>4 DEF MouseEnds
<1>5. CASE MousePoll(connected)
  <2>1. cursor # None /\ UNCHANGED <<reported, reportLost>> /\ mouse = "loop" /\ lastMousePos' = cursor
    BY <1>5, SenderAssumption DEF MousePoll, SenderAssumption, SenderPlaces
  <2>2. mouse' # "send" => lastMousePos \in {None, cursor}
    BY <1>5 DEF MousePoll
  <2>3. QED BY <2>1, <2>2
<1>6. CASE SendMouseMove(connected)
  BY <1>6 DEF SendMouseMove
<1>7. QED
  BY <1>1, <1>2, <1>3, <1>4, <1>5, <1>6 DEF Next, MainThread, Connect, Start, CreateDecoder,
     InitRenderer, InitRendererFails, InitRendererHalfway, SharedDecoder, StartSender,
     SharedDecoderHalfway, LeaveLoop, CloseWindow, StopSender, JoinMouse, CloseRenderer,
     CallDisconnect, InsideDisconnect, Disconnected, Enter, Return, NetworkThreads, Mouse,
     MouseThread, World, PointerMoves, SignalHandler, vars

\* Whenever the mouse thread is not about to send, the last position that the
\* host was sent is the last one the thread saw, unless that send failed or
\* there was none: a failed send, which nobody notices, is the only way for the
\* host to be left with an old position (MouseThread, SendMouseMove).
THEOREM LastReportStands ==
    Spec => [](mouse # "send" /\ ~reportLost => reported \in {lastMousePos, None})
<1>1. Init => ReportInv
  BY DEF Init, SenderInit, ReportInv
<1>2. ClientInv /\ ReportInv /\ [Next]_vars => ReportInv'
  BY ReportStep DEF ClientInv
<1>3. ReportInv => (mouse # "send" /\ ~reportLost => reported \in {lastMousePos, None})
  BY DEF ReportInv
<1>4. QED BY <1>1, <1>2, <1>3, ClientAlways, PTL DEF Spec
=============================================================================
