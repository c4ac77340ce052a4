# GuptService in TLA+

This directory models the remote desktop system of this repository and states
what makes it correct. TLC checks the models on small instances; TLAPS proves
the safety properties for every value of the constants.
`PROJECT.json` maps every definition to the lines it stands for.

Run a check with `tlc -config <run>.cfg <module>`, a proof with
`tlapm <module>Proofs.tla`.

## The system

A **host** captures its Windows desktop, encodes it and streams it to
**clients**, which display it and send mouse and keyboard input back. A
**signaling server** tells clients which hosts there are. Video goes over UDP,
everything else between host and client over TCP.

```
 host                                               client
 ScreenCapture -> encoder -> NetworkServer ==UDP==> NetworkClient -> decoder -> renderer
                             |  accept thread       |  UDP thread -> assemblers -> jitter buffer
                             |  keepalive thread <=TCP=>  TCP thread, keepalive thread
 InputHandler <------------- |  receive thread per client  <== InputSender

 signaling server: HTTP API -> SessionManager <- cleanup ticker      (web page)
```

| component | state | operations | interacts with | hard behaviour | what makes it correct |
|---|---|---|---|---|---|
| packetizer (`network_server.cpp`, `packet.h`) | none | cut a bitstream into datagrams | sender | rounding at the boundary of a payload | the chunks are the bitstream: none empty, none too large, in order |
| video path (`network_server.cpp`, `network_client.cpp`) | datagrams in flight, assemblers by frame number, jitter buffer | SendFrame, UdpReceiveThread, expiry sweep, GetNextFrame | encoder, decoder | loss, duplication, reordering, timeouts, a second session | a frame that reaches the decoder is one the host encoded, whole; nothing is dropped early |
| connection establishment (both `network_*.cpp`) | TCP streams, where client and accept thread are, the client list | Connect, Handshake, Authenticate, HandleHandshake, HandleAuth | keepalive thread on the same stream | two parties that wait for each other, timeouts racing answers | only authorised clients are served, a client that believes it is connected is, everybody returns, places are freed |
| network server threads (`network_server.cpp`) | threads, `clientsMutex`, life of each `ClientInfo` | accept, receive, keepalive, SendFrame, Stop, Shutdown | main thread of the host | interleavings, pointers to records another thread erases, joining blocked threads | after Stop no thread runs and no record is left; a record outlives its thread |
| control connection (`network_server.cpp`) | bytes in the socket, position of the receive thread | peek, recv, drain | InputHandler | TCP cuts packets anywhere, sends that fail half-way, a record freed under the thread | what is injected was sent, in order, at most once |
| network client threads (`network_client.cpp`) | threads, sockets, `connected`, `running` | Start, Stop, Disconnect, three loops | main thread of the client, InputSender | a thread that notices the loss first, joining blocked threads | sockets outlive threads, a loss is noticed |
| screen capture (`capture.cpp`) | duplication object, acquired frame | Initialize, CaptureFrame, ReleaseFrame, Shutdown | DXGI, desktop | the desktop changes between any two calls | a frame is never asked for while one is out |
| encoder (`encoder.cpp`) | frame counter, pending keyframe request | EncodeFrame, ForceKeyframe, Reconfigure, Initialize, Shutdown | host loop | counting modulo a period with forced keyframes | a keyframe in every period; a forced one is the next frame |
| host application (`host/main.cpp`) | which parts are up, `g_running` | Initialize with roll-back, Run, Shutdown | all of the host | partial failure at start, signals, lost desktop | every frame accounted for, nothing left up, the process ends |
| signaling sessions (`session.go`, `api.go`) | session map, answers being written | RegisterHost, heartbeat, ConnectClient, DisconnectClient, RemoveHost, cleanup | hosts, clients, ticker | crashes of anybody, pointers read after the unlock | state and client agree, nobody steals a session, the dead go |
| input sender (`input_sender.cpp`) | hooks, the static pointer to the object, mouse thread, last pointer position | Initialize, Shutdown, hook callbacks, MouseThread | main thread of the client, NetworkClient, window | callbacks that find their object through a pointer, a thread that outlives what it uses, a send that fails unnoticed | nothing is used that is gone; the host learns where the pointer rests |
| input handler (`input_handler.cpp`) | what the desktop takes to be held down, the pointer | HandleInputPacket, InjectKeyboard, InjectMouseButton, InjectMouseMove | control connection, desktop | SendInput that fails, lost packets, 32-bit products | no key stays down that the user released; the pointer lands where it was sent |
| client application (`client/main.cpp`) | which parts are up, `g_running`, what main returns | connect, bring up decoder, renderer and sender, loop, take down | everything of the client | every way out of a start-up that fails in the middle, a signal or a loss at any moment | no thread outlives what it uses, no thread is left, the device is given back |
| decoder, renderer (`decoder.cpp`, `renderer.cpp`) | device, window, render target | Initialize, Shutdown | client application | failures half-way through Initialize | what they hold is released (in `ClientApplication`) |
| utilities, logger, web page, tests | | | | | see *Not modelled* |

The hazards that the properties aim at, each at its line, are listed in
`PROJECT.json` under `hazards`.

## The modules

| module | models | proofs |
|---|---|---|
| `Packetizer` | packet count, offsets and sizes of a frame's datagrams, as operators | `VideoStreamProofs` |
| `FrameStream` | the abstract video path: frames are offered, some get ready, the ready ones are handed out one after the other | |
| `VideoStream` | sender, network, assemblers, sweep, jitter buffer, main loop; a frame is its number, its size and its keyframe flag, a chunk says which bytes of which frame of which session it holds | `VideoStreamProofs` |
| `Handshake` | clients' Connect against the accept thread; TCP is a FIFO of whole packets | `HandshakeProofs` |
| `NetworkServer` | the server's threads down to each access of a shared object, and the life of each `ClientInfo` | `NetworkServerProofs` |
| `NetworkClient` | the client's network threads and sockets, Start and Disconnect, and a host that closes or falls silent: actions, without a specification of its own | |
| `InputSender` | the life of the input sender, its hooks and its thread: actions likewise | |
| `ClientApplication` | the client's main thread, with decoder, renderer and window; extends the two before it | `ClientApplicationProofs` |
| `InputStream` | one control connection as a stream of 4-byte cells that arrives in pieces | `InputControlProofs` |
| `InputControl` | remote control from end to end: the user's keys and pointer, the packets, the stream of `InputStream`, which it extends, and what InputHandler makes of them | `InputControlProofs` |
| `SessionManager` | the signaling server, hosts and clients that crash, a clock | `SessionManagerProofs` |
| `ScreenCapture` | the capture, with DXGI calls as steps of their own, and the desktop | `HostPipelineProofs` |
| `Encoder` | the two stub encoders, which behave alike | `EncoderProofs` |
| `HostPipeline` | the host application: extends `ScreenCapture`, instantiates `Encoder` | `HostPipelineProofs` |

`MCVideoStream`, `MCHandshake`, `MCNetworkServer` and `MCSessionManager` give
names to the values the configurations use. A definition called *mutant* is
never used by a specification: it is a plausible bug of the definition below
it, kept to show that a property would find it.

Correspondence. An action has the name of the function it models, or of the
part of it between two points where another thread, a packet or the desktop can
intervene; a variable has the name of the field. Thread positions (`main`,
`accepter`, `call`, `pc`, ...) name the call the thread blocks in or the access
it makes next. Actions whose `PROJECT.json` entry is external are the rest of
the world: the network, the desktop, a peer.

What the models take as given:

- `VideoStream`: the host sends its datagrams to the address *and port* of the
  client's TCP connection (`network_server.cpp:571`). The client's UDP socket has
  a port that the system chose (`network_client.cpp:133` binds it to port 0), and
  nobody tells the host which. `samePort` says whether the two numbers happen to
  be the same; without that no datagram is read. `ClientApplication` has the same
  variable. What the runs and theorems say of frames is about the case that
  they do arrive. The client library allows a second Connect on the same object;
  `main` connects once. Frames are numbered from 1 by a host that is started anew.
- `Handshake`: clients in `Eager` send HandshakePacket and AuthPacket at once.
  No client of this repository does; they are there because without them
  nobody gets past requireAuth (see `AuthShutsOut`) and the rest of the model
  would never run.
- `NetworkServer`: accept may time out, as the comment at `network_server.cpp:199`
  supposes, but Winsock does not promise that SO_RCVTIMEO bounds it, so it need
  not. At a close the receive thread looks at the last socket error, which may be
  that of an earlier timeout: both outcomes are possible. What a read of a
  freed record returns is arbitrary.
- `SessionManager`: hosts and clients are external, neither the C++ host nor the
  C++ client calls the server. A read of a Go string that races a write is taken
  to be one value or the other, never a torn one.
- `InputStream`: packets and payloads are told apart by their first cell; a
  payload never looks like a header. A send may time out (SO_SNDTIMEO,
  `utils.cpp:66`) with a piece of its packet in the stream (`PieceSizes`); the
  client ignores that (`network_client.cpp:403-410`, `input_sender.cpp:234`). Of a
  packet that was sent in part the first cells stand for its number, what it says
  may be anything. KeepaliveThread frees the ClientInfo whatever the
  receive thread is doing; what the thread reads from then on is arbitrary.
- `InputControl`: `input_sender.cpp` and `input_handler.cpp` name members of a
  packet that `packet.h` does not declare. What is meant is taken from
  `PacketUtils`, which fills a packet in. One axis of the screen stands for both,
  mouse buttons count as keys, and the wheel, which leaves nothing behind, is left
  out. SendInput may fail at any time, and so may the client's send: the event is
  then gone.
- `InputSender`: the configuration is the default one, which is what `main`
  passes; `SetEnabled` and `WindowProc` are used by nothing, so `windowHasFocus`
  keeps the value that Initialize reads, which may be either. A send may fail at
  any time (`reportLost`).
- `ClientApplication`: `main` first creates a decoder without a device. The
  decoder of this repository refuses that (`decoder.cpp:17`), and then the client
  takes itself down before it has shown a frame. The hardware decoder that
  `CODEC_INTEGRATION.md:434` gives would not refuse. `refusesNull` stands for
  either, otherwise everything behind that call would be out of reach.
- `HostPipeline`: creating an encoder never fails, because neither NVENC nor the
  software encoder is available and the factory falls back to the stub. Capture
  and encoder run in the main thread, so between them nothing interleaves but
  the desktop, the signal and viewers. Of the server's threads only the end of the
  accept thread is there (`ServerStopped`), which the join in Stop waits for;
  `NetworkServer` has them all. The desktop may change at any time and as often
  as it likes, so CaptureFrame may call itself again without end.

## What is checked

| run | question | result |
|---|---|---|
| `VideoStream` | two sessions over one assembler map: does the path implement `FrameStream` (`ImplementsFrameStream`), are frames whole unless they were begun in the session before (`FramesWhole`), is the map free of finished frames (`AssemblersWaiting`), and is nothing dropped early (`DropsJustified`)? | holds |
| `Handshake` | two clients, any passwords and versions, with and without requireAuth: who is accepted (`OnlyAuthorised`, `AuthShutsOut`), do both sides agree (`ConnectedIsServed`), and does everybody return and make room (`BothReturn`, `PlacesFreed`)? | holds |
| `HandshakeDeadlock` | does a client with the right password connect to a host that asks for it? | **no** |
| `NetworkServer` | two connections, streaming, keepalive and Stop at any time: what Shutdown leaves (`ShutdownIsFinal`), whose record goes early (`OnlySilentFreedEarly`), and whether anything but a blocking accept keeps Stop (`ShutdownReturns`) | holds |
| `ClientApplication` | every start-up failure, signal, loss and closed window, in every order with the four threads: is anything used that is gone (`ResourcesOutliveUsers`), is every thread joined (`AllJoinedOrNone`), the device given back (`DeviceReleased`), a loss noticed (`LossNoticed`), does anything but a blocking recvfrom keep the process from its end (`OnlyUdpBlocks`), and does the host learn where the pointer rests unless that send fails (`PointerFollows`)? | holds |
| `ClientApplicationStop` | does the client end after Ctrl+C (`StopEnds`)? | **no** |
| `SessionManager` | two clients compete for a host, everybody may crash: `StateMatchesClient`, `NoStealing`, `StaleRemoved` | holds |
| `Encoder` | forced keyframes, bitrates and restarts: `KeyframeEveryPeriod`, `ForcedIsNext` | holds |
| `HostPipeline` | the composed host, any desktop: `AcquireWhenReleased`, `FramesAccounted`, `NothingLeftUp`, and does anything but a blocking accept or a restless desktop keep it from its end (`StopEnds`)? | holds |
| `HostPipelineLocked` | does a locked screen leave the process alive? | **no** |
| `InputControl` | TCP cuts the stream anywhere, sends and SendInput may fail, the ClientInfo may be freed at any time: `InjectedFaithfully`, `NoKeyStuck`, `PointerLands` | holds |
| `InputStreamLost` | is every input event injected, as long as each send puts a whole packet into the stream? | **no** |

The four runs that end in a violation disagree with what the documentation
says:

- **`HandshakeDeadlock`**: the client waits for the handshake response before it
  sends its AuthPacket, the host waits for the AuthPacket before it responds.
  With requireAuth both wait until a timeout. `AuthShutsOut`, which holds, says
  the same from the other side: only `Eager` clients are ever authenticated.
- **`ClientApplicationStop`**: after Ctrl+C Disconnect joins the UDP thread
  (`network_client.cpp:76-90`) before it closes the socket at which that thread
  waits in recvfrom without a timeout (`:289`). Nothing wakes it: the host sends
  to another port, and a host whose screen does not change sends nothing.
  `PHASE5_COMPLETE.md:441` promises a clean exit. `OnlyUdpBlocks`, which holds,
  says that this is the only place where the client can stay.
- **`HostPipelineLocked`**: if the desktop is still locked half a second after
  the duplication was lost, `deskDupl` stays null while `initialized` stays
  true, and the next CaptureFrame calls through it.
- **`InputStreamLost`**: a packet that arrives in two pieces is discarded, and
  the stream is out of step from then on.

### Bounds

| bound | value | why it is enough |
|---|---|---|
| `MaxUdpPayload`, `FrameSizes` | 2 bytes; 2 and 3 | one full datagram, and two of which the last is short. Larger frames differ only in how many datagrams are in flight, and `FramesWhole` and the refinement are proved for all sizes and numbers of sessions |
| `MaxFrames` (video) | 2 | two frames overlap in the network and in the map |
| `MaxSessions` | 2 | the same frame numbers are used twice, over assemblers that the first session left |
| `MaxDups` | 1 | a copy may arrive before, between and after the other pieces |
| `FrameTimeout`, `Timeout`, `MaxSilence` | 1 | ages saturate just past the timeout: younger and older than it are told apart |
| `Clients`, `MaxClients` (handshake) | 2, 1 | one in, one that competes for the place |
| `MaxInFlight`, `MaxPackets` (server) | 1 | a keepalive before the packet a reader expects |
| `Conns`, `MaxClients` (server) | 2, 1 | one listed while another is accepted, refused or erased |
| `Sessions`, `Clients` (signaling) | 1, 2 | sessions do not touch each other, two clients compete; the invariants are proved for any number |
| `MaxFrames` (host), `IdrPeriod` | 7, 3 | two whole periods; `HostPipelineLocked` needs 4, the encoder on its own goes to 8. The desktop is not bounded |
| `Positions` | 2 | the pointer moves away and comes back |
| sizes of `InputControl` | 2/3/5/4 cells, 3 packets | for header, input, control and drain, whose real sizes are 2, 9, 17 and 64 cells (`InputStreamLost` uses those, and pieces of 1 and 2 cells, less than a header and a header; `InputControl` of 2); small ones with a drain that is shorter than a control packet, so that what it leaves is read as a header without a fourth packet. `InjectedFaithfully` is proved for all sizes |
| `Width`, `AbsRange`, `IntMax`, `Coordinates` | 5, 7, 31; 9 | a range only just fine enough for the pixels, and a product that overflows: 9 * 7 does, as 40000 * 65535 does with 32 bits, and must be cut to the width before. `PointerLands` is proved for all values |
| `Keys` | 1 | keys do not touch each other; `NoKeyStuck` is proved for any number |

### Fairness

Weak fairness is assumed of the loops of threads that do not wait for anybody
(each is a `while (running)` around calls that return), of the receive timeouts
that the code sets on connected sockets (SO_RCVTIMEO of 5 s on both TCP ends), of
the clock and the ticker of the signaling server, and of TCP, which delivers what
was sent while the connection lives. Never of a peer, a user or the desktop:
nobody has to connect, send, close, unlock or come to rest. Two calls have no
end of their own and are not fair: accept, which returns when somebody
connects and otherwise need not (`NetworkServer`, `ServerStopped` of
`HostPipeline`), and the client's recvfrom on the UDP socket. The properties that
meet them name them as what may keep a thread (`AcceptBlocks`, `UdpBlocks`), and
likewise a desktop that loses every duplication anew (`RecursesForever`). In
`ClientApplication` the main thread, the mouse thread, the TCP thread, the
keepalive thread and the UDP thread up to its recvfrom are fair; nobody has to
press Enter. In `HostPipeline` only the main thread is: AcquireNextFrame has
a timeout. `VideoStream`, `InputStream` and `InputControl` have no fairness: main
may leave its loop with frames queued, and a stream may stop at any cell. A
sleep is a step that is taken some time.

## What is proved

For all values of the constants that satisfy the named assumptions
(`...Assumption` in each module: positive sizes and periods, disjoint sets; that
those of `InputControl` hold of the real sizes is lemma `RealSizes`). A theorem
with a hypothesis on the behaviour says which one it is: it tells what a hazard
that the code does have needs in order to happen. None holds without its
hypothesis: TLC has a counterexample for each.

| theorem | says | along which argument |
|---|---|---|
| `ChunksFit`, `ChunksCover`, `ChunksOrdered` | a frame's datagrams are the frame | arithmetic of the rounded quotient |
| `TypeCorrect`, `AssemblersAlwaysWait` | `VideoStream`'s types and the shape of the map | inductive by themselves, for any number of sessions |
| `NothingDroppedEarly` | `DropsJustified` | an entry that was there is waiting, so it knows its totalPackets and a datagram does not set its age anew |
| `FramesAlwaysWhole`, `FirstSessionWhole` | `FramesWhole`, for any number of sessions; in the first one without its exception | `IInv`: every datagram in flight is a chunk of this session, and every stored piece is the chunk of the frame it claims to be of unless the assembler is stale, that is, holds a piece from an earlier session; a stale one stays stale until its frame, begun earlier, is handed out. `FramesWhole` alone is not inductive: it says nothing of the pieces a frame is made of |
| `Refinement` | `VideoStream` implements `FrameStream`, for any number of sessions | each step maps to a step or a stutter, by `IInv` |
| `HandshakeTyped`, `OnlyAuthorisedAccepted`, `AcceptedAreServed`, `AuthAlwaysShutsOut` | the safety of `Handshake`, for any number of clients | `HandshakeInv`: what is in the two streams of a client. A good answer is in the stream only if the host has authenticated the client (`Asked`), an AuthPacket before that only if the client is eager, a connection in the backlog is nobody's (`Placed`), and a client that was told that it is accepted is served (`Agreed`) |
| `NobodyWaitsForAuth`, `PasswordNeverConnects` | who never gets in: nobody that waits for the handshake response when a password is required, and no NetworkClient with a password at all | no good answer is on its way to such a client: with requireAuth the host has not been asked, without it the one good answer is that to the handshake, which takes the client to its wait for a second |
| `NeverOverfull` | no more than `maxClients` are served | from the look at the vector to the insertion there is room for one more, because removals are all that can come between |
| `ServerTyped`, `ShutdownLeavesNothing`, `FreedEarlyWasSilent` | the safety of `NetworkServer`, for any number of connections | `ServerInv`: which threads can run at each place of the main thread, and per connection what its record, its socket and its receive thread can be at the same time. A socket that is open when the record is gone is that of a client whose end is closed |
| `VectorWithinLimit`, `NoneSilentNoneDangling` | the vector never holds more than `maxClients`; and no running thread's ClientInfo is freed, *if* no client is dropped for silence (`NobodySilent`) | as `NeverOverfull`; the socket of a client with a running thread stays open and the client active, so that the sweep keeps its record |
| `ClientTyped`, `NothingTakenAway`, `JoinedOrTerminated`, `DeviceGivenBack` | the safety of `ClientApplication` | `ClientInv`: at each place of the main thread, which threads, hooks, sockets and references there are; `connected` goes before `running` only by a thread's own doing |
| `RefusedShowsNothing`, `BackgroundNeverReports` | what a client never does with a decoder that refuses null, or with a window in the background at the start of the capture | the places main can be at; nobody writes the flag after StartSender, and without it the mouse thread notes no position |
| `LastReportStands` | outside of a send, the last position that the host was sent is the last one that the mouse thread noted, unless that send failed | a position is noted on the way to its send, and only there |
| `SessionsTyped`, `StatesMatchClients`, `NobodySteals` | the signaling server's invariants | pointers of pending answers are to sessions in the map; state and client change together |
| `ClaimsAreExclusive`, `NeverToldToTwo` | who was told that it has a session has it, nobody else was, and the answer says so, *if* the session is not removed (`Kept`) | `ToldHold`: from the claim to the release the map names the client, and its answer points into the map. Without the hypothesis it is false, as TLC shows: a cleanup or a restart frees the session, and the client is not told |
| `EncoderTyped`, `KeyframesPeriodic`, `ForcedNext` | the encoder | the last multiple of the period is not after the last keyframe |
| `CaptureTyped`, `NeverInvalidCall` | the capture | DXGI has a frame out only when `frameAcquired` says so, and CaptureFrame is past its checks |
| `NeverRepaired`, `CrashNeedsFailedRecreation`, `HostCrashNeedsFailedRecreation` | the capture is lost for good once a recreation fails, and never crashes *if* every recreation succeeds (`RecreationSucceeds`) | without a failed recreation the duplication is missing only inside HandleAccessLost, which calls nothing through it |
| `CaptureTellsDimensions`, `FramesFitUntilModeChanges`, `TexturesPileUp` | what the capture tells is right while a frame is out; what the encoder took from it at the start is right *if* the mode stays; textures are never given back | a texture has the mode of the duplication it came from, and that is the one described; every captured frame is encoded before the loop comes round |
| `HostImplementsCapture`, `HostImplementsEncoder` | the host calls its parts only as their modules allow, so the theorems about the parts hold in the whole | each step of the host is a step of the part or leaves it alone |
| `HostTyped`, `HostNeverInvalidCall`, `EveryFrameAccounted`, `EverythingDown` | the host's safety | `HostInv`: at each place of the main thread, which parts are up and how far the encoder is behind the capture |
| `StreamTyped`, `InputFaithful` | the control connection | what was read and what is still to come are increasing positions in what was sent |
| `LostOnlyByShortRecv`, `NothingLostUncut`, `KeysReleasedUnlessShort` | what `InputStreamLost` finds has no other cause, as long as each send puts a whole packet into the stream: *if* no recv finds its packet in part (`NotShort`), or none arrives in part (`WholeArrivals`), every event is injected, and keys are up that the user released | `UntornInv`: until a send fails half-way the thread is always at the first cell of a packet and never drains. A packet that has arrived whole cannot be received in part, since nothing else reads the socket between peek and recv |
| `ControlImplementsStream` | `InputControl` is `InputStream` with a user and a desktop | each step of it is a step of the stream or leaves it alone |
| `ControlTyped`, `KeysNeverStick`, `PointerAlwaysLands` | remote control from end to end | a key that is down is down since an injected event, one whose last event was to go down is pressed, and a host that lost nothing has injected the last one, unless its release was not sent (`unsent`); the pointer is what the last injected movement computes, and the division by the width loses less than a pixel |

**Only model-checked.** Liveness (`BothReturn`, `PlacesFreed`, `ShutdownReturns`,
`LossNoticed`, `OnlyUdpBlocks`, `StopEnds` of the host, `PointerFollows`,
`StaleRemoved`) is out of the prover's reach. Every invariant and every action
property that a passing run checks is proved, and so is the refinement of
`FrameStream`. What a frame count or a queue may grow to is not bounded by the
code, so there is nothing to prove of it but the growth (`TexturesPileUp`).

## What the code does that no run checks

Met while modelling; each follows from the cited lines, and the models have the
behaviour.

- Video reaches the client by accident only: `network_server.cpp:571` sends to the
  port of the TCP connection, `network_client.cpp:133` binds to any other. `samePort`
  in `VideoStream` and `ClientApplication` is that accident.
- Frames that are queued when the client's loop ends (`client/main.cpp:174-179`) are
  never shown; `FrameStream` promises nothing of the kind.
- Frames are displayed in the order they complete, not in that of their numbers
  (`network_client.cpp:331`; `ARCHITECTURE.md:286` says they are reordered), and
  a frame is displayed twice when all its datagrams are duplicated (`:318`).
- Assemblers outlive Disconnect and frame numbers start again with the host:
  after a reconnect a frame may mix chunks of two (`network_client.cpp:322`).
  `FramesWhole` says that no other frame is mixed; in the first session, and
  `main` has no second, none is (`FirstSessionWhole`).
- Without traffic expired assemblers stay: the sweep runs after a datagram
  (`network_client.cpp:337`). The jitter buffer has no limit.
- A client that has a password cannot connect to a host that asks for none
  either: it waits for an answer that is not sent (`network_client.cpp:191`). So
  giving the client a password keeps it from connecting anywhere
  (`PasswordNeverConnects`).
- The socket of a client that closed its connection is never closed, not even by
  Shutdown (`network_server.cpp:365`; `ShutdownIsFinal` says that it is never any
  other). The record of a client that was silent is
  erased while its receive thread still uses it (`OnlySilentFreedEarly` says
  that it is never any other); `InputStream` has the same for a thread that is
  between two recv.
- If accept does not time out, Stop does not return until somebody connects: it
  joins the accept thread, and only Shutdown closes the listening socket
  (`network_server.cpp:165-190`, `:57-83`). `ShutdownReturns` and `StopEnds` of the
  host name it as what may keep them.
- On the client, once a thread has noticed the loss of the host Disconnect returns at once (`:77`), and the
  destructors of three joinable threads end the process by std::terminate
  (`AllJoinedOrNone`).
- With the decoder of this repository the client never reaches its loop: `main`
  asks for one without a device (`client/main.cpp:108`, `decoder.cpp:17`), and it
  ends without a window (`RefusedShowsNothing`).
- Initialize of the renderer and of the decoder calls Shutdown when it fails, which
  returns early because `initialized` is not set yet (`renderer.cpp:36`,
  `decoder.cpp:33`): a window or a reference to the device stays
  (`DeviceReleased` says that it is never more).
- `windowHasFocus` is read once (`input_sender.cpp:43`) and never again: a window
  that was in the background at that moment never reports the pointer
  (`BackgroundNeverReports`).
- The absolute coordinates are rounded down (`input_handler.cpp:168`), so the
  pointer may land a pixel to the left of or above where it was sent.
- The first keyframe comes after a whole period, not with the first frame
  (`encoder.cpp:140`).
- Every captured texture keeps a reference that nobody releases
  (`capture.cpp:302`): there are as many as frames were encoded
  (`TexturesPileUp`). A half-way failure of Initialize leaks `dxgiOutput`.
- Encoder and input handler keep the dimensions of the start (`host/main.cpp:62`).
  After a change of mode they no longer fit, and only then
  (`FramesFitUntilModeChanges`), although the capture could tell the new ones
  (`CaptureTellsDimensions`).
- Once a recreation of the duplication has failed the capture does not recover
  (`NeverRepaired`), and that is the only way to the crash that
  `HostPipelineLocked` finds (`HostCrashNeedsFailedRecreation`).
- On the signaling server ConnectClient renews `LastSeen` (`session.go:118`), so
  that a dead host lives as long as clients keep claiming it; a client that
  crashes leaves its session claimed (`:128`); DisconnectClient does not ask who
  disconnects (`:124`); the answer to a claim is read after the unlock (`:120`,
  `api.go:188`) and that to a repeated registration has no state (`api.go:117`).
  What a client is told is true all the same as long as the session is not removed
  from the map (`ClaimsAreExclusive`). When it is removed and registered again
  while a client is in it, the next one is told that it has it too.
- Control requests of clients (keyframe, bitrate, resolution) are only logged
  (`network_server.cpp:448-471`), so ForceKeyframe and Reconfigure, which
  `Encoder` has, are never called by the host.
- Keys that a client holds down stay down when it is disconnected, and a release
  that SendInput refuses or that the client cannot send is not tried again: `NoKeyStuck` is about a host that has
  caught up with an open connection, and names the releases that were not sent.
- Nobody looks at what a send of the client returns (`network_client.cpp:403-410`,
  `input_sender.cpp:161`, `:234`). A position whose send failed counts as reported
  (`LastReportStands` says that only this leaves the host with an old one), and a
  send that times out half-way leaves the stream out of step for good.
- CaptureFrame calls itself after each recreation of the duplication
  (`capture.cpp:279`): a desktop that never comes to rest keeps it there, deeper
  each time. `StopEnds` of the host names it (`RecursesForever`).
- What the receive thread drains is no sign of life (`network_server.cpp:292`):
  once the stream is out of step a busy client may be dropped for silence.

## Not modelled

- **Frames in the client's loop**: DecodeFrame hands out the same texture for every
  frame, RenderFrame and Present are Direct3D calls; they keep no state between
  frames. `VideoStream` ends where GetNextFrame hands a frame out. The resize in
  `WndProc` is left out.
- **Utilities, logger**: thin wrappers of the operating system; `ThreadSafeQueue`
  is used by nothing. **EncoderUtils** is used by tests only, **InputUtils** by
  nothing, and so are SetEnabled, WindowProc and UpdateScreenDimensions.
- **ProcessDirtyRects** and **ProcessMovedRects**: they fill vectors that nothing
  reads.
- The program as it stands does not compile: `packet.h` lacks members that
  `input_sender.cpp` and `input_handler.cpp` use, and its static assertions state
  other sizes than the packed structures have (36, 120 and 68 against 40, 128 and
  64 bytes). The models take what is meant, see above.
- The queries of the signaling server (ListHosts, GetHost, GetStats) and
  HasConnectedClients and GetClientCount of the host: they only read, under the lock.
- **Web page**: presentation, except connectToHost (a client of `SessionManager`).

## Plan

Done, in this order: `Packetizer`, `FrameStream`, `VideoStream`, `Handshake`,
`NetworkServer`, `NetworkClient`, `SessionManager`, `Encoder`, `ScreenCapture`,
`HostPipeline` (composes the two before it), `InputStream`, `InputSender`,
`ClientApplication` (composes `NetworkClient` and `InputSender`), `InputControl`
(composes `InputStream` with the user and the desktop); the proofs of every
invariant and action property of these.

Next:

1. The client's TcpReceiveThread over a byte stream, as `InputStream` does for
   the host's, with keepalives of the host cut anywhere.
2. `HostPipeline` with the server's threads of `NetworkServer` instead of
   `connected`, and with `ForceKeyframe` once the host calls it.
3. `ThreadSafeQueue` (`utils.h:57-151`) with Stop racing Pop, once something
   uses it; EncoderUtils' search for start codes (`encoder.cpp:510-565`) likewise.
4. Proofs: the safety that the liveness properties rest on, that is, whom each
   waiting thread waits for and that this one does not wait for it (`BothReturn`,
   `ShutdownReturns`, `OnlyUdpBlocks`, `StopEnds` of the host).
5. A session of the signaling server followed through host, web page and client,
   once either of them talks to it.
