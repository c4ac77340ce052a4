---------------------------- MODULE InputControl ----------------------------
(***************************************************************************)
(* Remote control from end to end: what the user does at the client        *)
(* (client/input_sender.cpp), one packet for each event, the stream of     *)
(* module InputStream, which is extended, and what InputHandler            *)
(* (host/input_handler.cpp) makes of the packets at the desktop of the     *)
(* host.  Mouse buttons count as keys: both go down and up.                *)
(*                                                                         *)
(* The client fills in members that packet.h does not declare; what it     *)
(* means to send is taken from PacketUtils of that file.  One axis of the  *)
(* screen is enough: both are treated alike.  The wheel is left out: it    *)
(* leaves nothing behind.                                                  *)
(***************************************************************************)
EXTENDS Integers, InputStream

CONSTANTS Keys,             \* keys and mouse buttons
          Coordinates,      \* of the pointer, relative to the client's window
          Width,            \* screenWidth of the handler, in pixels
          AbsRange,         \* the largest absolute coordinate, 65535
          IntMax            \* the largest int32_t

ASSUME ControlAssumption ==
    /\ Coordinates \subseteq -IntMax..IntMax
    /\ Width \in Nat \ {0} /\ AbsRange \in Nat \ {0} /\ IntMax \in Nat
    /\ (Width - 1) * AbsRange <= IntMax     \* desktops are at most 32768 wide
    /\ 2 * (Width - 1) <= AbsRange + 1

VARIABLES events,           \* what each packet of sent is about
          pressed,          \* the keys that the user holds at the client
          unsent,           \* those whose last release was not sent
          down,             \* the keys that the desktop of the host takes to be held
          pointer,          \* the absolute coordinate last injected, or Nowhere
          refused           \* SendInput has failed

desktop == <<down, pointer, refused>>
user == <<pressed, unsent>>
controlVars == <<vars, events, user, desktop>>

Nowhere == -1
KeepAlive == [what |-> "keepalive"]
Key(k, isDown) == [what |-> "key", key |-> k, down |-> isDown]
Move(x) == [what |-> "move", x |-> x]

Events ==
    {KeepAlive} \union [what : {"key"}, key : Keys, down : BOOLEAN]
                \union [what : {"move"}, x : Coordinates]
-----------------------------------------------------------------------------
(***************************************************************************)
(* Coordinates.                                                            *)
(***************************************************************************)
\* Arithmetic of int32_t, as it wraps around.
Int32(n) == ((n + IntMax + 1) % (2 * (IntMax + 1))) - (IntMax + 1)

\* Mutant of Clamp: the far edge is left to Windows.
ClampLeft(x) == IF x < 0 THEN 0 ELSE x

Clamp(x) == IF x < 0 THEN 0 ELSE IF x >= Width THEN Width - 1 ELSE x

\* Absolute coordinates, as InjectMouseMove computes them.
Absolute(x) == Int32(Clamp(x) * AbsRange) \div Width

\* The pixel to which Windows takes the pointer for an absolute coordinate.
Pixel(abs) == (abs * Width) \div (AbsRange + 1)
-----------------------------------------------------------------------------
(***************************************************************************)
(* The client: the hooks and the mouse thread turn what the user does into *)
(* packets while there is a connection.                                    *)
(***************************************************************************)
ControlInit ==
    /\ Init
    /\ events = <<>>
    /\ pressed \in SUBSET Keys      \* before the hooks were there
    /\ unsent = {}
    /\ down = {} /\ pointer = Nowhere
    /\ refused = FALSE

\* SendInputEvent sends the packet, or a piece of it.
SendInputEvent(event) ==
    /\ \E n \in Sizes("input") : Send("input", n)
    /\ events' = Append(events, event)
    /\ UNCHANGED desktop

\* send fails, or the window had no focus when the capture began, and then no
\* event is sent at all: nobody tries again.
EventDropped == link = "open" /\ UNCHANGED <<vars, events, desktop>>

KeyDown(k) ==
    /\ k \notin pressed
    /\ pressed' = pressed \union {k}
    /\ SendInputEvent(Key(k, TRUE)) \/ EventDropped
    /\ UNCHANGED unsent

KeyUp(k) ==
    /\ k \in pressed
    /\ pressed' = pressed \ {k}
    /\ \/ SendInputEvent(Key(k, FALSE)) /\ unsent' = unsent \ {k}
       \/ EventDropped /\ unsent' = unsent \union {k}

\* A movement that is dropped changes nothing here.
MouseMoves(x) == SendInputEvent(Move(x)) /\ UNCHANGED user

SendKeepalive ==
    /\ \E n \in Sizes("control") : Send("control", n)
    /\ events' = Append(events, KeepAlive)
    /\ UNCHANGED <<user, desktop>>

User ==
    \/ \E k \in Keys : KeyDown(k) \/ KeyUp(k)
    \/ \E x \in Coordinates : MouseMoves(x)
    \/ SendKeepalive
-----------------------------------------------------------------------------
(***************************************************************************)
(* The host: HandleInputPacket calls SendInput for what the packet says.   *)
(***************************************************************************)
\* Mutant of InjectKey: every packet is a key that goes down.
InjectKeyDown(event) == down \union {event.key}

\* InjectKeyboard, InjectMouseButton.
InjectKey(event) ==
    IF event.down THEN down \union {event.key} ELSE down \ {event.key}

Inject(event) ==
    /\ down' = IF event.what = "key" THEN InjectKey(event) ELSE down
    /\ pointer' = IF event.what = "move" THEN Absolute(event.x) ELSE pointer
    /\ UNCHANGED refused

\* SendInput fails, for instance on a secure desktop: nobody tries again.
InjectionRefused ==
    /\ refused' = TRUE
    /\ UNCHANGED <<down, pointer>>

\* What an injected packet says: of one that was sent in part, anything.
Says(i) ==
    IF sent[i].size = InputSize THEN {events[i]} ELSE Events \ {KeepAlive}

Handle ==
    /\ ReceiveInput
    /\ IF injected' = injected
       THEN UNCHANGED desktop
       ELSE \/ \E event \in Says(injected'[Len(injected')]) : Inject(event)
            \/ InjectionRefused
    /\ UNCHANGED <<events, user>>

Passes ==
    /\ \/ PeekFails \/ PeekHeader \/ Drain \/ ReceiveControl \/ ReceiveFails
       \/ ReadsFreed \/ KeepaliveTimeout
       \/ Close \/ Reset \/ Arrive \/ SetInputHandler
    /\ UNCHANGED <<events, user, desktop>>

ControlNext == User \/ Handle \/ Passes

ControlSpec == ControlInit /\ [][ControlNext]_controlVars
-----------------------------------------------------------------------------
\* The types of the variables: every packet is about something, and what was
\* injected can be looked up.
ControlTypeOK ==
    /\ TypeOK
    /\ events \in Seq(Events)
    /\ Len(events) = Len(sent)
    /\ \A i \in DOMAIN sent : sent[i].kind = "control" <=> events[i] = KeepAlive
    /\ pressed \subseteq Keys /\ unsent \subseteq Keys /\ down \subseteq Keys
    /\ pointer \in Int
    /\ refused \in BOOLEAN

Injected(i) == \E n \in DOMAIN injected : injected[n] = i

\* Everything was read, nothing was refused or sent in part, and nothing lost
\* since the first packet that was injected.
CaughtUp ==
    /\ step = "peek" /\ consumed = Length
    /\ ~refused /\ ~Torn
    /\ \A i, j \in DOMAIN sent :
          i < j /\ Injected(i) /\ sent[j].kind = "input" => Injected(j)

\* A host that has caught up with a client holds no key but those that the user
\* holds and those whose last release the client could not send, whatever was
\* pressed before either of them listened and whichever presses were dropped.
NoKeyStuck == link = "open" /\ CaughtUp => down \subseteq pressed \union unsent

LastMove(i) ==
    /\ events[injected[i]].what = "move"
    /\ \A n \in i + 1 .. Len(injected) : events[injected[n]].what # "move"

\* The pointer is at most a pixel away from where the last movement that was
\* injected put it, on the screen, however far outside of the window that is
\* (as long as every packet was sent as a whole).
PointerLands ==
    \A i \in DOMAIN injected :
        ~refused /\ ~Torn /\ LastMove(i) =>
            LET x == events[injected[i]].x
                at == Pixel(pointer)
            IN  /\ at \in 0 .. Width - 1
                /\ x \in 0 .. Width - 1 => at \in {x - 1, x}
                /\ x >= Width => at >= Width - 2
                /\ x < 0 => at = 0
=============================================================================
