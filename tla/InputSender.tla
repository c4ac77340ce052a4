---------------------------- MODULE InputSender ----------------------------
(***************************************************************************)
(* The capture of the user's input on the client (client/input_sender.cpp) *)
(* with its default configuration: two low-level hooks, whose callbacks    *)
(* find the object through a static pointer, and a thread that polls the   *)
(* pointer and reports where it is when it has moved.                      *)
(*                                                                         *)
(* isConnected is NetworkClient::IsConnected of the client it sends        *)
(* through.  What becomes of an event is in module InputControl.           *)
(***************************************************************************)
CONSTANT Positions          \* places of the user's pointer

None == "none"

ASSUME SenderAssumption == Positions # {} /\ None \notin Positions

VARIABLES instance,         \* s_instance: "null", "alive", or "dangling"
          capturing,        \* InputSender::capturing
          hooks,            \* the hooks that are installed
          windowHasFocus,   \* InputSender::windowHasFocus
          mouse,            \* where the mouse thread is
          lastMousePos,     \* InputSender::lastMousePos, None until initialized
          reported,         \* the last position sent to the host
          reportLost,       \* the send of a later one failed
          cursor            \* where the user's pointer is

senderVars == <<instance, capturing, hooks, windowHasFocus, mouse, lastMousePos, reported, reportLost, cursor>>
-----------------------------------------------------------------------------
SenderInit ==
    /\ instance = "null"
    /\ capturing = FALSE
    /\ hooks = {}
    /\ windowHasFocus = FALSE
    /\ mouse = "none"
    /\ lastMousePos = None
    /\ reported = None
    /\ reportLost = FALSE
    /\ cursor = CHOOSE p \in Positions : TRUE

MoveCursor ==
    /\ cursor' \in Positions
    /\ UNCHANGED <<instance, capturing, hooks, windowHasFocus, mouse, lastMousePos, reported, reportLost>>

\* Initialize, then Start: the window may be in the foreground or not.
SenderStart ==
    /\ instance' = "alive"
    /\ windowHasFocus' \in BOOLEAN
    /\ hooks' = {"keyboard", "mouse"}
    /\ capturing' = TRUE
    /\ mouse' = "loop"
    /\ UNCHANGED <<lastMousePos, reported, reportLost, cursor>>

\* A hook cannot be installed: one that was is removed, and the object is
\* destroyed, but the static pointer stays.
SenderStartFails ==
    /\ instance' = "dangling"
    /\ UNCHANGED <<capturing, hooks, windowHasFocus, mouse, lastMousePos, reported, reportLost, cursor>>

\* Stop, up to the join.
SenderStop ==
    /\ capturing' = FALSE
    /\ hooks' = {}
    /\ UNCHANGED <<instance, windowHasFocus, mouse, lastMousePos, reported, reportLost, cursor>>

\* Mutant of SenderShutdown: the mouse thread is not waited for.
SenderShutdownAtOnce ==
    /\ instance' = "null"
    /\ UNCHANGED <<capturing, hooks, windowHasFocus, mouse, lastMousePos, reported, reportLost, cursor>>

\* The rest of Stop and of Shutdown.
SenderShutdown ==
    /\ mouse = "ended"
    /\ instance' = "null"
    /\ UNCHANGED <<capturing, hooks, windowHasFocus, mouse, lastMousePos, reported, reportLost, cursor>>
-----------------------------------------------------------------------------
(* MouseThread *)

MouseEnds ==
    /\ mouse = "loop" /\ ~capturing
    /\ mouse' = "ended"
    /\ UNCHANGED <<instance, capturing, hooks, windowHasFocus, lastMousePos, reported, reportLost, cursor>>

\* The first position is only noted, later ones are sent when they are new.
\* lastMousePos is written after the send, but nobody else reads it.
MousePoll(isConnected) ==
    /\ mouse = "loop" /\ capturing
    /\ windowHasFocus /\ isConnected
    /\ lastMousePos' = cursor
    /\ mouse' = IF lastMousePos \in {None, cursor} THEN "loop" ELSE "send"
    /\ UNCHANGED <<instance, capturing, hooks, windowHasFocus, reported, reportLost, cursor>>

\* Mutant of SendMouseMove: only the first move is sent.
SendMouseMoveFirst(isConnected) ==
    /\ mouse = "send"
    /\ \E sent \in BOOLEAN :
          /\ sent => isConnected
          /\ reported' = IF sent /\ reported = None THEN lastMousePos ELSE reported
          /\ reportLost' = ~sent
    /\ mouse' = "loop"
    /\ UNCHANGED <<instance, capturing, hooks, windowHasFocus, lastMousePos, cursor>>

\* SendMouseMove and SendInputEvent ask for the connection again; send may time
\* out or fail although there is one.  Nobody looks at the result.
SendMouseMove(isConnected) ==
    /\ mouse = "send"
    /\ \E sent \in BOOLEAN :
          /\ sent => isConnected
          /\ reported' = IF sent THEN lastMousePos ELSE reported
          /\ reportLost' = ~sent
    /\ mouse' = "loop"
    /\ UNCHANGED <<instance, capturing, hooks, windowHasFocus, lastMousePos, cursor>>

MouseThread(isConnected) ==
    MouseEnds \/ MousePoll(isConnected) \/ SendMouseMove(isConnected)
-----------------------------------------------------------------------------
\* The types of the variables.
SenderTypeOK ==
    /\ instance \in {"null", "alive", "dangling"}
    /\ capturing \in BOOLEAN /\ windowHasFocus \in BOOLEAN
    /\ hooks \subseteq {"keyboard", "mouse"}
    /\ mouse \in {"none", "loop", "send", "ended"}
    /\ lastMousePos \in Positions \union {None}
    /\ reported \in Positions \union {None}
    /\ reportLost \in BOOLEAN
    /\ cursor \in Positions
=============================================================================
