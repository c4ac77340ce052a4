--------------------------- MODULE MCVideoStream ---------------------------
(* TLC instance of VideoStream: payloads of 2 bytes, and frames of one     *)
(* datagram that is full and of two of which the second is not.            *)
EXTENDS VideoStream

Sizes == {2, 3}
=============================================================================
