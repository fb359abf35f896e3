---------------------- MODULE MCWebSocketRequestObject ----------------------
(***************************************************************************)
(* Instances of WebSocketRequestObject for TLC. The lengths are scaled:    *)
(* from 3 bytes on a payload has a 16-bit length, from 5 bytes on a 64-bit *)
(* length.                                                                 *)
(***************************************************************************)
EXTENDS WebSocketRequestObject

Frame(size, mask, close) == [size |-> size, mask |-> mask, close |-> close]

(* Offers, masked and not, with both kinds of extended length, and a close. *)
LongFrames ==
    {Frame(3, FALSE, FALSE), Frame(4, TRUE, FALSE), Frame(5, FALSE, FALSE),
     Frame(5, TRUE, FALSE), Frame(2, FALSE, TRUE)}
=============================================================================
