----------------------- MODULE WebSocketRequestObject -----------------------
(***************************************************************************)
(* How a WebSocketRequestObject cuts the bytes of its connection into      *)
(* frames. The server answers the handshake and then sends frames; TCP     *)
(* delivers the bytes in pieces cut anywhere. OnReceive puts what the last *)
(* call left over (_rest_data) before the new piece, RecvHandler looks for *)
(* the end of the HTTP header, then for one frame after the other, and     *)
(* what it has not processed is left over again.                           *)
(*                                                                         *)
(* A byte is its position in the stream, counted from 0. The contents of   *)
(* a frame header are known where the parser stands at a frame's start;    *)
(* elsewhere it reads payload bytes as a header, which may say anything.   *)
(***************************************************************************)
EXTENDS Integers, Sequences, FiniteSets

CONSTANTS
    Frames,         \* frames the server may send: [size, mask, close]
    HandshakeSize,  \* bytes of the handshake response
    Len16,          \* 126: payloads from here on have a 16-bit length
    Len64,          \* 65536: ... and a 64-bit length
    Garbage,        \* a payload that is not the payload of a frame
    MaxFrames       \* bound

ASSUME WebSocketAssumption ==
    /\ Frames \subseteq [size : Nat, mask : BOOLEAN, close : BOOLEAN]
    /\ Garbage \notin Frames
    /\ HandshakeSize \in Nat \ {0}
    /\ Len16 \in Nat /\ Len64 \in Nat /\ Len16 < Len64
    /\ MaxFrames \in Nat

MinSize == 3        \* WEBSOCKET_MIN_SIZE
MaskingSize == 4    \* WEBSOCKET_MASKING_SIZE

VARIABLES
    sent,        \* frames the server has sent
    ends,        \* where each of them ends: the position of the first byte after it
    arrived,     \* bytes OnReceive has got
    rest,        \* first byte that is not processed
    handshaked,  \* _handshake_complete
    pc,          \* "idle", or where RecvHandler is
    failed,      \* OnReceive has closed the connection
    delivered    \* payloads handed to OnRecvWebsocketData

vars == <<sent, ends, arrived, rest, handshaked, pc, failed, delivered>>

TypeOK ==
    /\ sent \in Seq(Frames) /\ ends \in Seq(Nat)
    /\ arrived \in Nat /\ rest \in 0..arrived
    /\ handshaked \in BOOLEAN /\ failed \in BOOLEAN
    /\ pc \in {"idle", "parse", "handed", "stalled"}
    /\ delivered \in Seq(Frames \cup {Garbage})

Init ==
    /\ sent = <<>> /\ ends = <<>> /\ arrived = 0 /\ rest = 0
    /\ handshaked = FALSE /\ failed = FALSE
    /\ pc = "idle"
    /\ delivered = <<>>

----------------------------------------------------------------------------
(* The bytes on the wire, as RFC 6455 and MakeTextData lay them out.        *)

LengthField(f) == IF f.size < Len16 THEN 2 ELSE IF f.size < Len64 THEN 4 ELSE 10
Masking(f) == IF f.mask THEN MaskingSize ELSE 0
FrameSize(f) == LengthField(f) + Masking(f) + f.size

(* Where the k-th frame ends and where it starts.                           *)
FrameEnd(k) == IF k = 0 THEN HandshakeSize ELSE ends[k]
FrameStart(k) == FrameEnd(k - 1)

BytesSent == FrameEnd(Len(sent))

ServerSend(f) ==
    /\ Len(sent) < MaxFrames                  \* bound
    /\ sent' = Append(sent, f)
    /\ ends' = Append(ends, BytesSent + FrameSize(f))
    /\ UNCHANGED <<arrived, rest, handshaked, pc, failed, delivered>>

----------------------------------------------------------------------------
(* OnReceive                                                                *)

(* Mutant: what the last call left over is not put before the new piece.    *)
ReceiveDropsRest(n) ==
    /\ pc = "idle" /\ ~failed
    /\ arrived' = arrived + n
    /\ rest' = arrived
    /\ pc' = "parse"
    /\ UNCHANGED <<sent, ends, handshaked, failed, delivered>>

(* The next n bytes, after _rest_data, go to RecvHandler.                   *)
Receive(n) ==
    /\ pc = "idle" /\ ~failed
    /\ arrived' = arrived + n
    /\ pc' = "parse"
    /\ UNCHANGED <<sent, ends, rest, handshaked, failed, delivered>>

(* RecvHandler returns what it has processed; the others are _rest_data.    *)
Return ==
    /\ pc' = "idle"
    /\ UNCHANGED <<sent, ends, arrived, rest, handshaked, failed, delivered>>

(* RecvHandler returns -1: the connection is closed.                        *)
Fail ==
    /\ pc' = "idle" /\ failed' = TRUE
    /\ UNCHANGED <<sent, ends, arrived, rest, handshaked, delivered>>

----------------------------------------------------------------------------
(* RecvHandshakeProc                                                        *)

HandshakeIncomplete ==
    /\ pc = "parse" /\ ~handshaked
    /\ arrived < HandshakeSize
    /\ Return

(* Not "101 Switching Protocols".                                           *)
HandshakeRefused ==
    /\ pc = "parse" /\ ~handshaked
    /\ arrived >= HandshakeSize
    /\ Fail

(* Mutant: RecvHandler leaves what follows the header to the next call.     *)
HandshakeReturns ==
    /\ pc = "parse" /\ ~handshaked
    /\ arrived >= HandshakeSize
    /\ handshaked' = TRUE
    /\ rest' = HandshakeSize
    /\ pc' = "idle"
    /\ UNCHANGED <<sent, ends, arrived, failed, delivered>>

(* The loop over the frames follows, unless there are no more bytes.        *)
Handshake ==
    /\ pc = "parse" /\ ~handshaked
    /\ arrived >= HandshakeSize
    /\ handshaked' = TRUE
    /\ rest' = HandshakeSize
    /\ pc' = IF arrived = HandshakeSize THEN "idle" ELSE "parse"
    /\ UNCHANGED <<sent, ends, arrived, failed, delivered>>

----------------------------------------------------------------------------
(* RecvDataProc                                                             *)

AtFrame(k) == k \in 1..Len(sent) /\ rest = FrameStart(k)

(* What the bytes at the parser's place say they are: the frame that starts *)
(* there, or any frame at all.                                              *)
Read(f) ==
    IF \E k \in 1..Len(sent) : AtFrame(k)
    THEN \E k \in 1..Len(sent) : AtFrame(k) /\ f = sent[k]
    ELSE f \in Frames

Available == arrived - rest

(* payload_header_size: nothing sets it for a payload below 126.            *)
HeaderSize(f) == IF f.size < Len16 THEN 0 ELSE LengthField(f)

ReadSize(f) == HeaderSize(f) + Masking(f) + f.size

Complete(f) ==
    /\ Available >= MinSize
    /\ f.size >= Len16 => Available >= LengthField(f)
    /\ Available >= ReadSize(f)

(* What is handed up is the payload of a frame when the frame is there to   *)
(* its last byte and was cut after its header.                              *)
Payload(f) ==
    IF /\ \E k \in 1..Len(sent) : AtFrame(k) /\ FrameEnd(k) <= arrived
       /\ HeaderSize(f) = LengthField(f)
    THEN f ELSE Garbage

Parsing == pc = "parse" /\ handshaked

LoopDone == Parsing /\ Available = 0 /\ Return

FrameIncomplete ==
    /\ Parsing /\ Available > 0
    /\ \E f \in Frames : Read(f) /\ ~Complete(f)
    /\ Return

(* ParsingData refuses a close frame.                                       *)
FrameClose ==
    /\ Parsing /\ Available > 0
    /\ \E f \in Frames : Read(f) /\ Complete(f) /\ f.close
    /\ Fail

(* OnRecvWebsocketData is called with the payload.                          *)
FrameReceived ==
    /\ Parsing /\ Available > 0
    /\ \E f \in Frames :
          /\ Read(f) /\ Complete(f) /\ ~f.close
          /\ delivered' = Append(delivered, Payload(f))
          /\ rest' = rest + ReadSize(f)
          /\ pc' = IF ReadSize(f) = 0 THEN "stalled" ELSE "handed"
    /\ UNCHANGED <<sent, ends, arrived, handshaked, failed>>

(* It takes it, and the loop goes on; a frame of size 0 ends the loop as if  *)
(* it were incomplete.                                                      *)
FrameTaken ==
    /\ pc \in {"handed", "stalled"}
    /\ pc' = IF pc = "handed" THEN "parse" ELSE "idle"
    /\ UNCHANGED <<sent, ends, arrived, rest, handshaked, failed, delivered>>

(* It refuses it: no JSON, or no offer.                                     *)
FrameRefused == pc \in {"handed", "stalled"} /\ Fail

RecvHandler ==
    \/ HandshakeIncomplete \/ HandshakeRefused \/ Handshake
    \/ LoopDone \/ FrameIncomplete \/ FrameClose \/ FrameReceived
    \/ FrameTaken \/ FrameRefused

Next ==
    \/ \E f \in Frames : ServerSend(f)
    \/ \E n \in 1..(BytesSent - arrived) : Receive(n)
    \/ RecvHandler

Spec == Init /\ [][Next]_vars

----------------------------------------------------------------------------
(* Properties                                                               *)

Channel == INSTANCE FifoChannel WITH
    Messages <- Frames, accepted <- sent, closed <- failed
(* However TCP cuts the bytes, and whatever part of the handshake they come  *)
(* with, OnRecvWebsocketData gets the frames the server sent, each whole, in *)
(* order and once.                                                           *)
FramesSpec == Channel!ChannelSpec

(* A frame that has arrived is handed up before RecvHandler returns: nothing *)
(* waits in _rest_data for bytes it does not need. (The server may send      *)
(* nothing more until it is answered.)                                       *)
NothingHeldBack ==
    /\ TypeOK
    /\ pc = "idle" /\ ~failed =>
        \A k \in 1..Len(sent) : FrameEnd(k) <= arrived => k <= Len(delivered)

(* Why they hold, when no frame that is handed up is so short that its       *)
(* header is not counted, and a close frame has a reason in it: the          *)
(* inductive invariant of the proofs.                                        *)
SizesKnown == \A f \in Frames : f.size >= IF f.close THEN 1 ELSE Len16

(* The frames lie one behind the other, and what has arrived was sent.       *)
StreamInv ==
    /\ Len(ends) = Len(sent)
    /\ \A k \in 1..Len(sent) : ends[k] = FrameStart(k) + FrameSize(sent[k])
    /\ \A k \in 1..Len(sent) : \A i \in 0..(k - 1) : FrameEnd(i) < FrameEnd(k)
    /\ arrived <= BytesSent

(* The parser stands at the end of the last frame it has handed up.          *)
ParserInv ==
    /\ delivered = SubSeq(sent, 1, Len(delivered)) /\ Len(delivered) <= Len(sent)
    /\ rest = IF handshaked THEN FrameEnd(Len(delivered)) ELSE 0
    /\ ~handshaked => delivered = <<>> /\ pc \in {"idle", "parse"}
    /\ failed => pc = "idle"
    /\ pc # "stalled"

(* What is left over when RecvHandler has returned is less than is next.     *)
WaitInv ==
    pc = "idle" /\ ~failed =>
        IF handshaked
        THEN Len(delivered) < Len(sent) => arrived < FrameEnd(Len(delivered) + 1)
        ELSE arrived < HandshakeSize

IInv == TypeOK /\ StreamInv /\ ParserInv /\ WaitInv
=============================================================================
