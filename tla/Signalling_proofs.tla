-------------------------- MODULE Signalling_proofs --------------------------
(***************************************************************************)
(* Proofs about a signalling connection, from its bytes to its sessions.   *)
(* WebSocketRequestObject: whatever pieces TCP delivers the bytes in,      *)
(* RecvHandler cuts the frames as the server sent them, and no frame waits *)
(* once it is there, for any frames the sizes of which RecvDataProc knows  *)
(* how to count. SignallingOffer, of the class derived from it: whatever   *)
(* SDPs are offered, the answers mirror the offers and the sessions match  *)
(* them, up to the section and the credentials that the parser carries     *)
(* over from one offer to the next.                                        *)
(***************************************************************************)
EXTENDS WebSocketRequestObject, SignallingOffer, SequenceTheorems, TLAPS

LEMMA ConstantTypes ==
    /\ Frames \subseteq [size : Nat, mask : BOOLEAN, close : BOOLEAN]
    /\ Garbage \notin Frames
    /\ HandshakeSize \in Nat \ {0}
    /\ Len16 \in Nat /\ Len64 \in Nat /\ Len16 < Len64
BY WebSocketAssumption DEF WebSocketAssumption

(* A frame is longer than its header, and the size RecvDataProc reads is at  *)
(* most that of the frame: exactly that, unless the header is not counted.   *)
LEMMA Sizes ==
    ASSUME NEW f \in Frames
    PROVE  /\ f.size \in Nat /\ Masking(f) \in Nat /\ LengthField(f) \in 2..10
           /\ FrameSize(f) \in Nat /\ FrameSize(f) > f.size
           /\ HeaderSize(f) \in Nat /\ ReadSize(f) \in Nat
           /\ ReadSize(f) <= FrameSize(f) /\ LengthField(f) <= FrameSize(f)
           /\ f.size >= Len16 => HeaderSize(f) = LengthField(f) /\ ReadSize(f) = FrameSize(f)
<1>1. f.size \in Nat /\ f.mask \in BOOLEAN
  BY ConstantTypes
<1>2. Masking(f) \in Nat
  BY DEF Masking, MaskingSize
<1>3. LengthField(f) \in 2..10
  BY <1>1, ConstantTypes DEF LengthField
<1>4. HeaderSize(f) \in {0, LengthField(f)}
      /\ (f.size >= Len16 => HeaderSize(f) = LengthField(f))
  BY <1>1, ConstantTypes DEF HeaderSize
<1>. QED
  BY <1>1, <1>2, <1>3, <1>4 DEF FrameSize, ReadSize

(* Where frames end is known and grows from frame to frame.                  *)
LEMMA Ends ==
    ASSUME TypeOK, StreamInv
    PROVE  /\ \A k \in 0..Len(sent) : FrameEnd(k) \in Nat
           /\ \A k \in 1..Len(sent) : /\ FrameEnd(k) = FrameEnd(k - 1) + FrameSize(sent[k])
                                      /\ sent[k] \in Frames
           /\ \A i, j \in 0..Len(sent) : i < j => FrameEnd(i) < FrameEnd(j)
           /\ Len(sent) \in Nat /\ BytesSent \in Nat
<1>0. Len(sent) \in Nat /\ Len(ends) = Len(sent)
  BY DEF TypeOK, StreamInv
<1>1. \A k \in 0..Len(sent) : FrameEnd(k) \in Nat
  BY <1>0, ConstantTypes DEF TypeOK, FrameEnd
<1>2. \A k \in 1..Len(sent) : /\ FrameEnd(k) = FrameEnd(k - 1) + FrameSize(sent[k])
                              /\ sent[k] \in Frames
  BY <1>0 DEF TypeOK, StreamInv, FrameEnd, FrameStart
<1>3. \A i, j \in 0..Len(sent) : i < j => FrameEnd(i) < FrameEnd(j)
  BY <1>0 DEF StreamInv
<1>. QED
  BY <1>0, <1>1, <1>2, <1>3 DEF BytesSent

(* What the parser reads at the end of the last frame it has handed up is    *)
(* the next frame, if there are bytes left at all.                           *)
LEMMA ReadsNext ==
    ASSUME IInv, Parsing, Available > 0, NEW f \in Frames, Read(f)
    PROVE  /\ Len(delivered) + 1 \in 1..Len(sent)
           /\ f = sent[Len(delivered) + 1]
           /\ rest = FrameEnd(Len(delivered))
           /\ FrameEnd(Len(delivered) + 1) = rest + FrameSize(f)
           /\ \A k \in 1..Len(sent) : AtFrame(k) => k = Len(delivered) + 1
           /\ AtFrame(Len(delivered) + 1)
<1>1. TypeOK /\ StreamInv /\ ParserInv /\ handshaked
  BY DEF IInv, Parsing
<1>2. /\ arrived \in Nat /\ rest \in Nat /\ Len(delivered) \in Nat /\ Len(sent) \in Nat
      /\ rest < arrived /\ arrived <= BytesSent
  BY <1>1 DEF TypeOK, StreamInv, Available
<1>3. rest = FrameEnd(Len(delivered)) /\ Len(delivered) <= Len(sent)
  BY <1>1 DEF ParserInv
<1>4. Len(delivered) < Len(sent)
  <2>1. CASE Len(delivered) = Len(sent)
    BY <1>2, <1>3, <2>1 DEF BytesSent
  <2>. QED
    BY <1>2, <1>3, <2>1
<1>5. AtFrame(Len(delivered) + 1)
  BY <1>2, <1>3, <1>4 DEF AtFrame, FrameStart
<1>6. ASSUME NEW k \in 1..Len(sent), AtFrame(k)
      PROVE  k = Len(delivered) + 1
  <2>1. FrameEnd(k - 1) = FrameEnd(Len(delivered))
    BY <1>3, <1>6 DEF AtFrame, FrameStart
  <2>2. k - 1 \in 0..Len(sent) /\ Len(delivered) \in 0..Len(sent)
    BY <1>2, <1>4
  <2>3. ~(k - 1 < Len(delivered)) /\ ~(Len(delivered) < k - 1)
    BY <1>1, <1>2, <2>1, <2>2, Ends
  <2>. QED
    BY <1>2, <2>2, <2>3
<1>7. f = sent[Len(delivered) + 1]
  BY <1>2, <1>4, <1>5, <1>6 DEF Read
<1>8. FrameEnd(Len(delivered) + 1) = FrameEnd(Len(delivered)) + FrameSize(f)
  BY <1>1, <1>2, <1>4, <1>7, Ends
<1>. QED
  BY <1>2, <1>3, <1>4, <1>5, <1>6, <1>7, <1>8

(* Nothing is sent, nothing has come.                                        *)
LEMMA InitInvariance == Init => IInv
<1>. SUFFICES ASSUME Init PROVE IInv
  OBVIOUS
<1>. USE DEF Init
<1>1. TypeOK
  <2>1. sent \in Seq(Frames) /\ ends \in Seq(Nat) /\ delivered \in Seq(Frames \cup {Garbage})
    OBVIOUS
  <2>2. arrived \in Nat /\ rest \in 0..arrived
    OBVIOUS
  <2>3. handshaked \in BOOLEAN /\ failed \in BOOLEAN
    OBVIOUS
  <2>. QED
    BY <2>1, <2>2, <2>3 DEF TypeOK
<1>2. StreamInv
  <2>1. Len(sent) = 0 /\ Len(ends) = 0
    OBVIOUS
  <2>2. BytesSent = HandshakeSize
    BY <2>1 DEF BytesSent, FrameEnd
  <2>. QED
    BY <2>1, <2>2, ConstantTypes DEF StreamInv
<1>3. ParserInv
  BY DEF ParserInv
<1>4. WaitInv
  BY ConstantTypes DEF WaitInv
<1>. QED
  BY <1>1, <1>2, <1>3, <1>4 DEF IInv

(* A frame goes behind the others; what the parser waits for has not come.   *)
LEMMA SendInvariance ==
    ASSUME IInv, NEW f \in Frames, ServerSend(f)
    PROVE  IInv'
<1>1. TypeOK /\ StreamInv /\ ParserInv /\ WaitInv
  BY DEF IInv
<1>2. /\ sent' = Append(sent, f) /\ ends' = Append(ends, BytesSent + FrameSize(f))
      /\ UNCHANGED <<arrived, rest, handshaked, pc, failed, delivered>>
  BY DEF ServerSend
<1>3. PICK n \in Nat : n = Len(sent)
  BY <1>1, Ends
<1>4. PICK d \in Nat : d = Len(delivered)
  BY <1>1 DEF TypeOK
<1>5. /\ BytesSent \in Nat /\ FrameSize(f) \in Nat /\ FrameSize(f) > 0
      /\ Len(ends) = n /\ Len(sent') = n + 1 /\ Len(ends') = n + 1
      /\ arrived \in Nat /\ arrived <= BytesSent /\ d \in 0..n
  <2>1. f.size \in Nat /\ FrameSize(f) \in Nat /\ FrameSize(f) > f.size
    BY Sizes
  <2>2. BytesSent \in Nat /\ arrived \in Nat /\ arrived <= BytesSent
    BY <1>1, Ends DEF TypeOK, StreamInv
  <2>3. Len(ends) = n /\ Len(sent') = n + 1 /\ Len(ends') = n + 1
    BY <1>1, <1>2, <1>3 DEF TypeOK, StreamInv
  <2>4. d \in 0..n
    BY <1>1, <1>3, <1>4 DEF ParserInv
  <2>. QED
    BY <2>1, <2>2, <2>3, <2>4
<1>6. TypeOK'
  <2>1. sent' \in Seq(Frames) /\ ends' \in Seq(Nat)
    BY <1>1, <1>2, <1>5 DEF TypeOK
  <2>. QED
    BY <1>1, <1>2, <2>1 DEF TypeOK
<1>7. /\ \A k \in 1..n : ends'[k] = ends[k] /\ sent'[k] = sent[k]
      /\ ends'[n + 1] = BytesSent + FrameSize(f) /\ sent'[n + 1] = f
  BY <1>1, <1>2, <1>3, <1>5 DEF TypeOK
<1>8. \A k \in 0..n : FrameEnd(k)' = FrameEnd(k) /\ FrameEnd(k) \in Nat
  BY <1>1, <1>3, <1>7, Ends DEF FrameEnd
<1>9. /\ BytesSent = FrameEnd(n)
      /\ BytesSent' = BytesSent + FrameSize(f)
      /\ FrameEnd(n + 1)' = BytesSent + FrameSize(f)
  BY <1>3, <1>5, <1>7 DEF BytesSent, FrameEnd
<1>10. StreamInv'
  <2>1. ASSUME NEW k \in 1..n
        PROVE  /\ ends'[k] = FrameStart(k)' + FrameSize(sent'[k])
               /\ \A i \in 0..(k - 1) : FrameEnd(i)' < FrameEnd(k)'
    <3>1. /\ ends[k] = FrameStart(k) + FrameSize(sent[k])
          /\ \A i \in 0..(k - 1) : FrameEnd(i) < FrameEnd(k)
      BY <1>1, <1>3 DEF StreamInv
    <3>2. FrameStart(k)' = FrameStart(k)
      BY <1>8 DEF FrameStart
    <3>. QED
      BY <1>7, <1>8, <3>1, <3>2
  <2>2. /\ ends'[n + 1] = FrameStart(n + 1)' + FrameSize(sent'[n + 1])
        /\ \A i \in 0..n : FrameEnd(i)' < FrameEnd(n + 1)'
    <3>1. FrameStart(n + 1)' = BytesSent
      <4>1. (n + 1) - 1 = n
        OBVIOUS
      <4>. QED
        BY <1>8, <1>9, <4>1 DEF FrameStart
    <3>2. \A i \in 0..n : FrameEnd(i) <= FrameEnd(n)
      BY <1>1, <1>3, <1>8, Ends
    <3>. QED
      BY <1>5, <1>7, <1>8, <1>9, <3>1, <3>2
  <2>3. \A k \in 1..(n + 1) :
            /\ ends'[k] = FrameStart(k)' + FrameSize(sent'[k])
            /\ \A i \in 0..(k - 1) : FrameEnd(i)' < FrameEnd(k)'
    <3>. TAKE k \in 1..(n + 1)
    <3>1. k \in 1..n \/ k = n + 1
      OBVIOUS
    <3>2. (n + 1) - 1 = n
      OBVIOUS
    <3>. QED
      BY <2>1, <2>2, <3>1, <3>2
  <2>. QED
    BY <1>2, <1>5, <1>9, <2>3 DEF StreamInv
<1>11. ParserInv'
  <2>1. SubSeq(sent', 1, d) = SubSeq(sent, 1, d)
    BY <1>1, <1>2, <1>3, <1>5 DEF TypeOK
  <2>2. FrameEnd(Len(delivered))' = FrameEnd(Len(delivered))
    BY <1>2, <1>4, <1>5, <1>8
  <2>. QED
    BY <1>1, <1>2, <1>4, <1>5, <2>1, <2>2 DEF ParserInv
<1>12. WaitInv'
  <2>1. CASE d < n
    <3>1. FrameEnd(Len(delivered) + 1)' = FrameEnd(Len(delivered) + 1)
      BY <1>2, <1>4, <1>5, <1>8, <2>1
    <3>. QED
      BY <1>1, <1>2, <1>3, <1>4, <2>1, <3>1 DEF WaitInv
  <2>2. CASE d = n
    <3>1. FrameEnd(Len(delivered) + 1)' = BytesSent + FrameSize(f)
      BY <1>2, <1>4, <1>9, <2>2
    <3>. QED
      BY <1>1, <1>2, <1>5, <3>1 DEF WaitInv
  <2>. QED
    BY <1>5, <2>1, <2>2
<1>. QED
  BY <1>6, <1>10, <1>11, <1>12 DEF IInv

(* The bytes the handler has and those it waits for stay what they were.     *)
LEMMA StreamStays ==
    ASSUME StreamInv, UNCHANGED <<sent, ends, arrived>>
    PROVE  StreamInv' /\ \A k : FrameEnd(k)' = FrameEnd(k)
<1>1. \A k : FrameEnd(k)' = FrameEnd(k) /\ FrameStart(k)' = FrameStart(k)
  BY DEF FrameEnd, FrameStart
<1>2. BytesSent' = BytesSent
  BY DEF BytesSent, FrameEnd
<1>. QED
  BY <1>1, <1>2 DEF StreamInv

(* The next piece, of what was sent and has not arrived yet.                 *)
LEMMA ReceiveInvariance ==
    ASSUME IInv, NEW n \in 1..(BytesSent - arrived), Receive(n)
    PROVE  IInv'
<1>1. TypeOK /\ StreamInv /\ ParserInv /\ BytesSent \in Nat /\ Len(delivered) \in Nat
  BY Ends DEF IInv, TypeOK
<1>2. /\ arrived' = arrived + n /\ pc = "idle" /\ ~failed /\ pc' = "parse"
      /\ UNCHANGED <<sent, ends, rest, handshaked, failed, delivered>>
  BY DEF Receive
<1>3. arrived \in Nat /\ arrived' \in Nat /\ arrived <= arrived' /\ arrived' <= BytesSent
  BY <1>1, <1>2 DEF TypeOK
<1>4. TypeOK'
  BY <1>1, <1>2, <1>3 DEF TypeOK
<1>5. (\A k : FrameEnd(k)' = FrameEnd(k) /\ FrameStart(k)' = FrameStart(k))
      /\ BytesSent' = BytesSent
  BY <1>2 DEF FrameEnd, FrameStart, BytesSent
<1>6. StreamInv'
  BY <1>1, <1>2, <1>3, <1>5 DEF StreamInv
<1>7. ParserInv'
  BY <1>1, <1>2, <1>5 DEF ParserInv
<1>. QED
  BY <1>2, <1>4, <1>6, <1>7 DEF IInv, WaitInv

(* The end of the header is the end of the handshake.                        *)
LEMMA HandshakeInvariance ==
    ASSUME IInv, HandshakeIncomplete \/ HandshakeRefused \/ Handshake
    PROVE  IInv'
<1>1. TypeOK /\ StreamInv /\ ParserInv
  BY DEF IInv
<1>2. /\ UNCHANGED <<sent, ends, arrived, delivered>> /\ ~handshaked
      /\ pc' \in {"idle", "parse"}
  BY DEF HandshakeIncomplete, HandshakeRefused, Handshake, Return, Fail
<1>3. StreamInv' /\ FrameEnd(0)' = HandshakeSize /\ FrameEnd(0) = HandshakeSize
  BY <1>1, <1>2, StreamStays DEF FrameEnd
<1>4. delivered = <<>> /\ delivered' = <<>> /\ Len(delivered) = 0 /\ Len(delivered') = 0
      /\ rest = 0 /\ Len(sent) \in Nat
  BY <1>1, <1>2, Ends DEF ParserInv
<1>5. CASE Handshake
  <2>1. /\ handshaked' = TRUE /\ rest' = HandshakeSize /\ arrived >= HandshakeSize
        /\ failed' = failed /\ pc = "parse"
        /\ pc' = IF arrived = HandshakeSize THEN "idle" ELSE "parse"
    BY <1>5 DEF Handshake
  <2>2. TypeOK'
    BY <1>1, <1>2, <2>1, ConstantTypes DEF TypeOK
  <2>3. FrameEnd(Len(delivered))' = HandshakeSize
    BY <1>4 DEF FrameEnd
  <2>4. ParserInv'
    BY <1>1, <1>2, <1>4, <2>1, <2>3 DEF ParserInv
  <2>5. ASSUME Len(sent) > 0, arrived = HandshakeSize
        PROVE  arrived < FrameEnd(1)
    <3>1. FrameEnd(0) < FrameEnd(1)
      BY <1>1, <1>4, <2>5, Ends
    <3>. QED
      BY <1>3, <2>5, <3>1
  <2>6. FrameEnd(Len(delivered) + 1)' = FrameEnd(1)
    <3>1. \A k : FrameEnd(k)' = FrameEnd(k)
      BY <1>1, <1>2, StreamStays
    <3>. QED
      BY <1>4, <3>1
  <2>7. WaitInv'
    BY <1>2, <1>4, <2>1, <2>5, <2>6 DEF WaitInv
  <2>. QED
    BY <1>3, <2>2, <2>4, <2>7 DEF IInv
<1>6. CASE HandshakeIncomplete \/ HandshakeRefused
  <2>1. /\ UNCHANGED <<rest, handshaked>> /\ pc' = "idle" /\ failed' \in BOOLEAN
        /\ failed' \/ arrived < HandshakeSize
    BY <1>1, <1>6 DEF HandshakeIncomplete, HandshakeRefused, Return, Fail, TypeOK
  <2>2. TypeOK'
    BY <1>1, <1>2, <2>1 DEF TypeOK
  <2>. QED
    BY <1>1, <1>2, <1>3, <2>1, <2>2 DEF IInv, ParserInv, WaitInv
<1>. QED
  BY <1>5, <1>6

(* A frame that is there to its last byte is handed up whole.                *)
LEMMA ReceivedWhole ==
    ASSUME IInv, SizesKnown, NEW f \in Frames, Parsing, Available > 0, Read(f),
           Complete(f), ~f.close
    PROVE  /\ Len(delivered) + 1 \in 1..Len(sent)
           /\ Payload(f) = sent[Len(delivered) + 1]
           /\ rest + ReadSize(f) = FrameEnd(Len(delivered) + 1)
           /\ rest + ReadSize(f) <= arrived
           /\ ReadSize(f) \in Nat /\ ReadSize(f) > 0
<1>1. HeaderSize(f) = LengthField(f) /\ ReadSize(f) = FrameSize(f)
      /\ ReadSize(f) \in Nat /\ ReadSize(f) > 0
  BY Sizes DEF SizesKnown
<1>2. /\ Len(delivered) + 1 \in 1..Len(sent) /\ f = sent[Len(delivered) + 1]
      /\ rest = FrameEnd(Len(delivered))
      /\ FrameEnd(Len(delivered) + 1) = rest + FrameSize(f)
      /\ AtFrame(Len(delivered) + 1)
  BY ReadsNext
<1>3. arrived \in Nat /\ rest \in Nat /\ arrived - rest >= ReadSize(f)
  BY DEF IInv, TypeOK, Complete, Available
<1>4. FrameEnd(Len(delivered) + 1) <= arrived
  BY <1>1, <1>2, <1>3
<1>5. Payload(f) = f
  BY <1>1, <1>2, <1>4 DEF Payload
<1>. QED
  BY <1>1, <1>2, <1>3, <1>4, <1>5

LEMMA FrameReceivedInvariance ==
    ASSUME IInv, SizesKnown, FrameReceived
    PROVE  IInv'
<1>1. TypeOK /\ StreamInv /\ ParserInv
  BY DEF IInv
<1>2. PICK f \in Frames :
          /\ Read(f) /\ Complete(f) /\ ~f.close
          /\ delivered' = Append(delivered, Payload(f))
          /\ rest' = rest + ReadSize(f)
          /\ pc' = IF ReadSize(f) = 0 THEN "stalled" ELSE "handed"
  BY DEF FrameReceived
<1>3. /\ Parsing /\ Available > 0
      /\ UNCHANGED <<sent, ends, arrived, handshaked, failed>>
  BY DEF FrameReceived
<1>4. PICK d \in Nat : d = Len(delivered)
  BY <1>1 DEF TypeOK
<1>5. /\ d + 1 \in 1..Len(sent) /\ Payload(f) = sent[d + 1]
      /\ rest + ReadSize(f) = FrameEnd(d + 1) /\ rest + ReadSize(f) <= arrived
      /\ ReadSize(f) \in Nat /\ ReadSize(f) > 0
  BY <1>2, <1>3, <1>4, ReceivedWhole
<1>6. Payload(f) \in Frames
  BY <1>1, <1>5, Ends
<1>7. pc' = "handed" /\ handshaked /\ ~failed
  BY <1>1, <1>2, <1>3, <1>5 DEF Parsing, ParserInv
<1>8. TypeOK'
  <2>1. delivered' \in Seq(Frames \cup {Garbage})
    BY <1>1, <1>2, <1>6 DEF TypeOK
  <2>2. rest' \in 0..arrived
    BY <1>1, <1>2, <1>5 DEF TypeOK
  <2>. QED
    BY <1>1, <1>3, <1>7, <2>1, <2>2 DEF TypeOK
<1>9. StreamInv' /\ \A k : FrameEnd(k)' = FrameEnd(k)
  BY <1>1, <1>3, StreamStays
<1>10. Len(delivered') = d + 1
  BY <1>1, <1>2, <1>4 DEF TypeOK
<1>11. delivered' = SubSeq(sent, 1, d + 1)
  <2>1. delivered = SubSeq(sent, 1, d)
    BY <1>1, <1>4 DEF ParserInv
  <2>. QED
    BY <1>1, <1>2, <1>4, <1>5, <2>1 DEF TypeOK
<1>12. FrameEnd(Len(delivered))' = FrameEnd(d + 1)
  BY <1>9, <1>10
<1>13. ParserInv'
  BY <1>2, <1>3, <1>5, <1>7, <1>10, <1>11, <1>12 DEF ParserInv
<1>. QED
  BY <1>7, <1>8, <1>9, <1>13 DEF IInv, WaitInv

(* What is left over when the loop ends is not a whole frame.                *)
LEMMA ReturnInvariance ==
    ASSUME IInv, SizesKnown, LoopDone \/ FrameIncomplete
    PROVE  IInv'
<1>1. TypeOK /\ StreamInv /\ ParserInv
  BY DEF IInv
<1>2. /\ UNCHANGED <<sent, ends, arrived, rest, handshaked, failed, delivered>>
      /\ pc' = "idle" /\ Parsing
  BY DEF LoopDone, FrameIncomplete, Return
<1>3. TypeOK' /\ StreamInv' /\ ParserInv'
  <2>1. StreamInv' /\ \A k : FrameEnd(k)' = FrameEnd(k)
    BY <1>1, <1>2, StreamStays
  <2>. QED
    BY <1>1, <1>2, <2>1 DEF TypeOK, ParserInv
<1>4. /\ handshaked /\ rest = FrameEnd(Len(delivered)) /\ Len(delivered) \in Nat
      /\ arrived \in Nat /\ rest \in Nat /\ Len(sent) \in Nat
  BY <1>1, <1>2, Ends DEF Parsing, ParserInv, TypeOK
<1>5. ASSUME Len(delivered) < Len(sent)
      PROVE  arrived < FrameEnd(Len(delivered) + 1)
  <2>1. CASE LoopDone
    <3>1. arrived = rest
      BY <1>4, <2>1 DEF LoopDone, Available
    <3>2. FrameEnd(Len(delivered)) < FrameEnd(Len(delivered) + 1)
      BY <1>1, <1>4, <1>5, Ends
    <3>. QED
      BY <1>4, <3>1, <3>2
  <2>2. CASE FrameIncomplete
    <3>1. PICK f \in Frames : Read(f) /\ ~Complete(f)
      BY <2>2 DEF FrameIncomplete
    <3>2. FrameEnd(Len(delivered) + 1) = rest + FrameSize(f)
      BY <1>2, <2>2, <3>1, ReadsNext DEF FrameIncomplete
    <3>3. FrameSize(f) >= 3
      <4>1. /\ f.size \in Nat /\ Masking(f) \in Nat /\ LengthField(f) \in 2..10
            /\ f.size >= Len16 => LengthField(f) >= 4
        BY ConstantTypes, Sizes DEF LengthField
      <4>2. f.size >= 1 \/ f.size >= Len16
        BY DEF SizesKnown
      <4>. QED
        BY <4>1, <4>2 DEF FrameSize
    <3>4. Available < FrameSize(f)
      <4>1. /\ LengthField(f) \in Nat /\ LengthField(f) <= FrameSize(f)
            /\ ReadSize(f) \in Nat /\ ReadSize(f) <= FrameSize(f)
            /\ FrameSize(f) \in Nat /\ f.size \in Nat
        BY Sizes
      <4>2. Available \in Int
        BY <1>4 DEF Available
      <4>. QED
        BY <3>1, <3>3, <4>1, <4>2, ConstantTypes DEF Complete, MinSize
    <3>. QED
      BY <1>4, <3>2, <3>4, Sizes DEF Available
  <2>. QED
    BY <2>1, <2>2
<1>6. FrameEnd(Len(delivered) + 1)' = FrameEnd(Len(delivered) + 1)
  BY <1>2 DEF FrameEnd
<1>. QED
  BY <1>2, <1>3, <1>4, <1>5, <1>6 DEF IInv, WaitInv

(* The connection is closed, or the parser goes on where it stands.          *)
LEMMA TakenInvariance ==
    ASSUME IInv, FrameTaken \/ FrameRefused \/ FrameClose
    PROVE  IInv'
<1>1. TypeOK /\ StreamInv /\ ParserInv
  BY DEF IInv
<1>2. /\ UNCHANGED <<sent, ends, arrived, rest, handshaked, delivered>>
      /\ \/ pc' = "parse" /\ ~failed /\ failed' = failed
         \/ pc' = "idle" /\ failed' = TRUE
      /\ handshaked
  BY <1>1 DEF FrameTaken, FrameRefused, FrameClose, Fail, ParserInv, Parsing
<1>3. StreamInv' /\ \A k : FrameEnd(k)' = FrameEnd(k)
  BY <1>1, <1>2, StreamStays
<1>4. TypeOK'
  BY <1>1, <1>2 DEF TypeOK
<1>5. ParserInv'
  BY <1>1, <1>2, <1>3 DEF ParserInv
<1>. QED
  BY <1>2, <1>3, <1>4, <1>5 DEF IInv, WaitInv

LEMMA NextInvariance == SizesKnown /\ IInv /\ [Next]_vars => IInv'
<1>. SUFFICES ASSUME SizesKnown, IInv, [Next]_vars PROVE IInv'
  OBVIOUS
<1>1. CASE \E f \in Frames : ServerSend(f)
  BY <1>1, SendInvariance
<1>2. CASE \E n \in 1..(BytesSent - arrived) : Receive(n)
  BY <1>2, ReceiveInvariance
<1>3. CASE RecvHandler
  BY <1>3, HandshakeInvariance, ReturnInvariance, FrameReceivedInvariance, TakenInvariance
  DEF RecvHandler
<1>4. CASE UNCHANGED vars
  <2>1. FrameEnd(Len(delivered))' = FrameEnd(Len(delivered))
        /\ FrameEnd(Len(delivered) + 1)' = FrameEnd(Len(delivered) + 1)
    BY <1>4 DEF vars, FrameEnd
  <2>2. StreamInv'
    BY <1>4, StreamStays DEF vars, IInv
  <2>. QED
    BY <1>4, <2>1, <2>2 DEF vars, IInv, TypeOK, ParserInv, WaitInv
<1>. QED
  BY <1>1, <1>2, <1>3, <1>4 DEF Next

(* The parser stands between two frames whenever it reads a header, however  *)
(* the bytes come.                                                           *)
THEOREM Invariance == SizesKnown => (Spec => []IInv)
<1>. SUFFICES ASSUME SizesKnown PROVE Spec => []IInv
  OBVIOUS
<1>1. Init => IInv
  BY InitInvariance
<1>2. IInv /\ [Next]_vars => IInv'
  BY NextInvariance
<1>. QED
  BY <1>1, <1>2, PTL DEF Spec

(* A frame that has arrived is handed up before RecvHandler returns.         *)
THEOREM HandedUpAtOnce == SizesKnown => (Spec => []NothingHeldBack)
<1>. SUFFICES ASSUME SizesKnown PROVE Spec => []NothingHeldBack
  OBVIOUS
<1>1. IInv => NothingHeldBack
  <2>. SUFFICES ASSUME IInv, pc = "idle", ~failed, NEW k \in 1..Len(sent),
                       FrameEnd(k) <= arrived
                PROVE  k <= Len(delivered)
    BY DEF NothingHeldBack, IInv
  <2>1. TypeOK /\ StreamInv /\ ParserInv /\ WaitInv /\ Len(sent) \in Nat
        /\ Len(delivered) \in Nat /\ arrived \in Nat
    BY Ends DEF IInv, TypeOK
  <2>2. CASE ~handshaked
    <3>1. FrameEnd(0) < FrameEnd(k) /\ FrameEnd(k) \in Nat
      BY <2>1, Ends
    <3>. QED
      BY <2>1, <2>2, <3>1, ConstantTypes DEF WaitInv, FrameEnd
  <2>3. ASSUME handshaked, Len(delivered) < k
        PROVE  FALSE
    <3>1. Len(delivered) < Len(sent) /\ arrived < FrameEnd(Len(delivered) + 1)
      BY <2>1, <2>3 DEF WaitInv
    <3>2. FrameEnd(Len(delivered) + 1) <= FrameEnd(k)
      BY <2>1, <2>3, Ends
    <3>3. FrameEnd(k) \in Nat /\ FrameEnd(Len(delivered) + 1) \in Nat
      BY <2>1, <3>1, Ends
    <3>. QED
      BY <2>1, <3>1, <3>2, <3>3
  <2>. QED
    BY <2>1, <2>2, <2>3
<1>. QED
  BY <1>1, Invariance, PTL

(* What OnRecvWebsocketData is given are the frames the server sent, each    *)
(* whole, in order and once: the parser implements FifoChannel.              *)
THEOREM FramesInOrder == SizesKnown => (Spec => FramesSpec)
<1>. SUFFICES ASSUME SizesKnown PROVE Spec => FramesSpec
  OBVIOUS
<1>1. Init => Channel!ChannelInit
  BY DEF Init, Channel!ChannelInit
<1>2. IInv /\ [Next]_vars => [Channel!ChannelNext]_(Channel!channelVars)
  <2>. SUFFICES ASSUME IInv, [Next]_vars
                PROVE  Channel!ChannelNext \/ UNCHANGED Channel!channelVars
    OBVIOUS
  <2>1. CASE \E f \in Frames : ServerSend(f)
    BY <2>1 DEF ServerSend, Channel!ChannelNext, Channel!Accept
  <2>2. CASE \E n \in 1..(BytesSent - arrived) : Receive(n)
    BY <2>2 DEF Receive, Channel!channelVars
  <2>3. CASE FrameReceived
    <3>1. PICK f \in Frames :
              /\ Read(f) /\ Complete(f) /\ ~f.close
              /\ delivered' = Append(delivered, Payload(f))
      BY <2>3 DEF FrameReceived
    <3>2. /\ Parsing /\ Available > 0 /\ UNCHANGED <<sent, failed>>
      BY <2>3 DEF FrameReceived
    <3>3. Len(delivered) + 1 \in 1..Len(sent) /\ Payload(f) = sent[Len(delivered) + 1]
      BY <3>1, <3>2, ReceivedWhole
    <3>4. ~failed
      BY <3>2 DEF IInv, ParserInv, Parsing
    <3>5. Len(delivered) < Len(sent)
      BY <3>3, Ends DEF IInv, TypeOK
    <3>. QED
      BY <3>1, <3>2, <3>3, <3>4, <3>5 DEF Channel!ChannelNext, Channel!Deliver
  <2>4. CASE HandshakeRefused \/ FrameClose \/ FrameRefused
    BY <2>4 DEF HandshakeRefused, FrameClose, FrameRefused, Fail,
                Channel!ChannelNext, Channel!Close
  <2>5. CASE HandshakeIncomplete \/ Handshake \/ LoopDone \/ FrameIncomplete \/ FrameTaken
    BY <2>5 DEF HandshakeIncomplete, Handshake, LoopDone, FrameIncomplete, FrameTaken, Return,
                Channel!channelVars
  <2>6. CASE UNCHANGED vars
    BY <2>6 DEF vars, Channel!channelVars
  <2>. QED
    BY <2>1, <2>2, <2>3, <2>4, <2>5, <2>6 DEF Next, RecvHandler
<1>. QED
  BY <1>1, <1>2, Invariance, PTL DEF Spec, FramesSpec, Channel!ChannelSpec

----------------------------------------------------------------------------
(* SignallingOffer: what a line changes of what the lines say.               *)

(* A line more does not change those before it.                              *)
LEMMA Appended ==
    ASSUME NEW ls \in Seq(Line), NEW l \in Line
    PROVE  /\ Append(ls, l) \in Seq(Line) /\ Len(Append(ls, l)) = Len(ls) + 1 /\ Len(ls) \in Nat
           /\ \A i \in 1..Len(ls) : Append(ls, l)[i] = ls[i] /\ ls[i] \in Line
           /\ Append(ls, l)[Len(ls) + 1] = l
  OBVIOUS

LEMMA FirstStays ==
    ASSUME NEW ls \in Seq(Line), NEW l \in Line, NEW places \in SUBSET (1..Len(ls)), NEW value,
           IsFirst(value, ls, places)
    PROVE  IsFirst(value, Append(ls, l), places)
  BY Appended DEF IsFirst

LEMMA LastStays ==
    ASSUME NEW ls \in Seq(Line), NEW l \in Line, NEW places \in SUBSET (1..Len(ls)), NEW value,
           IsLast(value, ls, places)
    PROVE  IsLast(value, Append(ls, l), places)
  BY Appended DEF IsLast

(* What the line at the end says counts for the first value if there was     *)
(* none, and for the last value always.                                      *)
LEMMA FirstExtended ==
    ASSUME NEW ls \in Seq(Line), NEW l \in Line, NEW places \in SUBSET (1..Len(ls)), NEW value,
           IsFirst(value, ls, places)
    PROVE  IsFirst(IF value = Empty THEN l.value ELSE value, Append(ls, l), places \cup {Len(ls) + 1})
<1>1. /\ \A i \in places : Append(ls, l)[i] = ls[i] /\ i \in Nat /\ i < Len(ls) + 1
      /\ Append(ls, l)[Len(ls) + 1] = l /\ Len(ls) + 1 \in Nat
  BY Appended
<1>2. CASE value = Empty
  <2>1. CASE l.value = Empty
    BY <1>1, <1>2, <2>1 DEF IsFirst
  <2>2. CASE l.value # Empty
    BY <1>1, <1>2, <2>2 DEF IsFirst
  <2>. QED
    BY <2>1, <2>2
<1>3. CASE value # Empty
  BY <1>1, <1>3 DEF IsFirst
<1>. QED
  BY <1>2, <1>3

LEMMA LastExtended ==
    ASSUME NEW ls \in Seq(Line), NEW l \in Line, NEW places \in SUBSET (1..Len(ls))
    PROVE  IsLast(l.value, Append(ls, l), places \cup {Len(ls) + 1})
<1>1. Len(ls) \in Nat /\ Append(ls, l)[Len(ls) + 1] = l
  BY Appended
<1>2. \A j \in places \cup {Len(ls) + 1} : j <= Len(ls) + 1
  BY <1>1
<1>3. Append(ls, l)[Len(ls) + 1].value = l.value
  BY <1>1
<1>4. Len(ls) + 1 \in places \cup {Len(ls) + 1}
  OBVIOUS
<1>. QED
  BY <1>2, <1>3, <1>4 DEF IsLast

(* The places of a section that was over or is cut off at end.               *)
LEMMA PlacesStay ==
    ASSUME NEW ls \in Seq(Line), NEW l \in Line, NEW end \in 0..Len(ls), NEW i \in 1..end, NEW kind
    PROVE  /\ Places(Append(ls, l), i, end, kind) = Places(ls, i, end, kind)
           /\ Places(ls, i, end, kind) \in SUBSET (1..Len(ls))
<1>1. \A j \in 1..end : Append(ls, l)[j] = ls[j]
  BY Appended
<1>2. i..end \subseteq 1..end /\ \A j \in i..end : (i + 1)..j \subseteq 1..end
  OBVIOUS
<1>3. 1..end \subseteq 1..Len(ls)
  BY Appended
<1>. QED
  BY <1>1, <1>2, <1>3 DEF Places, IsMline

LEMMA PlacesOver ==
    ASSUME NEW ls \in Seq(Line), NEW l \in Line, NEW i \in 1..Len(ls), NEW kind,
           \E k \in (i + 1)..(Len(ls) + 1) : IsMline(Append(ls, l), k)
    PROVE  Places(Append(ls, l), i, Len(ls) + 1, kind) = Places(ls, i, Len(ls), kind)
<1> DEFINE end == Len(ls)
           long == Append(ls, l)
<1>1. end \in Nat /\ long[end + 1] = l /\ \A j \in 1..end : long[j] = ls[j]
  BY Appended
<1>2. end + 1 \notin Places(long, i, end + 1, kind)
  BY DEF Places
<1>3. \A j \in i..(end + 1) : j \in i..end \/ j = end + 1
  BY <1>1
<1>4. Places(long, i, end + 1, kind) = Places(long, i, end, kind)
  BY <1>1, <1>2, <1>3 DEF Places
<1>. QED
  BY <1>1, <1>4, PlacesStay

LEMMA PlacesExtended ==
    ASSUME NEW ls \in Seq(Line), NEW l \in Line, NEW i \in 1..Len(ls), NEW kind,
           \A k \in (i + 1)..(Len(ls) + 1) : ~IsMline(Append(ls, l), k)
    PROVE  Places(Append(ls, l), i, Len(ls) + 1, kind)
              = IF l.kind = kind THEN Places(ls, i, Len(ls), kind) \cup {Len(ls) + 1}
                ELSE Places(ls, i, Len(ls), kind)
<1> DEFINE end == Len(ls)
           long == Append(ls, l)
<1>1. end \in Nat /\ long[end + 1] = l /\ \A j \in 1..end : long[j] = ls[j]
  BY Appended
<1>2. end + 1 \in Places(long, i, end + 1, kind) <=> l.kind = kind
  BY <1>1 DEF Places
<1>3. \A j \in i..(end + 1) : j \in i..end \/ j = end + 1
  BY <1>1
<1>4. Places(long, i, end + 1, kind) \ {end + 1} = Places(long, i, end, kind)
  BY <1>1, <1>3 DEF Places
<1>5. Places(long, i, end, kind) = Places(ls, i, end, kind)
  BY <1>1, PlacesStay
<1>. QED
  BY <1>2, <1>4, <1>5

(* What was said of a section stays so.                                      *)
LEMMA SectionStays ==
    ASSUME NEW ls \in Seq(Line), NEW l \in Line, NEW end \in 0..Len(ls), NEW i \in 1..end
    PROVE  /\ \A m : IsSection(m, ls, i, end) => IsSection(m, Append(ls, l), i, end)
           /\ \A t : IsTrack(t, ls, i, end) => IsTrack(t, Append(ls, l), i, end)
<1>1. \A kind : /\ Places(Append(ls, l), i, end, kind) = Places(ls, i, end, kind)
                /\ Places(ls, i, end, kind) \in SUBSET (1..Len(ls))
  BY PlacesStay
<1>2. \A value, kind : /\ IsFirst(value, ls, Places(ls, i, end, kind))
                            => IsFirst(value, Append(ls, l), Places(ls, i, end, kind))
                       /\ IsLast(value, ls, Places(ls, i, end, kind))
                            => IsLast(value, Append(ls, l), Places(ls, i, end, kind))
  BY <1>1, FirstStays, LastStays
<1>3. Append(ls, l)[i] = ls[i]
  BY Appended
<1>. QED
  BY <1>1, <1>2, <1>3 DEF IsSection, IsTrack

LEMMA SectionOver ==
    ASSUME NEW ls \in Seq(Line), NEW l \in Line, NEW i \in 1..Len(ls), NEW m,
           \E k \in (i + 1)..(Len(ls) + 1) : IsMline(Append(ls, l), k),
           IsSection(m, ls, i, Len(ls))
    PROVE  IsSection(m, Append(ls, l), i, Len(ls) + 1)
<1>1. Len(ls) \in 0..Len(ls) /\ i \in 1..Len(ls)
  BY Appended
<1>2. IsSection(m, Append(ls, l), i, Len(ls))
  BY <1>1, SectionStays
<1>3. \A kind : Places(Append(ls, l), i, Len(ls) + 1, kind) = Places(ls, i, Len(ls), kind)
  BY PlacesOver
<1>4. \A kind : Places(Append(ls, l), i, Len(ls), kind) = Places(ls, i, Len(ls), kind)
  BY <1>1, PlacesStay
<1>. QED
  BY <1>2, <1>3, <1>4 DEF IsSection

(* The m-lines before begin and after it.                                    *)
LEMMA MlinesStay ==
    ASSUME NEW ls \in Seq(Line), NEW l \in Line, NEW begin \in 0..Len(ls), NEW end \in 0..Len(ls)
    PROVE  Mlines(Append(ls, l), begin, end) = Mlines(ls, begin, end)
<1>1. \A j \in 1..Len(ls) : Append(ls, l)[j] = ls[j]
  BY Appended
<1>2. /\ 1..end \subseteq 1..Len(ls)
      /\ \A i \in 1..end : (i + 1)..begin \subseteq 1..Len(ls)
  BY Appended
<1>. QED
  BY <1>1, <1>2 DEF Mlines, IsMline

LEMMA MlinesExtended ==
    ASSUME NEW ls \in Seq(Line), NEW l \in Line, NEW begin \in 0..Len(ls)
    PROVE  Mlines(Append(ls, l), begin, Len(ls) + 1)
              = IF l.kind = "m" THEN Mlines(ls, begin, Len(ls)) \cup {Len(ls) + 1}
                ELSE Mlines(ls, begin, Len(ls))
<1> DEFINE end == Len(ls)
           long == Append(ls, l)
<1>1. end \in Nat /\ long[end + 1] = l
  BY Appended
<1>2. end + 1 \in Mlines(long, begin, end + 1) <=> l.kind = "m"
  BY <1>1 DEF Mlines, IsMline
<1>3. \A j \in 1..(end + 1) : j \in 1..end \/ j = end + 1
  BY <1>1
<1>4. Mlines(long, begin, end + 1) \ {end + 1} = Mlines(long, begin, end)
  BY <1>1, <1>3 DEF Mlines
<1>5. Mlines(long, begin, end) = Mlines(ls, begin, end)
  BY <1>1, MlinesStay
<1>. QED
  BY <1>2, <1>4, <1>5

----------------------------------------------------------------------------
(* The sections the parser holds, after one line more.                       *)

(* SectionsInv without the variables: the sections ms of the m-lines behind  *)
(* begin, of which the last is current if one is.                            *)
Listed(ms, begun, ls, begin) ==
    \E at \in [DOMAIN ms -> Mlines(ls, begin, Len(ls))] :
        /\ SectionsOf(ms, at, ls, begin, Len(ls))
        /\ \A i \in DOMAIN ls : IsMline(ls, i) => begun /\ i <= at[Len(ms)]

LEMMA SectionAdded ==
    ASSUME NEW ls \in Seq(Line), NEW l \in Line, l.kind = "m", NEW begin \in 0..Len(ls),
           NEW ms \in Seq(MlineInfo), NEW begun, Listed(ms, begun, ls, begin)
    PROVE  Listed(Append(ms, [NewMline EXCEPT !.mline = l.value]), TRUE, Append(ls, l), begin)
<1> DEFINE end == Len(ls)
           long == Append(ls, l)
           new == [NewMline EXCEPT !.mline = l.value]
           more == Append(ms, new)
           n == Len(ms)
<1>1. PICK at \in [DOMAIN ms -> Mlines(ls, begin, end)] : SectionsOf(ms, at, ls, begin, end)
  BY DEF Listed
<1>21. /\ \A i \in Mlines(ls, begin, end) : \E k \in 1..n : at[k] = i
       /\ \A k, j \in 1..n : k < j => at[k] < at[j]
  BY <1>1 DEF SectionsOf, InOrder
<1> DEFINE till == [k \in 1..(n + 1) |-> IF k <= n THEN at[k] ELSE end + 1]
<1>2. /\ end \in Nat /\ n \in Nat /\ long \in Seq(Line) /\ Len(long) = end + 1
      /\ long[end + 1] = l /\ DOMAIN ms = 1..n
  BY Appended
<1>3. new \in MlineInfo /\ new.mline = l.value /\ new.mid = Empty /\ new.rtpmap = Empty
  <2>1. l.value \in Text
    BY DEF Line
  <2>2. new = [mline |-> l.value, mid |-> Empty, rtpmap |-> Empty]
    BY DEF NewMline
  <2>3. Empty \in Text
    BY DEF Text
  <2>. QED
    BY <2>1, <2>2, <2>3 DEF MlineInfo
<1>4. /\ DOMAIN more = 1..(n + 1) /\ Len(more) = n + 1
      /\ more[n + 1] = new /\ \A k \in 1..n : more[k] = ms[k]
  BY <1>3
<1>5. Mlines(long, begin, end + 1) = Mlines(ls, begin, end) \cup {end + 1}
  BY MlinesExtended
<1>6. \A i \in Mlines(ls, begin, end) : i \in 1..end
  BY DEF Mlines
<1>7. till \in [DOMAIN more -> Mlines(long, begin, end + 1)]
  BY <1>2, <1>4, <1>5
<1>8. /\ \A k \in 1..n : till[k] = at[k] /\ at[k] \in 1..end
      /\ till[n + 1] = end + 1
  BY <1>2, <1>6
<1> HIDE DEF till
<1>9. IsSection(new, long, end + 1, end + 1)
  <2>1. Places(long, end + 1, end + 1, "mid") = {} /\ Places(long, end + 1, end + 1, "rtpmap") = {}
    BY <1>2 DEF Places
  <2>. QED
    BY <2>1, <1>2, <1>3 DEF IsSection, IsFirst, IsLast
<1>10. \A k \in 1..n : IsSection(ms[k], long, at[k], end + 1)
  <2>1. SUFFICES ASSUME NEW k \in 1..n PROVE IsSection(ms[k], long, at[k], end + 1)
    OBVIOUS
  <2>2. at[k] \in 1..end /\ IsSection(ms[k], ls, at[k], end)
    BY <1>1, <1>2, <1>8 DEF SectionsOf
  <2>3. \E j \in (at[k] + 1)..(end + 1) : IsMline(long, j)
    BY <1>2, <2>2 DEF IsMline
  <2>. QED
    BY <2>2, <2>3, SectionOver
<1>11. SectionsOf(more, till, long, begin, end + 1)
  <2>1. \A k \in DOMAIN more : IsSection(more[k], long, till[k], end + 1)
    <3>1. SUFFICES ASSUME NEW k \in 1..(n + 1) PROVE IsSection(more[k], long, till[k], end + 1)
      BY <1>4
    <3>2. k \in 1..n \/ k = n + 1
      BY <1>2
    <3>. QED
      BY <3>2, <1>4, <1>8, <1>9, <1>10
  <2>2. \A i \in Mlines(long, begin, end + 1) : \E k \in 1..(n + 1) : till[k] = i
    <3>1. SUFFICES ASSUME NEW i \in Mlines(long, begin, end + 1) PROVE \E k \in 1..(n + 1) : till[k] = i
      OBVIOUS
    <3>2. CASE i = end + 1
      BY <3>2, <1>2, <1>8
    <3>3. CASE i \in Mlines(ls, begin, end)
      <4>1. PICK k \in 1..n : at[k] = i
        BY <3>3, <1>21
      <4>. QED
        BY <4>1, <1>2, <1>8
    <3>. QED
      BY <3>2, <3>3, <1>5
  <2>3. \A k, j \in 1..(n + 1) : k < j => till[k] < till[j]
    <3>1. SUFFICES ASSUME NEW k \in 1..(n + 1), NEW j \in 1..(n + 1), k < j PROVE till[k] < till[j]
      OBVIOUS
    <3>2. k \in 1..n /\ (j \in 1..n \/ j = n + 1)
      BY <1>2, <3>1
    <3>3. CASE j \in 1..n
      BY <3>1, <3>2, <3>3, <1>8, <1>21
    <3>4. CASE j = n + 1
      <4>1. till[k] \in 1..end /\ till[j] = end + 1
        BY <3>2, <3>4, <1>8
      <4>. QED
        BY <4>1, <1>2
    <3>. QED
      BY <3>2, <3>3, <3>4
  <2>. QED
    BY <1>4, <1>7, <2>1, <2>2, <2>3 DEF SectionsOf, InOrder
<1>13. till \in [1..(n + 1) -> Mlines(long, begin, end + 1)]
  BY <1>4, <1>7
<1>12. \A i \in DOMAIN long : i <= till[Len(more)]
  BY <1>2, <1>4, <1>8
<1>. QED
  BY <1>2, <1>7, <1>11, <1>12 DEF Listed

(* A line that is no m-line changes the current section at most.             *)
LEMMA SectionChanged ==
    ASSUME NEW ls \in Seq(Line), NEW l \in Line, l.kind # "m", NEW begin \in 0..Len(ls),
           NEW ms \in Seq(MlineInfo), NEW changed \in Seq(MlineInfo), NEW begun,
           Listed(ms, begun, ls, begin), Len(changed) = Len(ms),
           \A k \in 1..(Len(ms) - 1) : changed[k] = ms[k],
           ASSUME NEW i \in 1..Len(ls), \A k \in (i + 1)..(Len(ls) + 1) : ~IsMline(Append(ls, l), k),
                  begun, IsSection(ms[Len(ms)], ls, i, Len(ls))
           PROVE  IsSection(changed[Len(ms)], Append(ls, l), i, Len(ls) + 1)
    PROVE  Listed(changed, begun, Append(ls, l), begin)
<1> DEFINE end == Len(ls)
           long == Append(ls, l)
           n == Len(ms)
<1>1. PICK at \in [DOMAIN ms -> Mlines(ls, begin, end)] :
          /\ SectionsOf(ms, at, ls, begin, end)
          /\ \A i \in DOMAIN ls : IsMline(ls, i) => begun /\ i <= at[n]
  BY DEF Listed
<1>2. /\ end \in Nat /\ n \in Nat /\ long \in Seq(Line) /\ Len(long) = end + 1
      /\ long[end + 1] = l /\ DOMAIN ms = 1..n /\ DOMAIN changed = 1..n /\ DOMAIN ls = 1..end
      /\ DOMAIN long = 1..(end + 1) /\ \A i \in 1..end : long[i] = ls[i]
  BY Appended
<1>3. Mlines(long, begin, end + 1) = Mlines(ls, begin, end)
  BY MlinesExtended
<1>4. \A i \in Mlines(ls, begin, end) : i \in 1..end /\ IsMline(ls, i)
  BY DEF Mlines
<1>21. \A k, j \in 1..n : k < j => at[k] < at[j]
  BY <1>1, <1>2 DEF SectionsOf, InOrder
<1>5. at \in [DOMAIN changed -> Mlines(long, begin, end + 1)]
  BY <1>2, <1>3
<1>6. \A k \in 1..n : IsSection(changed[k], long, at[k], end + 1)
  <2>1. SUFFICES ASSUME NEW k \in 1..n PROVE IsSection(changed[k], long, at[k], end + 1)
    OBVIOUS
  <2>2. at[k] \in 1..end /\ IsSection(ms[k], ls, at[k], end)
    BY <1>1, <1>2, <1>4 DEF SectionsOf
  <2>3. CASE k = n
    <3>1. \A j \in (at[n] + 1)..(end + 1) : ~IsMline(long, j)
      <4>1. SUFFICES ASSUME NEW j \in (at[n] + 1)..(end + 1) PROVE ~IsMline(long, j)
        OBVIOUS
      <4>2. (j \in 1..end /\ j > at[n]) \/ j = end + 1
        BY <1>2, <2>2, <2>3
      <4>3. at[n] \in Nat /\ \A i \in 1..end : IsMline(ls, i) => i <= at[n]
        BY <1>1, <1>2, <2>2, <2>3
      <4>. QED
        BY <4>2, <4>3, <1>2 DEF IsMline
    <3>2. begun
      BY <1>1, <1>2, <1>4, <2>2, <2>3
    <3>. QED
      BY <2>2, <2>3, <3>1, <3>2
  <2>4. CASE k # n
    <3>1. k \in 1..(n - 1) /\ n \in 1..n
      <4>1. n \in Nat /\ k \in 1..n /\ k # n
        BY <1>2, <2>1, <2>4
      <4> HIDE DEF n
      <4>. QED
        BY <4>1
    <3>2. at[k] < at[n] /\ at[n] \in 1..end /\ IsMline(ls, at[n])
      <4>1. k < n /\ k \in 1..n /\ n \in 1..n
        BY <1>2, <2>1, <3>1
      <4>2. at[n] \in Mlines(ls, begin, end)
        BY <4>1, <1>2
      <4>. QED
        BY <4>1, <4>2, <1>4, <1>21
    <3>3. at[n] \in (at[k] + 1)..(end + 1) /\ IsMline(long, at[n])
      <4>1. long[at[n]] = ls[at[n]] /\ end \in Nat
        BY <1>2, <3>2
      <4>2. at[n] \in (at[k] + 1)..(end + 1)
        BY <4>1, <2>2, <3>2
      <4>. QED
        BY <4>1, <4>2, <3>2 DEF IsMline
    <3>4. IsSection(ms[k], long, at[k], end + 1)
      BY <2>2, <3>3, SectionOver
    <3>. QED
      BY <3>1, <3>4
  <2>. QED
    BY <2>3, <2>4
<1>7. SectionsOf(changed, at, long, begin, end + 1)
  BY <1>1, <1>2, <1>3, <1>6 DEF SectionsOf, InOrder
<1>8. \A i \in DOMAIN long : IsMline(long, i) => begun /\ i <= at[Len(changed)]
  <2>1. SUFFICES ASSUME NEW i \in 1..(end + 1), IsMline(long, i) PROVE begun /\ i <= at[n]
    BY <1>2
  <2>2. i # end + 1
    BY <2>1, <1>2 DEF IsMline
  <2>3. i \in 1..end
    BY <2>1, <2>2, <1>2
  <2>4. IsMline(ls, i)
    BY <2>1, <2>3, <1>2 DEF IsMline
  <2>. QED
    BY <2>3, <2>4, <1>1, <1>2
<1>. QED
  BY <1>2, <1>5, <1>7, <1>8 DEF Listed

(* What a line says of the section that is current.                          *)
LEMMA SectionSays ==
    ASSUME NEW ls \in Seq(Line), NEW l \in Line, NEW i \in 1..Len(ls), NEW m, NEW new,
           \A k \in (i + 1)..(Len(ls) + 1) : ~IsMline(Append(ls, l), k),
           IsSection(m, ls, i, Len(ls)), new.mline = m.mline,
           new.mid = IF l.kind = "mid" THEN l.value ELSE m.mid,
           new.rtpmap = IF l.kind = "rtpmap" /\ m.rtpmap = Empty THEN l.value ELSE m.rtpmap
    PROVE  IsSection(new, Append(ls, l), i, Len(ls) + 1)
<1> DEFINE end == Len(ls)
           mids == Places(ls, i, end, "mid")
           maps == Places(ls, i, end, "rtpmap")
<1>1. end \in 0..Len(ls) /\ i \in 1..end
  BY Appended
<1>2. mids \in SUBSET (1..Len(ls)) /\ maps \in SUBSET (1..Len(ls))
  BY <1>1, PlacesStay
<1>3. \A kind : Places(Append(ls, l), i, end + 1, kind)
                  = IF l.kind = kind THEN Places(ls, i, end, kind) \cup {end + 1}
                    ELSE Places(ls, i, end, kind)
  BY PlacesExtended
<1>4. new.mline = Append(ls, l)[i].value
  BY Appended DEF IsSection
<1>5. IsLast(m.mid, ls, mids) /\ IsFirst(m.rtpmap, ls, maps)
  BY DEF IsSection
<1>6. IsLast(new.mid, Append(ls, l), Places(Append(ls, l), i, end + 1, "mid"))
  <2>1. CASE l.kind = "mid"
    BY <2>1, <1>2, <1>3, LastExtended
  <2>2. CASE l.kind # "mid"
    BY <2>2, <1>2, <1>3, <1>5, LastStays
  <2>. QED
    BY <2>1, <2>2
<1>7. IsFirst(new.rtpmap, Append(ls, l), Places(Append(ls, l), i, end + 1, "rtpmap"))
  <2>1. CASE l.kind = "rtpmap"
    <3>1. IsFirst(IF m.rtpmap = Empty THEN l.value ELSE m.rtpmap, Append(ls, l), maps \cup {end + 1})
      BY <1>2, <1>5, FirstExtended
    <3>. QED
      BY <2>1, <3>1, <1>3
  <2>2. CASE l.kind # "rtpmap"
    BY <2>2, <1>2, <1>3, <1>5, FirstStays
  <2>. QED
    BY <2>1, <2>2
<1>. QED
  BY <1>4, <1>6, <1>7 DEF IsSection

LEMMA CurrentSays ==
    ASSUME NEW ls \in Seq(Line), NEW l \in Line, l.kind # "m", NEW begin \in 0..Len(ls),
           NEW ms \in Seq(MlineInfo), NEW current \in Seq(MlineInfo), NEW new \in Seq(MlineInfo),
           Len(current) \in 0..1, Len(new) = Len(current),
           Listed(ms \o current, current # <<>>, ls, begin),
           current # <<>> =>
              /\ new[1].mline = current[1].mline
              /\ new[1].mid = IF l.kind = "mid" THEN l.value ELSE current[1].mid
              /\ new[1].rtpmap = IF l.kind = "rtpmap" /\ current[1].rtpmap = Empty
                                 THEN l.value ELSE current[1].rtpmap
    PROVE  Listed(ms \o new, new # <<>>, Append(ls, l), begin)
<1> DEFINE old == ms \o current
           changed == ms \o new
<1>1. /\ old \in Seq(MlineInfo) /\ changed \in Seq(MlineInfo)
      /\ Len(old) = Len(ms) + Len(current) /\ Len(changed) = Len(old)
      /\ Len(ms) \in Nat /\ Len(current) \in 0..1
  OBVIOUS
<1>2. (current # <<>>) = (new # <<>>)
  OBVIOUS
<1>3. \A k \in 1..(Len(old) - 1) : changed[k] = old[k]
  <2>1. \A k \in 1..Len(ms) : old[k] = ms[k] /\ changed[k] = ms[k]
    OBVIOUS
  <2>2. \A k \in 1..(Len(old) - 1) : k \in 1..Len(ms)
    <3> DEFINE m == Len(ms)
               c == Len(current)
               n == Len(old)
    <3>1. m \in Nat /\ c \in 0..1 /\ n = m + c
      BY <1>1
    <3> HIDE DEF m, c, n
    <3>2. \A k \in 1..(n - 1) : k \in 1..m
      BY <3>1
    <3>. QED
      BY <3>2 DEF m, n
  <2>. QED
    BY <2>1, <2>2
<1>4. ASSUME NEW i \in 1..Len(ls), \A k \in (i + 1)..(Len(ls) + 1) : ~IsMline(Append(ls, l), k),
             current # <<>>, IsSection(old[Len(old)], ls, i, Len(ls))
      PROVE  IsSection(changed[Len(old)], Append(ls, l), i, Len(ls) + 1)
  <2>1. old[Len(old)] = current[1] /\ changed[Len(old)] = new[1]
    BY <1>1, <1>4
  <2>. QED
    BY <2>1, <1>4, SectionSays
<1>. QED
  BY <1>1, <1>2, <1>3, <1>4, SectionChanged

LEMMA AtMostOne ==
    ASSUME NEW S, NEW s \in Seq(S), Len(s) \in 0..1
    PROVE  s = <<>> \/ Len(s) = 1
  OBVIOUS

(* The current section is what an answer leaves over.                        *)
LEMMA CarriedOver ==
    ASSUME NEW ls \in Seq(Line), NEW begin \in 0..Len(ls),
           NEW ms \in Seq(MlineInfo), NEW current \in Seq(MlineInfo), Len(current) \in 0..1,
           Listed(ms \o current, current # <<>>, ls, begin)
    PROVE  Listed(current, current # <<>>, ls, Len(ls))
<1> DEFINE old == ms \o current
           end == Len(ls)
           n == Len(old)
<1>5. current = <<>> \/ Len(current) = 1
  BY AtMostOne
<1>1. PICK at \in [DOMAIN old -> Mlines(ls, begin, end)] :
          /\ SectionsOf(old, at, ls, begin, end)
          /\ \A i \in DOMAIN ls : IsMline(ls, i) => current # <<>> /\ i <= at[n]
  BY DEF Listed
<1>2. end \in Nat /\ DOMAIN ls = 1..end /\ n \in Nat /\ DOMAIN old = 1..n
  OBVIOUS
<1>3. CASE current = <<>>
  <2>1. Mlines(ls, end, end) = {}
    BY <1>1, <1>2, <1>3 DEF Mlines
  <2>2. DOMAIN current = {}
    BY <1>3
  <2> DEFINE none == [k \in {} |-> 0]
  <2>3. none \in [DOMAIN current -> Mlines(ls, end, end)]
    BY <2>2
  <2>4. SectionsOf(current, none, ls, end, end)
    BY <2>1, <2>2 DEF SectionsOf, InOrder
  <2>. QED
    BY <2>3, <2>4, <1>1, <1>2, <1>3 DEF Listed
<1>4. CASE current # <<>>
  <2>1. /\ Len(current) = 1 /\ DOMAIN current = {1} /\ n \in 1..n /\ current[1] = old[n]
    <3>1. Len(current) = 1 /\ n = Len(ms) + 1 /\ Len(ms) \in Nat
      <4>1. n = Len(ms) + Len(current) /\ Len(ms) \in Nat
        BY ConcatProperties
      <4> HIDE DEF n
      <4>. QED
        BY <4>1, <1>4, <1>5
    <3>2. old[n] = current[1]
      BY <3>1
    <3>. QED
      BY <3>1, <3>2
  <2>2. at[n] \in 1..end /\ IsMline(ls, at[n]) /\ IsSection(current[1], ls, at[n], end)
    BY <2>1, <1>1, <1>2 DEF Mlines, SectionsOf
  <2>3. Mlines(ls, end, end) = {at[n]}
    <3>1. \A i \in Mlines(ls, end, end) : i = at[n]
      <4>1. SUFFICES ASSUME NEW i \in Mlines(ls, end, end) PROVE i = at[n]
        OBVIOUS
      <4>2. i \in 1..end /\ IsMline(ls, i) /\ \A j \in (i + 1)..end : ~IsMline(ls, j)
        BY <4>1 DEF Mlines
      <4>3. i <= at[n]
        BY <4>2, <1>1, <1>2
      <4>4. at[n] \notin (i + 1)..end
        BY <4>2, <2>2
      <4>. QED
        BY <4>2, <4>3, <4>4, <2>2
    <3>2. \A j \in (at[n] + 1)..end : ~IsMline(ls, j)
      <4>1. SUFFICES ASSUME NEW j \in (at[n] + 1)..end PROVE ~IsMline(ls, j)
        OBVIOUS
      <4>2. j \in 1..end /\ ~(j <= at[n])
        BY <1>2, <2>2
      <4>. QED
        BY <4>2, <1>1, <1>2
    <3>. QED
      BY <2>2, <3>1, <3>2 DEF Mlines
  <2> DEFINE last == [k \in {1} |-> at[n]]
  <2>4. last \in [DOMAIN current -> Mlines(ls, end, end)] /\ last[1] = at[n] /\ DOMAIN last = {1}
    BY <2>1, <2>3
  <2>5. SectionsOf(current, last, ls, end, end)
    BY <2>1, <2>2, <2>3, <2>4 DEF SectionsOf, InOrder
  <2>6. \A i \in DOMAIN ls : IsMline(ls, i) => current # <<>> /\ i <= last[Len(current)]
    BY <1>1, <2>1, <2>4
  <2>. QED
    BY <2>4, <2>5, <2>6 DEF Listed
<1>. QED
  BY <1>3, <1>4

----------------------------------------------------------------------------
(* The inductive invariant                                                   *)

(* What the steps other than those of the parser and of the answer change.   *)
LEMMA Kinds ==
    ASSUME [OfferNext]_offerVars
    PROVE  \/ ParsingSdp
           \/ SendAnswerCommand
           \/ UNCHANGED <<parser, completed, read>>
  BY DEF OfferNext, offerVars, SendHandshake, OnHandshakeComplete, OnRecvWebsocketData, JsonDataFail,
         RecvOffer, PostClose, parser, frame, announced, read

LEMMA MediaLineTypes ==
    ASSUME OfferTypeOK, NEW line \in Line, ParsingMediaLine(line)
    PROVE  /\ mlineInfos' \in Seq(MlineInfo)
           /\ currentMline' \in Seq(MlineInfo) /\ Len(currentMline') \in 0..1
           /\ credentials' \in [IceKinds -> Text]
<1>1. /\ mlineInfos \in Seq(MlineInfo) /\ currentMline \in Seq(MlineInfo) /\ Len(currentMline) \in 0..1
      /\ credentials \in [IceKinds -> Text] /\ line.value \in Text
  BY DEF OfferTypeOK, Line
<1>2. CASE MLine(line)
  <2>1. [NewMline EXCEPT !.mline = line.value] \in MlineInfo
    BY <1>1 DEF NewMline, MlineInfo, Text
  <2>2. mlineInfos \o currentMline \in Seq(MlineInfo)
    BY <1>1, ConcatProperties
  <2>. QED
    BY <1>1, <1>2, <2>1, <2>2 DEF MLine
<1>3. CASE currentMline # <<>> /\ (Mid(line) \/ Rtpmap(line))
  <2>1. Len(currentMline) = 1 /\ currentMline[1] \in MlineInfo
    BY <1>1, <1>3
  <2>5. currentMline \in Seq(MlineInfo) /\ 1 \in 1..Len(currentMline) /\ Len(currentMline) = 1
    BY <1>1, <2>1
  <2>8. \A e \in MlineInfo : /\ [currentMline EXCEPT ![1] = e] \in Seq(MlineInfo)
                              /\ Len([currentMline EXCEPT ![1] = e]) = Len(currentMline)
    BY <2>5, ExceptSeq
  <2>2. /\ [currentMline EXCEPT ![1].mid = line.value] \in Seq(MlineInfo)
        /\ Len([currentMline EXCEPT ![1].mid = line.value]) = 1
    <3>1. [currentMline[1] EXCEPT !.mid = line.value] \in MlineInfo
      BY <1>1, <2>1 DEF MlineInfo
    <3>2. [currentMline EXCEPT ![1].mid = line.value]
            = [currentMline EXCEPT ![1] = [currentMline[1] EXCEPT !.mid = line.value]]
      OBVIOUS
    <3>. QED
      BY <2>5, <2>8, <3>1, <3>2
  <2>3. /\ [currentMline EXCEPT ![1].rtpmap = line.value] \in Seq(MlineInfo)
        /\ Len([currentMline EXCEPT ![1].rtpmap = line.value]) = 1
    <3>1. [currentMline[1] EXCEPT !.rtpmap = line.value] \in MlineInfo
      BY <1>1, <2>1 DEF MlineInfo
    <3>2. [currentMline EXCEPT ![1].rtpmap = line.value]
            = [currentMline EXCEPT ![1] = [currentMline[1] EXCEPT !.rtpmap = line.value]]
      OBVIOUS
    <3>. QED
      BY <2>5, <2>8, <3>1, <3>2
  <2>4. currentMline' \in {currentMline, [currentMline EXCEPT ![1].mid = line.value],
                           [currentMline EXCEPT ![1].rtpmap = line.value]}
    BY <1>3 DEF Mid, Rtpmap
  <2>6. mlineInfos' = mlineInfos /\ credentials' = credentials
    BY <1>3 DEF Mid, Rtpmap
  <2>7. currentMline' \in Seq(MlineInfo) /\ Len(currentMline') \in 0..1
    <3>1. \A s : s \in Seq(MlineInfo) /\ Len(s) = 1 => s \in Seq(MlineInfo) /\ Len(s) \in 0..1
      OBVIOUS
    <3>. QED
      BY <2>2, <2>3, <2>4, <2>5, <3>1
  <2>. QED
    BY <1>1, <2>6, <2>7
<1>4. CASE currentMline = <<>> /\ (Mid(line) \/ Rtpmap(line))
  <2>1. mlineInfos' = mlineInfos /\ credentials' = credentials /\ currentMline' = currentMline
    BY <1>4 DEF Mid, Rtpmap
  <2>. QED
    BY <1>1, <2>1
<1>5. CASE IceLine(line)
  BY <1>1, <1>5 DEF IceLine
<1>6. CASE UNCHANGED parser
  BY <1>1, <1>6 DEF parser
<1>. QED
  BY <1>2, <1>3, <1>4, <1>5, <1>6 DEF ParsingMediaLine

LEMMA ParsedTypes ==
    ASSUME OfferTypeOK
    PROVE  /\ ParsedMlines \in Seq(MlineInfo)
           /\ DOMAIN ParsedMlines = 1..Len(ParsedMlines) /\ Len(ParsedMlines) \in Nat
           /\ [i \in DOMAIN ParsedMlines |-> Track(ParsedMlines[i])] \in Seq(TrackInfo)
<1>1. ParsedMlines \in Seq(MlineInfo)
  BY ConcatProperties DEF OfferTypeOK, ParsedMlines
<1>2. DOMAIN ParsedMlines = 1..Len(ParsedMlines) /\ Len(ParsedMlines) \in Nat
  BY <1>1
<1>3. \A m \in MlineInfo : Track(m) \in TrackInfo
  BY DEF Track, TrackInfo, MlineInfo
<1>. QED
  BY <1>1, <1>2, <1>3

LEMMA OfferTypes ==
    ASSUME OfferTypeOK, [OfferNext]_offerVars
    PROVE  OfferTypeOK'
<1>9. /\ \A e \in Message : Append(messages, e) \in Seq(Message)
      /\ \A e \in Completion : /\ Append(completed, e) \in Seq(Completion)
                               /\ Len(Append(completed, e)) = Len(completed) + 1
      /\ messages \in Seq(Message)
  BY AppendProperties DEF OfferTypeOK
<1> USE DEF OfferTypeOK
<1>1. CASE SendHandshake
  <2>1. [command |-> "handshake"] \in Message
    BY DEF Message
  <2>. QED
    BY <1>1, <2>1 DEF SendHandshake, RequestHandshake, PostSend, parser, frame, announced, read
<1>2. CASE \E result \in BOOLEAN : OnHandshakeComplete(result)
  <2>1. [command |-> "request_offer"] \in Message
    BY DEF Message
  <2>2. messages' \in {messages, Append(messages, [command |-> "request_offer"])}
    BY <1>2 DEF OnHandshakeComplete, SendRequestOfferCommand, PostSend
  <2>3. connection' \in {"requested", "failed"}
    BY <1>2 DEF OnHandshakeComplete
  <2>4. messages' \in Seq(Message)
    BY <1>9, <2>1, <2>2
  <2>. QED
    BY <1>2, <2>3, <2>4 DEF OnHandshakeComplete, parser, frame, announced, read
<1>3. CASE \E missing \in {"json", "candidates", "id", "sdp"} : JsonDataFail(missing)
  <2>1. PICK missing \in {"json", "candidates", "id", "sdp"} : JsonDataFail(missing)
    BY <1>3
  <2>2. candidate' \in Candidates \cup {NoCandidate} /\ sessionId' \in Nat
    BY <2>1 DEF JsonDataFail, ParsingCandidate
  <2>. QED
    BY <2>1, <2>2 DEF JsonDataFail, parser, read
<1>4. CASE \E sdp \in Sdps : RecvOffer(sdp)
  <2>1. PICK sdp \in Sdps : RecvOffer(sdp)
    BY <1>4
  <2>2. sdp \in Seq(Line)
    BY <2>1, SignallingOfferAssumption
  <2>. QED
    BY <2>1, <2>2 DEF RecvOffer, ParsingCandidate, parser, announced, read
<1>5. CASE ParsingSdp
  <2>1. Head(unparsed) \in Line /\ Tail(unparsed) \in Seq(Line)
    BY <1>5 DEF ParsingSdp
  <2>2. ParsingMediaLine(Head(unparsed))
    BY <1>5 DEF ParsingSdp
  <2>3. /\ mlineInfos' \in Seq(MlineInfo)
        /\ currentMline' \in Seq(MlineInfo) /\ Len(currentMline') \in 0..1
        /\ credentials' \in [IceKinds -> Text]
    BY <2>1, <2>2, MediaLineTypes
  <2>. QED
    BY <1>5, <2>1, <2>3 DEF ParsingSdp, announced
<1>6. CASE SendAnswerCommand
  <2> DEFINE tracks == [i \in DOMAIN ParsedMlines |-> Track(ParsedMlines[i])]
             completion == [candidate |-> candidate, credentials |-> credentials, tracks |-> tracks]
  <2>1. ParsedMlines \in Seq(MlineInfo) /\ tracks \in Seq(TrackInfo)
    BY ParsedTypes
  <2> HIDE DEF tracks
  <2>2. completion \in Completion
    BY <2>1 DEF Completion
  <2>3. Answer \in Message
    <3>1. credentials["options"] \in Text
      BY DEF IceKinds
    <3>2. [command |-> "answer", id |-> sessionId, sections |-> ParsedMlines,
           options |-> credentials["options"]]
            \in [command : {"answer"}, id : Nat, sections : Seq(MlineInfo), options : Text]
      BY <2>1, <3>1
    <3>. QED
      BY <3>2 DEF Answer, Message
  <2>4. messages' \in Seq(Message)
    <3>1. messages' = messages \/ messages' = Append(messages, Answer)
      BY <1>6 DEF SendAnswerCommand, PostSend
    <3>. QED
      BY <1>9, <2>3, <3>1
  <2>5. completed' = Append(completed, completion) /\ mlineInfos' = <<>>
    BY <1>6 DEF SendAnswerCommand, CompleteOffer, tracks, completion
  <2> HIDE DEF completion
  <2>6. completed' \in Seq(Completion) /\ Len(completed') = Len(completed) + 1
    BY <1>9, <2>2, <2>5
  <2>7. answered' \in Seq(Nat) /\ Len(answered') = Len(answered) + 1
    BY <1>6 DEF SendAnswerCommand
  <2>8. /\ UNCHANGED <<connection, currentMline, credentials, candidate, sessionId, unparsed, failures, lines>>
        /\ parsing' = FALSE /\ mlineInfos' \in Seq(MlineInfo)
    BY <1>6, <2>5 DEF SendAnswerCommand
  <2>. QED
    BY <2>4, <2>6, <2>7, <2>8
<1>7. CASE PostClose
  BY <1>7 DEF PostClose, parser, frame, announced, read
<1>8. CASE UNCHANGED offerVars
  BY <1>8 DEF offerVars, parser, frame, announced, read
<1>. QED
  BY <1>1, <1>2, <1>3, <1>4, <1>5, <1>6, <1>7, <1>8 DEF OfferNext, OnRecvWebsocketData

LEMMA LineRead ==
    ASSUME OfferTypeOK, ParsingSdp
    PROVE  \E line \in Line : ParsingMediaLine(line) /\ lines' = Append(lines, line)
  BY DEF OfferTypeOK, ParsingSdp

LEMMA AnsweredStep ==
    ASSUME OfferTypeOK, AnsweredInv, [OfferNext]_offerVars
    PROVE  AnsweredInv'
<1>1. answered \in Seq(Nat) /\ Len(answered) \in Nat /\ lines \in Seq(Line) /\ Len(lines) \in Nat
  BY DEF OfferTypeOK
<1>2. CASE SendAnswerCommand
  <2> DEFINE n == Len(answered)
  <2>1. /\ answered' = Append(answered, Len(lines)) /\ lines' = lines /\ parsing' = FALSE
    BY <1>2 DEF SendAnswerCommand
  <2>2. /\ DOMAIN answered' = 1..(n + 1) /\ Len(answered') = n + 1 /\ answered' # <<>>
        /\ answered'[n + 1] = Len(lines) /\ \A k \in 1..n : answered'[k] = answered[k]
    BY <1>1, <2>1
  <2>3. AnsweredLines' = Len(lines)
    BY <2>2 DEF AnsweredLines
  <2>4. \A k \in 1..n : answered[k] \in 0..Len(lines)
    <3>1. AnsweredLines \in Nat
      BY <1>1 DEF AnsweredLines
    <3>. QED
      BY <1>1, <3>1 DEF AnsweredInv
  <2>5. \A k \in 1..(n + 1) : answered'[k] \in 0..Len(lines)
    BY <1>1, <2>2, <2>4
  <2>6. \A m, k \in 1..(n + 1) : m <= k => answered'[m] <= answered'[k]
    <3>1. SUFFICES ASSUME NEW m \in 1..(n + 1), NEW k \in 1..(n + 1), m <= k
                   PROVE  answered'[m] <= answered'[k]
      OBVIOUS
    <3>2. CASE k = n + 1
      BY <3>2, <2>2, <2>5
    <3>3. CASE k # n + 1
      <4>1. m \in 1..n /\ k \in 1..n
        BY <1>1, <3>1, <3>3
      <4>. QED
        BY <1>1, <2>2, <3>1, <4>1 DEF AnsweredInv
    <3>. QED
      BY <3>2, <3>3
  <2>. QED
    BY <1>1, <2>1, <2>2, <2>3, <2>5, <2>6 DEF AnsweredInv
<1>3. CASE ParsingSdp
  <2>1. UNCHANGED <<connection, parsing, sessionId, answered>>
    BY <1>3 DEF ParsingSdp
  <2>2. Len(lines') = Len(lines) + 1
    BY <1>1, <1>3, LineRead
  <2>3. AnsweredLines' = AnsweredLines /\ AnsweredLines \in Nat
    BY <1>1, <2>1 DEF AnsweredLines
  <2>. QED
    BY <1>1, <2>1, <2>2, <2>3 DEF AnsweredInv
<1>4. CASE UNCHANGED <<parser, completed, read>>
  <2>1. AnsweredLines' = AnsweredLines /\ answered' = answered /\ lines' = lines
    BY <1>4 DEF read, AnsweredLines
  <2>2. parsing' => sessionId' = Len(answered) + 1 /\ connection' \in {"requested", "closing"}
    <3>1. CASE ParsingSdp \/ SendAnswerCommand
      BY <3>1 DEF ParsingSdp, SendAnswerCommand, AnsweredInv
    <3>2. CASE OnRecvWebsocketData
      BY <3>2 DEF OnRecvWebsocketData, JsonDataFail, RecvOffer
    <3>3. CASE UNCHANGED <<parsing, sessionId>> /\ (parsing => connection' \in {"requested", "closing"})
      BY <3>3 DEF AnsweredInv
    <3>4. CASE SendHandshake \/ (\E result \in BOOLEAN : OnHandshakeComplete(result))
      BY <3>3, <3>4 DEF SendHandshake, OnHandshakeComplete, frame, AnsweredInv
    <3>5. CASE PostClose \/ UNCHANGED offerVars
      BY <3>3, <3>5 DEF PostClose, offerVars, frame, AnsweredInv
    <3>. QED
      BY <3>1, <3>2, <3>4, <3>5 DEF OfferNext
  <2>. QED
    BY <2>1, <2>2 DEF AnsweredInv
<1>. QED
  BY <1>2, <1>3, <1>4, Kinds

LEMMA MessagesStep ==
    ASSUME OfferTypeOK, AnsweredInv, MessagesInv, [OfferNext]_offerVars
    PROVE  MessagesInv'
<1>1. /\ messages \in Seq(Message) /\ Len(messages) \in Nat /\ answered \in Seq(Nat) /\ Len(answered) \in Nat
      /\ messages = <<>> <=> Len(messages) = 0
  BY DEF OfferTypeOK
<1>2. \A e : Len(Append(messages, e)) = Len(messages) + 1
  BY <1>1
<1>3. CASE SendHandshake
  BY <1>1, <1>2, <1>3 DEF SendHandshake, RequestHandshake, PostSend, MessagesInv, AnsweredInv, frame, read
<1>4. CASE \E result \in BOOLEAN : OnHandshakeComplete(result)
  <2>1. /\ connection = "connected" /\ Len(messages) # 0 /\ UNCHANGED <<parsing, answered>>
        /\ \/ connection' = "requested" /\ Len(messages') = Len(messages) + 1
           \/ connection' = "failed" /\ messages' = messages
    BY <1>1, <1>2, <1>4 DEF OnHandshakeComplete, SendRequestOfferCommand, PostSend, frame, read
  <2>2. Len(messages) <= 1 /\ answered = <<>> /\ ~parsing
    BY <2>1 DEF MessagesInv, AnsweredInv
  <2>3. Len(messages) = 1 /\ Len(answered) = 0
    <3>1. \A k \in Nat : k <= 1 /\ k # 0 => k = 1
      OBVIOUS
    <3>. QED
      BY <1>1, <2>1, <2>2, <3>1, EmptySeq
  <2>4. Len(messages') \in {1, 2} /\ (connection' = "requested" => Len(messages') = 2)
    BY <2>1, <2>3
  <2>. QED
    BY <2>1, <2>2, <2>3, <2>4 DEF MessagesInv
<1>5. CASE OnRecvWebsocketData
  BY <1>5 DEF OnRecvWebsocketData, JsonDataFail, RecvOffer, MessagesInv, read
<1>6. CASE ParsingSdp
  BY <1>6 DEF ParsingSdp, MessagesInv
<1>7. CASE SendAnswerCommand
  <2>1. Len(answered') = Len(answered) + 1
    BY <1>1, <1>7 DEF SendAnswerCommand
  <2>2. IF connection = "closing" THEN Len(messages') = Len(messages) ELSE Len(messages') = Len(messages) + 1
    BY <1>2, <1>7 DEF SendAnswerCommand, PostSend
  <2>3. UNCHANGED connection /\ parsing /\ ~parsing'
    BY <1>7 DEF SendAnswerCommand
  <2>. QED
    BY <1>1, <2>1, <2>2, <2>3 DEF MessagesInv, AnsweredInv
<1>8. CASE PostClose
  BY <1>8 DEF PostClose, MessagesInv, frame, read
<1>9. CASE UNCHANGED offerVars
  BY <1>9 DEF offerVars, MessagesInv, frame, read
<1>. QED
  BY <1>3, <1>4, <1>5, <1>6, <1>7, <1>8, <1>9 DEF OfferNext

LEMMA SectionsStep ==
    ASSUME OfferTypeOK, AnsweredInv, SectionsInv, [OfferNext]_offerVars
    PROVE  SectionsInv'
<1>1. /\ mlineInfos \in Seq(MlineInfo) /\ currentMline \in Seq(MlineInfo) /\ Len(currentMline) \in 0..1
      /\ lines \in Seq(Line) /\ credentials \in [IceKinds -> Text]
      /\ AnsweredLines \in 0..Len(lines)
  <2>1. answered \in Seq(Nat) /\ AnsweredLines \in Nat /\ Len(lines) \in Nat
    BY DEF OfferTypeOK, AnsweredLines
  <2>. QED
    BY <2>1 DEF OfferTypeOK, AnsweredInv
<1>2. Listed(mlineInfos \o currentMline, currentMline # <<>>, lines, AnsweredLines)
  BY DEF SectionsInv, ParsedMlines, Listed
<1>3. SUFFICES Listed(mlineInfos' \o currentMline', currentMline' # <<>>, lines', AnsweredLines')
  BY DEF SectionsInv, ParsedMlines, Listed
<1>4. CASE ParsingSdp
  <2>1. PICK line \in Line : ParsingMediaLine(line) /\ lines' = Append(lines, line)
    BY <1>4, LineRead
  <2>2. AnsweredLines' = AnsweredLines
    BY <1>4 DEF ParsingSdp, AnsweredLines
  <2>3. CASE MLine(line)
    <3> DEFINE new == [NewMline EXCEPT !.mline = line.value]
    <3>1. new \in MlineInfo
      BY <2>1 DEF NewMline, MlineInfo, Text, Line
    <3>2. mlineInfos \o currentMline \in Seq(MlineInfo)
      BY <1>1, ConcatProperties
    <3>3. mlineInfos' \o currentMline' = Append(mlineInfos \o currentMline, new) /\ currentMline' # <<>>
      BY <2>3, <3>1, <3>2, AppendIsConcat DEF MLine
    <3>4. Listed(Append(mlineInfos \o currentMline, new), TRUE, Append(lines, line), AnsweredLines)
      BY <1>1, <1>2, <2>1, <2>3, <3>2, SectionAdded DEF MLine
    <3>. QED
      BY <2>1, <2>2, <3>3, <3>4
  <2>4. CASE ~MLine(line)
    <3>1. line.kind # "m" /\ mlineInfos' = mlineInfos
      BY <2>1, <2>4 DEF ParsingMediaLine, MLine, Mid, Rtpmap, IceLine, parser, IceKinds
    <3>2. Len(currentMline') = Len(currentMline) /\ currentMline' \in Seq(MlineInfo)
      <4>1. currentMline' \in Seq(MlineInfo) /\ Len(currentMline') \in 0..1
        BY <2>1, MediaLineTypes
      <4>2. currentMline' = <<>> <=> currentMline = <<>>
        <5>1. CASE currentMline = <<>>
          BY <2>1, <2>4, <5>1 DEF ParsingMediaLine, Mid, Rtpmap, IceLine, parser
        <5>2. CASE currentMline # <<>>
          <6>1. 1 \in DOMAIN currentMline
            BY <1>1, <5>2
          <6>2. DOMAIN currentMline' = DOMAIN currentMline
            BY <2>1, <2>4, <5>2 DEF ParsingMediaLine, Mid, Rtpmap, IceLine, parser
          <6>3. DOMAIN <<>> = {}
            OBVIOUS
          <6>. QED
            BY <5>2, <6>1, <6>2, <6>3
        <5>. QED
          BY <5>1, <5>2
      <4>. QED
        BY <1>1, <4>1, <4>2, AtMostOne
    <3>3. currentMline # <<>> =>
              /\ currentMline'[1].mline = currentMline[1].mline
              /\ currentMline'[1].mid = IF line.kind = "mid" THEN line.value ELSE currentMline[1].mid
              /\ currentMline'[1].rtpmap = IF line.kind = "rtpmap" /\ currentMline[1].rtpmap = Empty
                                           THEN line.value ELSE currentMline[1].rtpmap
      <4>1. SUFFICES ASSUME currentMline # <<>>
                     PROVE  /\ currentMline'[1].mline = currentMline[1].mline
                            /\ currentMline'[1].mid = IF line.kind = "mid" THEN line.value
                                                      ELSE currentMline[1].mid
                            /\ currentMline'[1].rtpmap
                                  = IF line.kind = "rtpmap" /\ currentMline[1].rtpmap = Empty
                                    THEN line.value ELSE currentMline[1].rtpmap
        OBVIOUS
      <4>2. 1 \in DOMAIN currentMline /\ currentMline[1] \in MlineInfo
        BY <1>1, <4>1
      <4>3. CASE Mid(line)
        <5>1. line.kind = "mid" /\ currentMline' = [currentMline EXCEPT ![1].mid = line.value]
          BY <4>1, <4>3 DEF Mid
        <5>. QED
          BY <4>2, <5>1 DEF MlineInfo
      <4>4. CASE Rtpmap(line) /\ currentMline[1].rtpmap = Empty
        <5>1. line.kind = "rtpmap" /\ currentMline' = [currentMline EXCEPT ![1].rtpmap = line.value]
          BY <4>1, <4>4 DEF Rtpmap
        <5>. QED
          BY <4>2, <4>4, <5>1 DEF MlineInfo
      <4>5. CASE Rtpmap(line) /\ currentMline[1].rtpmap # Empty
        BY <4>5 DEF Rtpmap
      <4>6. CASE line.kind \in IceKinds \cup {"other"} /\ currentMline' = currentMline
        BY <4>6 DEF IceKinds
      <4>. QED
        BY <2>1, <2>4, <4>3, <4>4, <4>5, <4>6 DEF ParsingMediaLine, IceLine, parser
    <3>4. Listed(mlineInfos \o currentMline', currentMline' # <<>>, Append(lines, line), AnsweredLines)
      BY <1>1, <1>2, <2>1, <3>1, <3>2, <3>3, CurrentSays
    <3>. QED
      BY <2>1, <2>2, <3>1, <3>4
  <2>. QED
    BY <2>3, <2>4
<1>5. CASE SendAnswerCommand
  <2>1. mlineInfos' = <<>> /\ currentMline' = currentMline /\ lines' = lines
    BY <1>5 DEF SendAnswerCommand, CompleteOffer
  <2>2. AnsweredLines' = Len(lines)
    <3>1. answered \in Seq(Nat) /\ Len(lines) \in Nat /\ answered' = Append(answered, Len(lines))
      BY <1>1, <1>5 DEF OfferTypeOK, SendAnswerCommand
    <3>2. answered' # <<>> /\ answered'[Len(answered')] = Len(lines)
      BY <3>1
    <3>. QED
      BY <3>2 DEF AnsweredLines
  <2>3. <<>> \o currentMline = currentMline
    BY <1>1, ConcatEmptySeq
  <2>. QED
    BY <1>1, <1>2, <2>1, <2>2, <2>3, CarriedOver
<1>6. CASE UNCHANGED <<parser, completed, read>>
  <2>1. UNCHANGED <<mlineInfos, currentMline, lines, AnsweredLines>>
    BY <1>6 DEF parser, read, AnsweredLines
  <2>. QED
    BY <1>2, <2>1
<1>. QED
  BY <1>4, <1>5, <1>6, Kinds

(* Of each kind, the first value of all lines is kept.                       *)
LEMMA CredentialsStep ==
    ASSUME OfferTypeOK, CredentialsInv, [OfferNext]_offerVars
    PROVE  CredentialsInv'
<1> DEFINE Of(ls, kind) == {i \in 1..Len(ls) : ls[i].kind = kind}
<1>1. CASE ParsingSdp
  <2>1. PICK line \in Line : ParsingMediaLine(line) /\ lines' = Append(lines, line)
    BY <1>1, LineRead
  <2>2. lines \in Seq(Line) /\ credentials \in [IceKinds -> Text]
    BY DEF OfferTypeOK
  <2>3. \A kind : Of(lines', kind) = IF line.kind = kind THEN Of(lines, kind) \cup {Len(lines) + 1}
                                     ELSE Of(lines, kind)
    <3>1. /\ Len(lines) \in Nat /\ Len(lines') = Len(lines) + 1 /\ lines'[Len(lines) + 1] = line
          /\ \A i \in 1..Len(lines) : lines'[i] = lines[i]
      BY <2>1, <2>2, Appended
    <3>2. \A i \in 1..(Len(lines) + 1) : i \in 1..Len(lines) \/ i = Len(lines) + 1
      BY <3>1
    <3>3. Len(lines) + 1 \in 1..(Len(lines) + 1) /\ 1..Len(lines) \subseteq 1..(Len(lines) + 1)
      BY <3>1
    <3>. QED
      BY <3>1, <3>2, <3>3
  <2>4. \A kind : Of(lines, kind) \in SUBSET (1..Len(lines))
    OBVIOUS
  <2>5. SUFFICES ASSUME NEW kind \in IceKinds PROVE IsFirst(credentials'[kind], lines', Of(lines', kind))
    BY DEF CredentialsInv
  <2>6. IsFirst(credentials[kind], lines, Of(lines, kind))
    BY <2>5 DEF CredentialsInv
  <2>7. CASE line.kind = kind
    <3>1. credentials'[kind] = IF credentials[kind] = Empty THEN line.value ELSE credentials[kind]
      BY <2>1, <2>2, <2>5, <2>7 DEF ParsingMediaLine, MLine, Mid, Rtpmap, IceLine, IceKinds
    <3>2. IsFirst(IF credentials[kind] = Empty THEN line.value ELSE credentials[kind],
                  Append(lines, line), Of(lines, kind) \cup {Len(lines) + 1})
      BY <2>2, <2>4, <2>6, FirstExtended
    <3>. QED
      BY <2>1, <2>3, <2>7, <3>1, <3>2
  <2>8. CASE line.kind # kind
    <3>1. credentials'[kind] = credentials[kind]
      BY <2>1, <2>2, <2>5, <2>8 DEF ParsingMediaLine, MLine, Mid, Rtpmap, IceLine, parser
    <3>2. IsFirst(credentials[kind], Append(lines, line), Of(lines, kind))
      BY <2>2, <2>4, <2>6, FirstStays
    <3>. QED
      BY <2>1, <2>3, <2>8, <3>1, <3>2
  <2>. QED
    BY <2>7, <2>8
<1>2. CASE UNCHANGED <<credentials, lines>>
  BY <1>2 DEF CredentialsInv
<1>. QED
  BY <1>1, <1>2, Kinds DEF SendAnswerCommand, parser, read

(* What a list says of the lines up to end does not depend on later ones.    *)
LEMMA ListStays ==
    ASSUME NEW ls \in Seq(Line), NEW l \in Line, NEW begin \in 0..Len(ls), NEW end \in 0..Len(ls), NEW ms
    PROVE  /\ ListsSections(ms, ls, begin, end) => ListsSections(ms, Append(ls, l), begin, end)
           /\ ListsTracks(ms, ls, begin, end) => ListsTracks(ms, Append(ls, l), begin, end)
<1>1. Mlines(Append(ls, l), begin, end) = Mlines(ls, begin, end)
  BY MlinesStay
<1>2. \A at : InOrder(at, ls, begin, end) => InOrder(at, Append(ls, l), begin, end)
  BY <1>1 DEF InOrder
<1>3. \A i \in Mlines(ls, begin, end) :
        /\ \A m : IsSection(m, ls, i, end) => IsSection(m, Append(ls, l), i, end)
        /\ \A m : IsTrack(m, ls, i, end) => IsTrack(m, Append(ls, l), i, end)
  BY SectionStays DEF Mlines
<1>4. \A at \in [DOMAIN ms -> Mlines(ls, begin, end)] : \A k \in DOMAIN ms : at[k] \in Mlines(ls, begin, end)
  OBVIOUS
<1>. QED
  BY <1>1, <1>2, <1>3, <1>4 DEF ListsSections, ListsTracks, SectionsOf

(* The same for the n-th offer answered.                                     *)
LEMMA Bounds ==
    ASSUME OfferTypeOK, AnsweredInv, NEW n \in DOMAIN answered
    PROVE  /\ AnsweredBefore(n) \in 0..Len(lines) /\ answered[n] \in 0..Len(lines)
           /\ AnsweredBefore(n) <= answered[n]
<1>1. /\ answered \in Seq(Nat) /\ DOMAIN answered = 1..Len(answered) /\ Len(answered) \in Nat
      /\ AnsweredLines \in Nat /\ lines \in Seq(Line) /\ Len(lines) \in Nat
  BY DEF OfferTypeOK, AnsweredLines
<1>2. \A m \in DOMAIN answered : answered[m] \in 0..Len(lines)
  BY <1>1 DEF AnsweredInv
<1>3. CASE n = 1
  BY <1>1, <1>2, <1>3 DEF AnsweredBefore
<1>4. CASE n # 1
  <2>1. n - 1 \in DOMAIN answered /\ n - 1 <= n
    BY <1>1, <1>4
  <2>. QED
    BY <1>1, <1>2, <1>4, <2>1 DEF AnsweredBefore, AnsweredInv
<1>. QED
  BY <1>3, <1>4

LEMMA AnsweredStays ==
    ASSUME OfferTypeOK, AnsweredInv, [OfferNext]_offerVars, NEW n \in DOMAIN answered
    PROVE  /\ n \in DOMAIN answered' /\ answered'[n] = answered[n] /\ AnsweredBefore(n)' = AnsweredBefore(n)
           /\ \A ms : /\ ListsSections(ms, lines, AnsweredBefore(n), answered[n])
                            => ListsSections(ms, lines', AnsweredBefore(n), answered[n])
                      /\ ListsTracks(ms, lines, AnsweredBefore(n), answered[n])
                            => ListsTracks(ms, lines', AnsweredBefore(n), answered[n])
           /\ \A value, kind :
                IsFirst(value, lines, {i \in 1..answered[n] : lines[i].kind = kind})
                  => IsFirst(value, lines', {i \in 1..answered[n] : lines'[i].kind = kind})
<1>1. /\ answered \in Seq(Nat) /\ DOMAIN answered = 1..Len(answered) /\ Len(answered) \in Nat
      /\ lines \in Seq(Line) /\ Len(lines) \in Nat
  BY DEF OfferTypeOK
<1>2. n \in DOMAIN answered' /\ answered'[n] = answered[n] /\ (n # 1 => answered'[n - 1] = answered[n - 1])
  <2>1. answered' = answered \/ answered' = Append(answered, Len(lines))
    BY Kinds DEF ParsingSdp, SendAnswerCommand, read
  <2>2. n \in 1..Len(answered) /\ (n # 1 => n - 1 \in 1..Len(answered))
    BY <1>1
  <2>3. \A k \in 1..Len(answered) : Append(answered, Len(lines))[k] = answered[k]
    BY <1>1
  <2>4. 1..Len(answered) \subseteq DOMAIN Append(answered, Len(lines))
    BY <1>1
  <2>. QED
    BY <1>1, <2>1, <2>2, <2>3, <2>4
<1>3. AnsweredBefore(n)' = AnsweredBefore(n)
  BY <1>2 DEF AnsweredBefore
<1>4. CASE lines' = lines
  BY <1>2, <1>3, <1>4
<1>5. CASE \E line \in Line : lines' = Append(lines, line)
  <2>1. PICK line \in Line : lines' = Append(lines, line)
    BY <1>5
  <2>2. AnsweredBefore(n) \in 0..Len(lines) /\ answered[n] \in 0..Len(lines)
    BY Bounds
  <2>3. \A ms : /\ ListsSections(ms, lines, AnsweredBefore(n), answered[n])
                      => ListsSections(ms, lines', AnsweredBefore(n), answered[n])
                /\ ListsTracks(ms, lines, AnsweredBefore(n), answered[n])
                      => ListsTracks(ms, lines', AnsweredBefore(n), answered[n])
    BY <1>1, <2>1, <2>2, ListStays
  <2>5. ASSUME NEW value, NEW kind, IsFirst(value, lines, {i \in 1..answered[n] : lines[i].kind = kind})
        PROVE  IsFirst(value, lines', {i \in 1..answered[n] : lines'[i].kind = kind})
    <3>1. 1..answered[n] \subseteq 1..Len(lines)
      BY <1>1, <2>2
    <3>2. \A i \in 1..Len(lines) : lines'[i] = lines[i]
      BY <1>1, <2>1, Appended
    <3>3. /\ {i \in 1..answered[n] : lines'[i].kind = kind} = {i \in 1..answered[n] : lines[i].kind = kind}
          /\ {i \in 1..answered[n] : lines[i].kind = kind} \in SUBSET (1..Len(lines))
      BY <3>1, <3>2
    <3>. QED
      BY <1>1, <2>1, <2>5, <3>3, FirstStays
  <2>. QED
    BY <1>2, <1>3, <2>3, <2>5
<1>6. lines' = lines \/ \E line \in Line : lines' = Append(lines, line)
  BY Kinds, LineRead DEF SendAnswerCommand, read
<1>. QED
  BY <1>2, <1>3, <1>4, <1>5, <1>6

(* The answer, and the tracks announced, are those of the sections the       *)
(* parser holds.                                                             *)
LEMMA AnswerLists ==
    ASSUME OfferTypeOK, SectionsInv
    PROVE  /\ ListsSections(ParsedMlines, lines, AnsweredLines, Len(lines))
           /\ ListsTracks([i \in DOMAIN ParsedMlines |-> Track(ParsedMlines[i])],
                          lines, AnsweredLines, Len(lines))
<1> DEFINE tracks == [i \in DOMAIN ParsedMlines |-> Track(ParsedMlines[i])]
<1>1. PICK at \in [DOMAIN ParsedMlines -> Mlines(lines, AnsweredLines, Len(lines))] :
          SectionsOf(ParsedMlines, at, lines, AnsweredLines, Len(lines))
  BY DEF SectionsInv
<1>2. ListsSections(ParsedMlines, lines, AnsweredLines, Len(lines))
  BY <1>1 DEF ListsSections
<1>3. \A k \in DOMAIN ParsedMlines : IsTrack(Track(ParsedMlines[k]), lines, at[k], Len(lines))
  BY <1>1 DEF SectionsOf, IsSection, IsTrack, Track
<1>4. DOMAIN tracks = DOMAIN ParsedMlines /\ \A k \in DOMAIN tracks : tracks[k] = Track(ParsedMlines[k])
  OBVIOUS
<1>. QED
  BY <1>1, <1>2, <1>3, <1>4 DEF ListsTracks, SectionsOf

(* The offer that is answered is the one behind those answered before.       *)
LEMMA NewlyAnswered ==
    ASSUME OfferTypeOK, SendAnswerCommand, NEW n, n = Len(answered) + 1
    PROVE  /\ n \in DOMAIN answered' /\ answered'[n] = Len(lines) /\ lines' = lines
           /\ AnsweredBefore(n)' = AnsweredLines
<1>1. answered \in Seq(Nat) /\ Len(answered) \in Nat /\ Len(lines) \in Nat
  BY DEF OfferTypeOK
<1>2. answered' = Append(answered, Len(lines)) /\ lines' = lines
  BY DEF SendAnswerCommand
<1>3. n \in DOMAIN answered' /\ answered'[n] = Len(lines)
  BY <1>1, <1>2
<1>4. CASE answered = <<>>
  <2>1. n = 1
    BY <1>4, EmptySeq
  <2>. QED
    BY <1>2, <1>3, <1>4, <2>1 DEF AnsweredBefore, AnsweredLines
<1>5. CASE answered # <<>>
  <2>1. n # 1 /\ n - 1 = Len(answered) /\ Len(answered) \in 1..Len(answered)
    BY <1>1, <1>5, EmptySeq
  <2>2. answered'[Len(answered)] = answered[Len(answered)]
    BY <1>1, <1>2, <2>1
  <2>. QED
    BY <1>2, <1>3, <1>5, <2>1, <2>2 DEF AnsweredBefore, AnsweredLines
<1>. QED
  BY <1>2, <1>3, <1>4, <1>5

LEMMA AnswerMirrorsStep ==
    ASSUME OfferTypeOK, AnsweredInv, MessagesInv, SectionsInv, AnswerMirrorsOffer, [OfferNext]_offerVars
    PROVE  AnswerMirrorsOffer'
<1>1. /\ messages \in Seq(Message) /\ Len(messages) \in Nat
      /\ answered \in Seq(Nat) /\ Len(answered) \in Nat /\ DOMAIN answered = 1..Len(answered)
  BY DEF OfferTypeOK
<1> DEFINE Good(n) == /\ messages'[n + 2].id = n
                      /\ ListsSections(messages'[n + 2].sections, lines', AnsweredBefore(n)', answered'[n])
<1>2. ASSUME NEW n \in 1..(Len(messages) - 2), messages'[n + 2] = messages[n + 2]
      PROVE  Good(n)
  <2>1. n \in DOMAIN answered
    BY <1>1 DEF MessagesInv
  <2>2. /\ messages[n + 2].id = n
        /\ ListsSections(messages[n + 2].sections, lines, AnsweredBefore(n), answered[n])
    BY <1>2 DEF AnswerMirrorsOffer
  <2>3. /\ answered'[n] = answered[n] /\ AnsweredBefore(n)' = AnsweredBefore(n)
        /\ \A ms : ListsSections(ms, lines, AnsweredBefore(n), answered[n])
                      => ListsSections(ms, lines', AnsweredBefore(n), answered[n])
    BY <2>1, AnsweredStays
  <2>. QED
    BY <1>2, <2>2, <2>3
<1>3. \A e : /\ Len(Append(messages, e)) = Len(messages) + 1
             /\ \A k \in 1..Len(messages) : Append(messages, e)[k] = messages[k]
             /\ Append(messages, e)[Len(messages) + 1] = e
  BY <1>1
<1>4. SUFFICES \A n \in 1..(Len(messages') - 2) : Good(n)
  BY OfferTypes DEF AnswerMirrorsOffer
<1>5. CASE messages' = messages
  BY <1>2, <1>5
<1>6. CASE SendAnswerCommand /\ messages' # messages
  <2>1. messages' = Append(messages, Answer) /\ parsing
    BY <1>6 DEF SendAnswerCommand, PostSend
  <2>2. Len(messages) = Len(answered) + 2 /\ sessionId = Len(answered) + 1
    BY <2>1 DEF MessagesInv, AnsweredInv
  <2>3. SUFFICES ASSUME NEW n \in 1..(Len(messages') - 2) PROVE Good(n)
    OBVIOUS
  <2>4. n \in 1..(Len(answered) + 1) /\ Len(messages') = Len(messages) + 1
    BY <1>1, <1>3, <2>1, <2>2, <2>3
  <2>5. CASE n = Len(answered) + 1
    <3>1. messages'[n + 2] = Answer
      BY <1>1, <1>3, <2>1, <2>2, <2>5
    <3>2. ListsSections(ParsedMlines, lines', AnsweredBefore(n)', answered'[n])
      BY <1>6, <2>5, AnswerLists, NewlyAnswered
    <3>3. Answer.id = n /\ Answer.sections = ParsedMlines
      BY <2>2, <2>5 DEF Answer
    <3>. QED
      BY <3>1, <3>2, <3>3
  <2>6. CASE n # Len(answered) + 1
    <3>1. n \in 1..(Len(messages) - 2) /\ n + 2 \in 1..Len(messages)
      BY <1>1, <2>2, <2>4, <2>6
    <3>2. messages'[n + 2] = messages[n + 2]
      BY <1>3, <2>1, <3>1
    <3>. QED
      BY <1>2, <3>1, <3>2
  <2>. QED
    BY <2>5, <2>6
<1>7. CASE connection = "connected" /\ Len(messages') <= Len(messages) + 1
  <2>1. Len(messages) <= 1
    BY <1>7 DEF MessagesInv
  <2>2. messages' \in Seq(Message)
    BY OfferTypes DEF OfferTypeOK
  <2>3. Len(messages') \in Nat
    BY <2>2
  <2>4. \A k, m \in Nat : k <= 1 /\ m <= k + 1 => 1..(m - 2) = {}
    OBVIOUS
  <2>. QED
    BY <1>1, <1>7, <2>1, <2>3, <2>4
<1>8. \/ messages' = messages \/ SendAnswerCommand
      \/ connection = "connected" /\ Len(messages') <= Len(messages) + 1
  <2>1. CASE SendHandshake \/ \E result \in BOOLEAN : OnHandshakeComplete(result)
    <3>1. connection = "connected"
      BY <2>1 DEF SendHandshake, OnHandshakeComplete
    <3>2. messages' = messages \/ \E e : messages' = Append(messages, e)
      BY <2>1 DEF SendHandshake, RequestHandshake, OnHandshakeComplete, SendRequestOfferCommand, PostSend
    <3>3. messages' = messages \/ Len(messages') = Len(messages) + 1
      BY <1>3, <3>2
    <3>. QED
      BY <1>1, <3>1, <3>3
  <2>2. CASE OnRecvWebsocketData \/ ParsingSdp \/ PostClose \/ UNCHANGED offerVars
    BY <2>2 DEF OnRecvWebsocketData, JsonDataFail, RecvOffer, ParsingSdp, PostClose, offerVars
  <2>. QED
    BY <2>1, <2>2 DEF OfferNext
<1>. QED
  BY <1>5, <1>6, <1>7, <1>8

LEMMA SessionMatchesStep ==
    ASSUME OfferTypeOK, AnsweredInv, SectionsInv, CredentialsInv, SessionMatchesOffers, [OfferNext]_offerVars
    PROVE  SessionMatchesOffers'
<1>1. /\ completed \in Seq(Completion) /\ DOMAIN completed = 1..Len(answered)
      /\ answered \in Seq(Nat) /\ Len(answered) \in Nat /\ DOMAIN answered = 1..Len(answered)
  BY DEF OfferTypeOK
<1> DEFINE Good(c, n) ==
              /\ ListsTracks(c.tracks, lines', AnsweredBefore(n)', answered'[n])
              /\ \A kind \in IceKinds :
                    IsFirst(c.credentials[kind], lines', {i \in 1..answered'[n] : lines'[i].kind = kind})
<1>2. ASSUME NEW n \in 1..Len(answered) PROVE Good(completed[n], n)
  <2>1. n \in DOMAIN answered /\ n \in DOMAIN completed
    BY <1>1
  <2>2. /\ ListsTracks(completed[n].tracks, lines, AnsweredBefore(n), answered[n])
        /\ \A kind \in IceKinds :
              IsFirst(completed[n].credentials[kind], lines, {i \in 1..answered[n] : lines[i].kind = kind})
    BY <2>1 DEF SessionMatchesOffers
  <2>3. /\ answered'[n] = answered[n] /\ AnsweredBefore(n)' = AnsweredBefore(n)
        /\ \A ms : ListsTracks(ms, lines, AnsweredBefore(n), answered[n])
                      => ListsTracks(ms, lines', AnsweredBefore(n), answered[n])
        /\ \A value, kind :
              IsFirst(value, lines, {i \in 1..answered[n] : lines[i].kind = kind})
                => IsFirst(value, lines', {i \in 1..answered[n] : lines'[i].kind = kind})
    BY <2>1, AnsweredStays
  <2>. QED
    BY <2>2, <2>3
<1>3. SUFFICES \A n \in DOMAIN completed' : Good(completed'[n], n)
  BY DEF SessionMatchesOffers
<1>4. CASE completed' = completed
  BY <1>1, <1>2, <1>4
<1>5. CASE SendAnswerCommand
  <2> DEFINE tracks == [i \in DOMAIN ParsedMlines |-> Track(ParsedMlines[i])]
             c == [candidate |-> candidate, credentials |-> credentials, tracks |-> tracks]
  <2>7. PICK last : last = Len(answered) + 1
    OBVIOUS
  <2>1. completed' = Append(completed, c)
    BY <1>5 DEF SendAnswerCommand, CompleteOffer
  <2>2. c.tracks = tracks /\ c.credentials = credentials
    OBVIOUS
  <2> HIDE DEF c
  <2>3. /\ DOMAIN completed' = 1..last /\ completed'[last] = c
        /\ \A n \in 1..Len(answered) : completed'[n] = completed[n]
    BY <1>1, <2>1, <2>7 DEF OfferTypeOK
  <2>4. Good(c, last)
    <3>2. answered'[last] = Len(lines) /\ lines' = lines /\ AnsweredBefore(last)' = AnsweredLines
      BY <1>5, <2>7, NewlyAnswered
    <3>3. ListsTracks(tracks, lines, AnsweredLines, Len(lines))
      BY AnswerLists
    <3>4. ListsTracks(c.tracks, lines', AnsweredBefore(last)', answered'[last])
      BY <2>2, <3>2, <3>3
    <3>5. \A kind \in IceKinds :
              IsFirst(c.credentials[kind], lines', {i \in 1..answered'[last] : lines'[i].kind = kind})
      BY <2>2, <3>2 DEF CredentialsInv
    <3>. QED
      BY <3>4, <3>5
  <2>5. SUFFICES ASSUME NEW n \in 1..last PROVE Good(completed'[n], n)
    BY <2>3
  <2>6. n \in 1..Len(answered) \/ n = last
    BY <1>1, <2>7
  <2>. QED
    BY <1>2, <2>3, <2>4, <2>6
<1>6. completed' = completed \/ SendAnswerCommand
  BY Kinds DEF ParsingSdp, announced
<1>. QED
  BY <1>4, <1>5, <1>6

LEMMA InitOfferInv == OfferInit => OfferInv
<1>. SUFFICES ASSUME OfferInit PROVE OfferInv
  OBVIOUS
<1> USE DEF OfferInit
<1>1. OfferTypeOK
  <2>1. \A S : <<>> \in Seq(S) /\ Len(<<>>) = 0
    BY EmptySeq
  <2>2. Len(<<>>) \in 0..1
    BY <2>1
  <2>3. [kind \in IceKinds |-> Empty] \in [IceKinds -> Text]
    BY DEF Text
  <2>. QED
    BY <2>1, <2>2, <2>3 DEF OfferTypeOK
<1>2. Len(lines) = 0 /\ DOMAIN lines = {} /\ 1..Len(lines) = {} /\ AnsweredLines = 0
  BY EmptySeq DEF AnsweredLines
<1>3. ParsedMlines = <<>> /\ DOMAIN ParsedMlines = {}
  BY ConcatEmptySeq, EmptySeq DEF ParsedMlines
<1>4. SectionsInv
  <2>1. Mlines(lines, 0, 0) = {}
    BY DEF Mlines
  <2> DEFINE none == [k \in {} |-> 0]
  <2>2. none \in [DOMAIN ParsedMlines -> Mlines(lines, 0, 0)]
    BY <1>3, <2>1
  <2>3. SectionsOf(ParsedMlines, none, lines, 0, 0)
    BY <1>3, <2>1 DEF SectionsOf, InOrder
  <2>. QED
    BY <1>2, <2>2, <2>3 DEF SectionsInv
<1>5. CredentialsInv
  BY <1>2 DEF CredentialsInv, IsFirst
<1>6. AnsweredInv /\ MessagesInv
  BY <1>2, EmptySeq DEF AnsweredInv, MessagesInv
<1>7. AnswerMirrorsOffer /\ SessionMatchesOffers
  <2>1. Len(messages) = 0 /\ DOMAIN completed = {}
    BY EmptySeq
  <2>. QED
    BY <1>1, <2>1 DEF AnswerMirrorsOffer, SessionMatchesOffers
<1>. QED
  BY <1>4, <1>5, <1>6, <1>7 DEF OfferInv

LEMMA NextOfferInv == OfferInv /\ [OfferNext]_offerVars => OfferInv'
<1>. SUFFICES ASSUME OfferInv, [OfferNext]_offerVars PROVE OfferInv'
  OBVIOUS
<1>1. OfferTypeOK
  BY DEF OfferInv, AnswerMirrorsOffer
<1>. QED
  BY <1>1, AnsweredStep, MessagesStep, SectionsStep, CredentialsStep, AnswerMirrorsStep, SessionMatchesStep
     DEF OfferInv

(* Of the tracks of a type the last counts, and the carried one comes first. *)
LEMMA OwnTracksUsed == OfferInv => SessionUsesOwnTracks
<1>. SUFFICES ASSUME OfferInv, NEW n \in DOMAIN completed,
                     NEW i \in (AnsweredBefore(n) + 1)..answered[n],
                     IsMline(lines, i), lines[i].value \in SessionTypes,
                     \A j \in (i + 1)..answered[n] : IsMline(lines, j) => lines[j].value # lines[i].value
              PROVE  IsTrack(SessionTracks(completed[n].tracks)[lines[i].value], lines, i, answered[n])
  BY DEF SessionUsesOwnTracks
<1> DEFINE ts == completed[n].tracks
           type == lines[i].value
           begin == AnsweredBefore(n)
           end == answered[n]
<1>1. n \in DOMAIN answered /\ begin \in Nat /\ end \in Nat /\ ts \in Seq(TrackInfo)
  <2>1. OfferTypeOK /\ AnsweredInv
    BY DEF OfferInv, AnswerMirrorsOffer
  <2>2. n \in DOMAIN answered /\ completed[n] \in Completion
    BY <2>1 DEF OfferTypeOK
  <2>3. lines \in Seq(Line) /\ Len(lines) \in Nat
    BY <2>1 DEF OfferTypeOK
  <2>4. begin \in 0..Len(lines) /\ end \in 0..Len(lines)
    BY <2>1, <2>2, Bounds
  <2>. QED
    BY <2>2, <2>3, <2>4 DEF Completion
<1>2. PICK at \in [DOMAIN ts -> Mlines(lines, begin, end)] :
          InOrder(at, lines, begin, end) /\ \A k \in DOMAIN ts : IsTrack(ts[k], lines, at[k], end)
  BY DEF OfferInv, SessionMatchesOffers, ListsTracks
<1>3. i \in Mlines(lines, begin, end)
  BY <1>1 DEF Mlines
<1>4. PICK k \in DOMAIN ts : at[k] = i
  BY <1>2, <1>3 DEF InOrder
<1>5. ts[k].type = type /\ IsTrack(ts[k], lines, i, end)
  BY <1>2, <1>4 DEF IsTrack
<1>6. \A l \in DOMAIN ts : ts[l].type = type => l <= k
  <2>1. SUFFICES ASSUME NEW l \in DOMAIN ts, ts[l].type = type PROVE l <= k
    OBVIOUS
  <2>2. l \in Nat /\ k \in Nat
    BY <1>1
  <2>3. at[l] \in 1..end /\ IsMline(lines, at[l])
    BY <1>2 DEF Mlines
  <2>4. lines[at[l]].value = type
    <3>1. ts[l].type = IF lines[at[l]].value \in SessionTypes THEN lines[at[l]].value ELSE "unknown"
      BY <1>2 DEF IsTrack
    <3>2. "unknown" \notin SessionTypes
      BY DEF SessionTypes
    <3>. QED
      BY <2>1, <3>1, <3>2
  <2>5. at[l] <= i
    BY <1>1, <2>3, <2>4
  <2>6. k < l => i < at[l]
    BY <1>2, <1>4 DEF InOrder
  <2>. QED
    BY <1>1, <2>2, <2>3, <2>5, <2>6
<1>7. SessionTracks(ts)[type] = ts[k]
  <2>1. k \in OfType(ts, type) /\ \A l \in OfType(ts, type) : l <= k /\ l \in Nat
    BY <1>1, <1>5, <1>6 DEF OfType
  <2>2. \A m \in OfType(ts, type) : (\A l \in OfType(ts, type) : l <= m) => m = k
    BY <2>1
  <2>3. (CHOOSE m \in OfType(ts, type) : \A l \in OfType(ts, type) : l <= m) = k
    BY <2>1, <2>2
  <2>. QED
    BY <2>1, <2>3 DEF SessionTracks
<1>. QED
  BY <1>5, <1>7

(* An answer has the sections of its offer, in order, behind the one carried *)
(* over from the offers before it, however the lines are ordered and         *)
(* whenever another thread closes the connection.                            *)
THEOREM AnswersMirrorOffers == OfferSpec => []AnswerMirrorsOffer
<1>1. OfferInv => AnswerMirrorsOffer
  BY DEF OfferInv
<1>. QED
  BY <1>1, InitOfferInv, NextOfferInv, PTL DEF OfferSpec

(* A session is announced with the tracks of these sections, and with the    *)
(* first ICE credentials the connection was given.                           *)
THEOREM SessionsMatchOffers == OfferSpec => []SessionMatchesOffers
<1>1. OfferInv => SessionMatchesOffers
  BY DEF OfferInv
<1>. QED
  BY <1>1, InitOfferInv, NextOfferInv, PTL DEF OfferSpec

(* A session measures the tracks of its own offer, wherever it has them.     *)
THEOREM SessionsUseOwnTracks == OfferSpec => []SessionUsesOwnTracks
  BY OwnTracksUsed, InitOfferInv, NextOfferInv, PTL DEF OfferSpec
=============================================================================
