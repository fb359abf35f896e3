----------------------- MODULE OmeStreamObject_proofs -----------------------
(***************************************************************************)
(* Proofs about a media session, for handshakes of any length and any      *)
(* number of transaction ids and stray datagrams: what the server sends    *)
(* always finds the transport, nothing stays in the buffer while OpenSSL   *)
(* works, and what MainObject is told implements SessionSetup.             *)
(*                                                                         *)
(* One lemma per conjunct of IInv. The handlers of a datagram share        *)
(* OnReceive, Handle and what StartDTLS and OpenSSL do; each of these has  *)
(* a lemma of its own.                                                     *)
(***************************************************************************)
EXTENDS OmeStreamObject, SequenceTheorems, TLAPS

USE OmeStreamObjectAssumption
    DEF object, udp, thread, stun, dtls, network, program, NoId, OwnId, OtherId, Failed, Tracks

----------------------------------------------------------------------------
(* Datagrams.                                                                *)

LEMMA RequestType == Request \in Datagrams
  BY DEF Request, Datagrams

LEMMA FlightType ==
    ASSUME NEW n \in 1..Flights
    PROVE  Flight(n) \in Datagrams
  BY DEF Flight, Datagrams

LEMMA SuccessType ==
    ASSUME NEW id \in OtherId..MaxRequests
    PROVE  [type |-> "success", id |-> id] \in Datagrams
  BY DEF Datagrams

LEMMA RequestOfServerType ==
    ASSUME NEW id \in 1..MaxRequests
    PROVE  [type |-> "request", id |-> id] \in Datagrams
  BY DEF Datagrams

(* The number of a flight and the id of a STUN message.                      *)
LEMMA FieldTypes ==
    ASSUME NEW d \in Datagrams
    PROVE  /\ d.type = "flight" => d.n \in 1..Flights
           /\ d.type \in {"request", "success"} => d.id \in OtherId..MaxRequests
  BY DEF Datagrams

LEMMA AmbientType ==
    ASSUME TypeOK
    PROVE  Ambient \subseteq Datagrams
<1>1. [type |-> "success", id |-> OwnId] \in Datagrams
  BY SuccessType
<1>2. [type |-> "alert"] \in Datagrams /\ [type |-> "rtp"] \in Datagrams
  BY DEF Datagrams
<1>. QED
  BY <1>1, <1>2 DEF Ambient

(* The buffer holds nothing or one datagram.                                 *)
LEMMA OneDatagram ==
    ASSUME NEW d \in Datagrams
    PROVE  <<d>> \in Seq(Datagrams) /\ Len(<<d>>) = 1
  OBVIOUS

LEMMA NoDatagram == <<>> \in Seq(Datagrams) /\ Len(<<>>) = 0
  BY EmptySeq

LEMMA AtMostOneDatagram ==
    ASSUME NEW s \in Seq(Datagrams), Len(s) \in {0, 1}, s # <<>>
    PROVE  Len(s) = 1
  BY EmptySeq

LEMMA TakeOneDatagram ==
    ASSUME NEW s \in Seq(Datagrams), Len(s) = 1
    PROVE  Head(s) \in Datagrams /\ Tail(s) = <<>>
<1>1. s # <<>>
  <2>1. Len(s) # 0
    OBVIOUS
  <2>. QED
    BY <2>1, EmptySeq
<1>2. Tail(s) \in Seq(Datagrams) /\ Len(Tail(s)) = 0
  BY <1>1, HeadTailProperties
<1>. QED
  BY <1>1, <1>2, HeadTailProperties, EmptySeq

(* What OpenSSL writes is a flight, or nothing.                              *)
LEMMA WriteType ==
    ASSUME NEW bio, NEW n
    PROVE  TlsWrite(bio, n) \subseteq Datagrams
  BY FlightType DEF TlsWrite, Write

LEMMA StraysType == Strays \subseteq Datagrams
<1>1. [type |-> "request", id |-> OtherId] \in Datagrams /\ [type |-> "success", id |-> OtherId] \in Datagrams
  BY DEF Datagrams
<1>2. [type |-> "alert"] \in Datagrams /\ [type |-> "rtp"] \in Datagrams
  BY DEF Datagrams
<1>. QED
  BY <1>1, <1>2 DEF Strays

(* Something can come from the server only if it was asked for.              *)
LEMMA AnswerAskedFor ==
    ASSUME TypeOK, AskedInv, NEW d \in toClient \cup Ambient
    PROVE  transport
<1>1. CASE d \in toClient
  BY <1>1 DEF AskedInv
<1>2. CASE d \in Ambient
  <2>1. server.ids > 0 \/ server.flights > 0
    BY <1>2 DEF Ambient, TypeOK
  <2>. QED
    BY <2>1 DEF AskedInv
<1>. QED
  BY <1>1, <1>2

----------------------------------------------------------------------------
(* The parts handlers share.                                                 *)

LEMMA ReceiverEffect ==
    ASSUME TypeOK, Receiver
    PROVE  /\ step = "idle" /\ ~closing /\ step' = "handle" /\ receive' = FALSE
           /\ inHand' \in Datagrams /\ stray' \in BOOLEAN /\ endPoint' \in {"server", "other"}
           /\ disturbed' \in BOOLEAN /\ toClient' \subseteq toClient
           /\ stray' \/ \E d \in toClient \cup Ambient : TRUE
           /\ UNCHANGED <<object, socket, keepAlive, postClose, closing, stun, dtls, started, told,
                          toServer, server>>
<1>1. ASSUME NEW d \in toClient \cup Ambient, OnReceiveAnswer(d)
      PROVE  /\ inHand' \in Datagrams /\ toClient' \subseteq toClient
             /\ stray' = FALSE /\ endPoint' = "server" /\ UNCHANGED disturbed /\ OnReceive(d)
  BY <1>1, AmbientType DEF OnReceiveAnswer, OnReceive, TakeOff, TypeOK
<1>2. ASSUME NEW d \in Strays, OnReceiveStray(d)
      PROVE  /\ inHand' \in Datagrams /\ toClient' \subseteq toClient
             /\ stray' = TRUE /\ endPoint' \in {"server", "other"} /\ disturbed' = TRUE
             /\ OnReceive(d)
  BY <1>2, StraysType DEF OnReceiveStray, OnReceive, TypeOK
<1>. QED
  BY <1>1, <1>2 DEF Receiver, OnReceive, TypeOK

LEMMA HandleEffect ==
    ASSUME TypeOK, NEW d, Handle(d)
    PROVE  /\ d \in Datagrams /\ step = "handle" /\ step' = "rearm"
           /\ inHand' \in Datagrams /\ stray' = FALSE
           /\ UNCHANGED <<object, udp, endPoint, transport, toClient, server, disturbed>>
  BY RequestType DEF Handle, TypeOK

(* StartDTLS leaves the session idle, connecting or in error.                *)
LEMMA StartDtlsEffect ==
    ASSUME TypeOK, StartDTLS, response' \in OtherId..MaxRequests
    PROVE  /\ buffer' = buffer
           /\ \/ state' = "connecting" /\ ssl' \in {0, 1}
              \/ state' \in {state, "error"} /\ ssl' = ssl
           /\ toServer' \subseteq Datagrams
<1>1. Response \in Datagrams
  BY SuccessType DEF Response
<1>2. PICK generated \in Generate, bio \in Initialize :
        IF generated /\ bio # "none"
        THEN /\ state' = "connecting" /\ UNCHANGED buffer
             /\ ssl' = IF bio = "whole" THEN 1 ELSE 0
             /\ PostSend({Response} \cup TlsWrite(bio, 1))
        ELSE /\ state' = IF generated THEN "error" ELSE state
             /\ UNCHANGED <<buffer, ssl>>
             /\ PostSend({Response})
  BY DEF StartDTLS
<1>3. toServer' \subseteq Datagrams
  BY <1>1, <1>2, WriteType DEF PostSend, TypeOK
<1>. QED
  BY <1>2, <1>3

(* OpenSSL either fails or goes on to the next flight.                       *)
LEMMA OpenSslEffect ==
    ASSUME TypeOK, NEW d \in Datagrams, OpenSsl(d)
    PROVE  /\ ssl' \in {Failed} \cup 0..(Flights + 1)
           /\ ssl = Failed => ssl' = Failed
           /\ toServer' \subseteq Datagrams
<1>1. d.type = "flight" => d.n \in 1..Flights
  BY FieldTypes
<1>2. toServer' \subseteq Datagrams
  BY WriteType DEF OpenSsl, PostSend, TypeOK
<1>3. ssl' \in {Failed} \cup 0..(Flights + 1)
  BY <1>1 DEF OpenSsl, TypeOK
<1>. QED
  BY <1>2, <1>3 DEF OpenSsl

(* A DTLS datagram: what is in the buffer goes to OpenSSL, unless that has   *)
(* failed.                                                                   *)
LEMMA RecvDtlsEffect ==
    ASSUME TypeOK, BufferedIsUsed, NEW d, RecvDtls(d)
    PROVE  /\ buffer' \in Seq(Datagrams) /\ Len(buffer') \in {0, 1}
           /\ buffer' # <<>> => ssl' = Failed
           /\ ssl' \in {Failed} \cup 0..(Flights + 1)
           /\ toServer' \subseteq Datagrams
           /\ Running' = Running /\ state' \in {state, "connected"}
           /\ ~Running => UNCHANGED dtls
           /\ UNCHANGED <<completed, response, started, told>>
<1>. DEFINE saved == SaveDtlsPacket(d)
<1>1. d \in Datagrams
  BY HandleEffect DEF RecvDtls
<1>2. saved \in Seq(Datagrams) /\ Len(saved) = 1
  <2>1. CASE buffer = <<>>
    BY <1>1, <2>1, OneDatagram DEF SaveDtlsPacket
  <2>2. CASE buffer # <<>>
    BY <2>2, AtMostOneDatagram DEF SaveDtlsPacket, TypeOK
  <2>. QED
    BY <2>1, <2>2
<1>3. Head(saved) \in Datagrams /\ Tail(saved) = <<>>
  BY <1>2, TakeOneDatagram
<1>. HIDE DEF saved
<1>4. ASSUME Running, TlsRead(saved), OpenSsl(Read(saved)), state' \in {state, "connected"}
      PROVE  /\ buffer' \in Seq(Datagrams) /\ Len(buffer') \in {0, 1}
             /\ buffer' # <<>> => ssl' = Failed
             /\ ssl' \in {Failed} \cup 0..(Flights + 1)
             /\ toServer' \subseteq Datagrams /\ Running'
  <2>1. /\ ssl' \in {Failed} \cup 0..(Flights + 1)
        /\ ssl = Failed => ssl' = Failed
        /\ toServer' \subseteq Datagrams
    BY <1>3, <1>4, OpenSslEffect DEF Read
  <2>2. buffer' = IF ssl = Failed THEN saved ELSE <<>>
    BY <1>3, <1>4 DEF TlsRead, TakeDtlsPacket
  <2>3. buffer' \in Seq(Datagrams) /\ Len(buffer') \in {0, 1}
    BY <1>2, <2>2, NoDatagram
  <2>4. buffer' # <<>> => ssl' = Failed
    BY <2>1, <2>2
  <2>5. Running'
    BY <1>4 DEF Running
  <2>. QED
    BY <2>1, <2>3, <2>4, <2>5
<1>5. CASE ContinueSSL(saved) \/ ReadConnected(saved)
  <2>1. Running /\ TlsRead(saved) /\ OpenSsl(Read(saved)) /\ state' \in {state, "connected"}
    BY <1>5 DEF ContinueSSL, ReadConnected, Connect, SslRead, Running
  <2>. QED
    BY <1>4, <2>1 DEF RecvDtls
<1>6. CASE ~Running /\ UNCHANGED <<dtls, toServer>>
  BY <1>6 DEF RecvDtls, Running, TypeOK, BufferedIsUsed
<1>. QED
  BY <1>5, <1>6 DEF RecvDtls, saved

(* A binding request is answered; only the first can start DTLS and be       *)
(* announced.                                                                *)
LEMMA RecvBindingRequestEffect ==
    ASSUME TypeOK, ToldInv, NEW d, RecvBindingRequest(d)
    PROVE  /\ response' \in OtherId..MaxRequests /\ completed' = TRUE
           /\ toServer' \subseteq Datagrams
           /\ UNCHANGED <<started, buffer>>
           /\ \/ completed /\ UNCHANGED <<state, ssl, told>>
              \/ /\ ~completed /\ state' = "connecting" /\ ssl' \in {0, 1}
                 /\ told' = Append(told, "stun")
              \/ ~completed /\ state' \in {"none", "error"} /\ UNCHANGED <<ssl, told>>
<1>1. d \in Datagrams /\ d.type = "request"
  BY HandleEffect DEF RecvBindingRequest
<1>2. response' \in OtherId..MaxRequests
  BY <1>1, FieldTypes DEF RecvBindingRequest, SendBindingResponse, TypeOK
<1>3. /\ completed' = TRUE /\ UNCHANGED started
      /\ IF completed
         THEN UNCHANGED <<dtls, told>> /\ PostSend({Response})
         ELSE /\ StartDTLS
              /\ told' = IF state' = "connecting" THEN Append(told, "stun") ELSE told
  BY DEF RecvBindingRequest
<1>4. CASE completed
  <2>1. toServer' \subseteq Datagrams
    BY <1>2, <1>3, <1>4, SuccessType DEF PostSend, Response, TypeOK
  <2>. QED
    BY <1>2, <1>3, <1>4, <2>1
<1>5. CASE ~completed
  <2>1. state = "none"
    BY <1>5 DEF ToldInv
  <2>. QED
    BY <1>2, <1>3, <1>5, <2>1, StartDtlsEffect
<1>. QED
  BY <1>4, <1>5

----------------------------------------------------------------------------
(* Types.                                                                    *)

LEMMA ToldType ==
    ASSUME NEW t \in Seq({"stun", "streaming", "closed"}),
           NEW what \in {"stun", "streaming", "closed"}
    PROVE  Append(t, what) \in Seq({"stun", "streaming", "closed"})
  OBVIOUS

(* The second announcement.                                                  *)
LEMMA AppendToOne ==
    ASSUME NEW a, NEW b
    PROVE  Append(<<a>>, b) = <<a, b>>
<1>. DEFINE S == {a, b}
<1>. a \in S /\ b \in S
  OBVIOUS
<1>. HIDE DEF S
<1>1. <<a>> \in Seq(S) /\ <<a, b>> \in Seq(S) /\ Append(<<a>>, b) \in Seq(S)
  OBVIOUS
<1>2. Len(Append(<<a>>, b)) = 2 /\ Len(<<a, b>>) = 2
  OBVIOUS
<1>3. \A i \in 1..2 : Append(<<a>>, b)[i] = <<a, b>>[i]
  BY <1>1, <1>2
<1>. QED
  BY <1>1, <1>2, <1>3, SeqEqual

LEMMA TypeStep ==
    ASSUME TypeOK, BufferedIsUsed, ToldInv, [Next]_vars
    PROVE  TypeOK'
<1>1. CASE Creator
  BY <1>1 DEF TypeOK, Creator, CreateUdp, CreateTransport, CreateKeepAlive, Insert,
     StartReceive, SetNetworkTimer
<1>2. CASE Remove
  <2>1. /\ postClose' \in {"none", "set", "done"} /\ closing' = TRUE
        /\ toServer' = {} /\ toClient' = {}
    BY <1>2 DEF TypeOK, Remove, PostClose, Closing
  <2>2. /\ inMap' = FALSE
        /\ UNCHANGED <<create, socket, receive, keepAlive, endPoint, thread, stun, dtls, started,
                       told, server, disturbed>>
    BY <1>2 DEF Remove
  <2>3. {inMap, receive, keepAlive, closing, stray, transport, completed, disturbed}' \subseteq BOOLEAN
    BY <1>2, <2>1, <2>2 DEF TypeOK, Remove
  <2>4. /\ create' \in {"new", "receiving", "transport", "created", "done"}
        /\ socket' \in {"none", "open", "closed"} /\ endPoint' \in {"server", "other"}
        /\ started' \in 0..Tracks /\ told' \in Seq({"stun", "streaming", "closed"})
        /\ server' \in [ids : 0..MaxRequests, accepted : BOOLEAN, flights : 0..Flights]
    BY <2>2 DEF TypeOK
  <2>5. /\ step' \in {"idle", "handle", "rearm", "fail", "dead"} /\ inHand' \in Datagrams
        /\ response' \in OtherId..MaxRequests
        /\ state' \in {"none", "connecting", "connected", "error"}
        /\ buffer' \in Seq(Datagrams) /\ Len(buffer') \in {0, 1}
        /\ ssl' \in {Failed} \cup 0..(Flights + 1)
    BY <1>2 DEF TypeOK, Remove
  <2>. QED
    BY <2>1, <2>3, <2>4, <2>5 DEF TypeOK
<1>3. CASE KeepAliveTimer
  BY <1>3, RequestType DEF TypeOK, KeepAliveTimer, SetNetworkTimer, PostSend
<1>4. CASE PostCloseTimerProc \/ ReceiveEnds
  BY <1>4 DEF TypeOK, PostCloseTimerProc, ReceiveEnds
<1>5. CASE NetworkError
  <2>1. told' \in Seq({"stun", "streaming", "closed"})
    BY <1>5, ToldType DEF TypeOK, NetworkError
  <2>2. /\ postClose' \in {"none", "set", "done"} /\ closing' = TRUE /\ step' = "idle"
        /\ toServer' = {} /\ toClient' = {}
    BY <1>5 DEF TypeOK, NetworkError, PostClose, Closing
  <2>3. /\ inMap' = FALSE
        /\ UNCHANGED <<create, socket, receive, keepAlive, endPoint, inHand, stray, stun, dtls,
                       started, server, disturbed>>
    BY <1>5 DEF NetworkError
  <2>. QED
    BY <2>1, <2>2, <2>3 DEF TypeOK
<1>16. CASE NetworkFails
  BY <1>16 DEF TypeOK, NetworkFails
<1>17. CASE Receiver
  BY <1>17, ReceiverEffect DEF TypeOK
<1>18. CASE Rearm \/ NoTransport
  BY <1>18 DEF TypeOK, Rearm, NoTransport, StartReceive
<1>6. ASSUME NEW d, RecvSuccess(d)
      PROVE  TypeOK'
  <2>1. Handle(d) /\ UNCHANGED <<completed, response, dtls, started, told, toServer>>
    BY <1>6 DEF RecvSuccess
  <2>. QED
    BY <2>1, HandleEffect DEF TypeOK
<1>7. ASSUME NEW d, RecvBindingRequest(d)
      PROVE  TypeOK'
  <2>1. Handle(d)
    BY <1>7 DEF RecvBindingRequest
  <2>2. /\ response' \in OtherId..MaxRequests /\ completed' = TRUE
        /\ toServer' \subseteq Datagrams
        /\ UNCHANGED <<started, buffer>>
        /\ told' \in {told, Append(told, "stun")}
        /\ state' \in {state, "connecting", "none", "error"} /\ ssl' \in {ssl, 0, 1}
    BY <1>7, RecvBindingRequestEffect
  <2>3. told' \in Seq({"stun", "streaming", "closed"})
    BY <2>2, ToldType DEF TypeOK
  <2>4. state' \in {"none", "connecting", "connected", "error"}
        /\ ssl' \in {Failed} \cup 0..(Flights + 1)
    BY <2>2 DEF TypeOK
  <2>5. /\ step' = "rearm" /\ inHand' \in Datagrams /\ stray' = FALSE
        /\ UNCHANGED <<object, udp, endPoint, transport, toClient, server, disturbed>>
    BY <2>1, HandleEffect
  <2>. QED
    BY <2>2, <2>3, <2>4, <2>5 DEF TypeOK
<1>8. ASSUME NEW d, RecvDtls(d)
      PROVE  TypeOK'
  <2>1. Handle(d)
    BY <1>8 DEF RecvDtls
  <2>2. /\ buffer' \in Seq(Datagrams) /\ Len(buffer') \in {0, 1}
        /\ ssl' \in {Failed} \cup 0..(Flights + 1)
        /\ toServer' \subseteq Datagrams /\ state' \in {state, "connected"}
        /\ UNCHANGED <<completed, response, started, told>>
    BY <1>8, RecvDtlsEffect
  <2>3. /\ step' = "rearm" /\ inHand' \in Datagrams /\ stray' = FALSE
        /\ UNCHANGED <<object, udp, endPoint, transport, toClient, server, disturbed>>
    BY <2>1, HandleEffect
  <2>. QED
    BY <2>2, <2>3 DEF TypeOK
<1>9. ASSUME NEW d, RecvRtp(d)
      PROVE  TypeOK'
  <2>1. told' \in Seq({"stun", "streaming", "closed"})
    BY <1>9, ToldType DEF TypeOK, RecvRtp
  <2>2. started' \in 0..Tracks
    BY <1>9 DEF TypeOK, RecvRtp
  <2>3. /\ step' = "rearm" /\ inHand' \in Datagrams /\ stray' = FALSE
        /\ UNCHANGED <<object, udp, endPoint, transport, toClient, server, disturbed>>
    BY <1>9, HandleEffect DEF RecvRtp
  <2>4. UNCHANGED <<completed, response, dtls, toServer>>
    BY <1>9 DEF RecvRtp
  <2>. QED
    BY <2>1, <2>2, <2>3, <2>4 DEF TypeOK
<1>10. CASE ServerRecvRequest
  <2>1. PICK id \in {server.ids, server.ids + 1} \cap 1..MaxRequests :
           /\ server' = [server EXCEPT !.ids = id]
           /\ toClient' = toClient \cup {[type |-> "request", id |-> id]}
    BY <1>10 DEF ServerRecvRequest
  <2>2. toClient' \subseteq Datagrams
    BY <2>1, RequestOfServerType DEF TypeOK
  <2>3. server' \in [ids : 0..MaxRequests, accepted : BOOLEAN, flights : 0..Flights]
    BY <2>1 DEF TypeOK
  <2>. QED
    BY <1>10, <2>2, <2>3 DEF TypeOK, ServerRecvRequest, TakeOff
<1>11. ASSUME NEW d \in toServer, ServerRecvSuccess(d)
       PROVE  TypeOK'
  <2>1. server' \in [ids : 0..MaxRequests, accepted : BOOLEAN, flights : 0..Flights]
    BY <1>11 DEF ServerRecvSuccess, TypeOK
  <2>. QED
    BY <1>11, <2>1 DEF TypeOK, ServerRecvSuccess, TakeOff
<1>12. ASSUME NEW d \in toServer, ServerRecvFlight(d)
       PROVE  TypeOK'
  <2>1. d \in Datagrams /\ d.n \in 1..Flights
    BY <1>12, FieldTypes DEF ServerRecvFlight, TypeOK
  <2>4. server \in [ids : 0..MaxRequests, accepted : BOOLEAN, flights : 0..Flights]
    BY DEF TypeOK
  <2>5. server' = server \/ server' = [server EXCEPT !.flights = d.n]
    BY <1>12 DEF ServerRecvFlight
  <2>2. server' \in [ids : 0..MaxRequests, accepted : BOOLEAN, flights : 0..Flights]
    BY <2>1, <2>4, <2>5
  <2>3. toClient' \subseteq Datagrams
    BY <1>12, <2>1 DEF ServerRecvFlight, TypeOK
  <2>. QED
    BY <1>12, <2>2, <2>3 DEF TypeOK, ServerRecvFlight, TakeOff
<1>13. ASSUME NEW d, Lose(d)
       PROVE  TypeOK'
  BY <1>13 DEF TypeOK, Lose
<1>14. CASE ServerRepeat
  <2>1. server.flights \in 1..Flights
    BY <1>14 DEF ServerRepeat, TypeOK
  <2>. QED
    BY <1>14, <2>1, FlightType DEF TypeOK, ServerRepeat
<1>15. CASE UNCHANGED vars
  BY <1>15 DEF TypeOK, vars
<1>. QED
  BY <1>1, <1>2, <1>3, <1>4, <1>5, <1>6, <1>7, <1>8, <1>9, <1>10, <1>11, <1>12, <1>13, <1>14,
     <1>15, <1>16, <1>17, <1>18 DEF Next, RecvHandler, Server

----------------------------------------------------------------------------
(* The steps that read no datagram: a session asks the server only by its    *)
(* keep-alive timer, and Create sets that last.                              *)
LEMMA AskedStep ==
    ASSUME TypeOK, AskedInv, [Next]_vars
    PROVE  AskedInv'
<1>. USE DEF AskedInv
<1>1. CASE CreateUdp \/ CreateTransport \/ Insert
  BY <1>1 DEF CreateUdp, CreateTransport, Insert
<1>2. CASE CreateKeepAlive
  BY <1>2 DEF CreateKeepAlive
<1>3. CASE Remove \/ NetworkError
  <2>1. toServer' = {} /\ toClient' = {}
    BY <1>3 DEF Remove, NetworkError, PostClose, Closing
  <2>2. UNCHANGED <<create, keepAlive, transport, server, stray>> /\ step' \in {step, "idle"}
    BY <1>3 DEF Remove, NetworkError
  <2>. QED
    BY <2>1, <2>2
<1>4. CASE KeepAliveTimer \/ PostCloseTimerProc \/ ReceiveEnds
  BY <1>4 DEF KeepAliveTimer, PostCloseTimerProc, ReceiveEnds
<1>5. CASE Receiver
  <2>1. stray' \/ transport
    BY <1>5, ReceiverEffect, AnswerAskedFor
  <2>. QED
    BY <1>5, <2>1, ReceiverEffect
<1>6. ASSUME NEW d, RecvHandler(d)
      PROVE  AskedInv'
  <2>1. CASE NoTransport
    BY <2>1 DEF NoTransport
  <2>2. CASE Handle(d) /\ (transport \/ toServer' = toServer)
    <3>1. step' = "rearm" /\ UNCHANGED <<create, keepAlive, transport, server, toClient>>
      BY <2>2, HandleEffect
    <3>. QED
      BY <2>2, <3>1
  <2>. QED
    BY <1>6, <2>1, <2>2 DEF RecvHandler, RecvSuccess, RecvBindingRequest, RecvDtls, RecvRtp
<1>7. CASE NetworkFails \/ Rearm
  <2>1. step' # "handle" /\ UNCHANGED <<create, keepAlive, transport, toServer, toClient, server>>
    BY <1>7 DEF NetworkFails, Rearm
  <2>. QED
    BY <2>1
<1>8. ASSUME NEW d \in toServer, Server(d)
      PROVE  AskedInv'
  <2>1. transport
    BY <1>8
  <2>2. transport' = transport
    BY <1>8 DEF Server, ServerRecvRequest, ServerRecvSuccess, ServerRecvFlight
  <2>. QED
    BY <2>1, <2>2
<1>9. ASSUME NEW d \in toServer \cup toClient, Lose(d)
      PROVE  AskedInv'
  BY <1>9 DEF Lose
<1>10. CASE ServerRepeat
  BY <1>10 DEF ServerRepeat
<1>11. CASE UNCHANGED vars
  BY <1>11 DEF vars
<1>. QED
  BY <1>1, <1>2, <1>3, <1>4, <1>5, <1>6, <1>7, <1>8, <1>9, <1>10, <1>11 DEF Next, Creator

(* Only NoTransport ends the program, at a datagram in hand that found no    *)
(* transport, and by AskedInv that is not the server's.                      *)
LEMMA DeadStep ==
    ASSUME ServerFindsTransport, AskedInv, [Next]_vars
    PROVE  step' = "dead" => stray'
<1>. SUFFICES ASSUME step' = "dead" PROVE stray'
  OBVIOUS
<1>0. TypeOK /\ (step = "dead" => stray)
  BY DEF ServerFindsTransport
<1>1. CASE NoTransport
  BY <1>0, <1>1 DEF NoTransport, AskedInv
<1>2. CASE UNCHANGED <<step, stray>>
  BY <1>0, <1>2
<1>3. CASE step' # "dead"
  BY <1>3
<1>4. Receiver => step' # "dead"
  BY <1>0, ReceiverEffect
<1>5. ASSUME NEW d, Handle(d)
      PROVE  step' # "dead"
  BY <1>5 DEF Handle
<1>6. ASSUME NEW d, RecvHandler(d)
      PROVE  NoTransport \/ step' # "dead"
  BY <1>5, <1>6 DEF RecvHandler, RecvSuccess, RecvBindingRequest, RecvDtls, RecvRtp
<1>7. NetworkFails \/ NetworkError \/ Rearm => step' # "dead"
  BY DEF NetworkFails, NetworkError, Rearm
<1>8. Creator \/ Remove \/ KeepAliveTimer \/ PostCloseTimerProc \/ ReceiveEnds \/ ServerRepeat
        => UNCHANGED <<step, stray>>
  BY DEF Creator, CreateUdp, CreateTransport, CreateKeepAlive, Insert, Remove, KeepAliveTimer,
     PostCloseTimerProc, ReceiveEnds, ServerRepeat
<1>9. ASSUME NEW d, Server(d) \/ Lose(d)
      PROVE  UNCHANGED <<step, stray>>
  BY <1>9 DEF Server, ServerRecvRequest, ServerRecvSuccess, ServerRecvFlight, Lose
<1>10. UNCHANGED vars => UNCHANGED <<step, stray>>
  BY DEF vars
<1>. QED
  BY <1>1, <1>2, <1>3, <1>4, <1>6, <1>7, <1>8, <1>9, <1>10 DEF Next

(* The steps that tell nothing and handle no datagram.                       *)
OtherSteps ==
    \/ Creator \/ KeepAliveTimer \/ PostCloseTimerProc \/ ReceiveEnds
    \/ \E d \in toServer : Server(d)
    \/ \E d \in toServer \cup toClient : Lose(d)
    \/ ServerRepeat
    \/ UNCHANGED vars

LEMMA OtherStepsKeep ==
    ASSUME OtherSteps
    PROVE  UNCHANGED <<closing, step, completed, state, buffer, ssl, started, told>>
<1>. USE DEF OtherSteps
<1>1. CASE Creator
  BY <1>1 DEF Creator, CreateUdp, CreateTransport, CreateKeepAlive, Insert
<1>2. CASE KeepAliveTimer \/ PostCloseTimerProc \/ ReceiveEnds \/ ServerRepeat
  BY <1>2 DEF KeepAliveTimer, PostCloseTimerProc, ReceiveEnds, ServerRepeat
<1>3. ASSUME NEW d, Server(d) \/ Lose(d)
      PROVE  UNCHANGED <<closing, step, completed, state, buffer, ssl, started, told>>
  BY <1>3 DEF Server, ServerRecvRequest, ServerRecvSuccess, ServerRecvFlight, Lose
<1>4. CASE UNCHANGED vars
  BY <1>4 DEF vars
<1>. QED
  BY <1>1, <1>2, <1>3, <1>4

(* Where a handler begins, is over, or is overtaken by the removal.          *)
ThreadSteps == Remove \/ NetworkFails \/ Receiver \/ Rearm \/ NoTransport

LEMMA ThreadStepsKeep ==
    ASSUME TypeOK, ThreadSteps
    PROVE  /\ UNCHANGED <<completed, state, buffer, ssl, started, told>>
           /\ \/ Remove /\ closing' = TRUE /\ step' = step
              \/ /\ NetworkFails \/ Receiver
                 /\ ~closing /\ ~closing' /\ step = "idle" /\ step' \in {"handle", "fail"}
              \/ Rearm /\ closing' = closing /\ step = "rearm" /\ step' = "idle"
              \/ NoTransport /\ closing' = closing /\ step = "handle" /\ step' = "dead"
<1>1. CASE Remove
  BY <1>1 DEF Remove, PostClose, Closing
<1>2. CASE NetworkFails
  BY <1>2 DEF NetworkFails
<1>3. CASE Receiver
  BY <1>3, ReceiverEffect
<1>4. CASE Rearm \/ NoTransport
  BY <1>4 DEF Rearm, NoTransport
<1>. QED
  BY <1>1, <1>2, <1>3, <1>4 DEF ThreadSteps

(* What is saved is used at once while OpenSSL works.                        *)
LEMMA BufferStep ==
    ASSUME TypeOK, BufferedIsUsed, ToldInv, [Next]_vars
    PROVE  BufferedIsUsed'
<1>1. CASE OtherSteps
  BY <1>1, OtherStepsKeep DEF BufferedIsUsed
<1>6. CASE ThreadSteps
  BY <1>6, ThreadStepsKeep DEF BufferedIsUsed
<1>2. CASE NetworkError
  BY <1>2 DEF BufferedIsUsed, NetworkError
<1>3. ASSUME NEW d, RecvSuccess(d) \/ RecvRtp(d)
      PROVE  BufferedIsUsed'
  BY <1>3 DEF BufferedIsUsed, RecvSuccess, RecvRtp
<1>4. ASSUME NEW d, RecvBindingRequest(d)
      PROVE  BufferedIsUsed'
  <2>1. buffer' = buffer /\ (ssl' = ssl \/ ~completed)
    BY <1>4, RecvBindingRequestEffect
  <2>. QED
    BY <2>1 DEF BufferedIsUsed, ToldInv
<1>5. ASSUME NEW d, RecvDtls(d)
      PROVE  BufferedIsUsed'
  BY <1>5, RecvDtlsEffect DEF BufferedIsUsed
<1>. QED
  BY <1>1, <1>2, <1>3, <1>4, <1>5, <1>6 DEF Next, RecvHandler, OtherSteps, ThreadSteps

(* What was announced matches what has been reached: a handler under way     *)
(* began when the session was not closing.                                   *)
LEMMA ToldStep ==
    ASSUME TypeOK, BufferedIsUsed, ToldInv, [Next]_vars
    PROVE  ToldInv'
<1>. USE DEF ToldInv, Announced
<1>1. CASE OtherSteps
  BY <1>1, OtherStepsKeep DEF Running
<1>7. CASE ThreadSteps
  <2>1. UNCHANGED <<completed, state, ssl, started, told>>
    BY <1>7, ThreadStepsKeep
  <2>2. \/ closing' = TRUE /\ step' = step
        \/ ~closing
        \/ closing' = closing /\ step' = "idle"
        \/ step = "handle"
    BY <1>7, ThreadStepsKeep
  <2>. QED
    BY <2>1, <2>2 DEF Running
<1>2. CASE NetworkError
  <2>1. closing' = TRUE /\ step' = "idle" /\ UNCHANGED <<completed, state, ssl, started>>
    BY <1>2 DEF NetworkError, PostClose, Closing
  <2>. QED
    BY <2>1 DEF Running
<1>3. ASSUME NEW d, RecvSuccess(d)
      PROVE  ToldInv'
  <2>1. step = "handle" /\ UNCHANGED <<completed, state, ssl, started, told>>
    BY <1>3, HandleEffect DEF RecvSuccess
  <2>. QED
    BY <2>1 DEF Running
<1>4. ASSUME NEW d, RecvBindingRequest(d)
      PROVE  ToldInv'
  <2>1. told = Announced
    BY <1>4, HandleEffect DEF RecvBindingRequest
  <2>2. Append(<<>>, "stun") = <<"stun">>
    OBVIOUS
  <2>3. /\ completed' = TRUE /\ started' = started
        /\ \/ UNCHANGED <<state, told>>
           \/ ~completed /\ state' = "connecting" /\ told' = Append(told, "stun")
           \/ ~completed /\ state' \in {"none", "error"} /\ told' = told
    BY <1>4, RecvBindingRequestEffect
  <2>4. CASE UNCHANGED <<state, told>>
    BY <2>1, <2>3, <2>4 DEF Running
  <2>5. CASE ~completed /\ state' = "connecting" /\ told' = Append(told, "stun")
    <3>1. started' = 0 /\ told = <<>> /\ Running'
      BY <2>1, <2>3, <2>5 DEF Running
    <3>. QED
      BY <2>2, <2>3, <2>5, <3>1
  <2>6. CASE ~completed /\ state' \in {"none", "error"} /\ told' = told
    BY <2>1, <2>3, <2>6 DEF Running
  <2>. QED
    BY <2>3, <2>4, <2>5, <2>6
<1>5. ASSUME NEW d, RecvDtls(d)
      PROVE  ToldInv'
  <2>1. told = Announced
    BY <1>5, HandleEffect DEF RecvDtls
  <2>. QED
    BY <1>5, <2>1, RecvDtlsEffect DEF Running
<1>6. ASSUME NEW d, RecvRtp(d)
      PROVE  ToldInv'
  <2>1. told = Announced /\ Running' = Running
    BY <1>6, HandleEffect DEF RecvRtp, Running
  <2>2. Append(<<"stun">>, "streaming") = <<"stun", "streaming">>
    BY AppendToOne
  <2>. QED
    BY <1>6, <2>1, <2>2 DEF RecvRtp, TypeOK
<1>. QED
  BY <1>1, <1>2, <1>3, <1>4, <1>5, <1>6, <1>7 DEF Next, RecvHandler, OtherSteps, ThreadSteps

----------------------------------------------------------------------------
LEMMA InitIInv == Init => IInv
<1>. SUFFICES ASSUME Init PROVE IInv
  OBVIOUS
<1>1. TypeOK
  <2>1. told \in Seq({"stun", "streaming", "closed"}) /\ buffer \in Seq(Datagrams) /\ Len(buffer) = 0
    BY EmptySeq DEF Init
  <2>2. server \in [ids : 0..MaxRequests, accepted : BOOLEAN, flights : 0..Flights]
    BY DEF Init
  <2>3. ssl \in 0..(Flights + 1) /\ response \in OtherId..MaxRequests /\ started \in 0..Tracks
    BY DEF Init
  <2>4. {inMap, receive, keepAlive, closing, stray, transport, completed, disturbed} \subseteq BOOLEAN
    BY DEF Init
  <2>5. toServer \subseteq Datagrams /\ toClient \subseteq Datagrams
    BY DEF Init
  <2>. QED
    BY <2>1, <2>2, <2>3, <2>4, <2>5, RequestType DEF Init, TypeOK
<1>. QED
  BY <1>1 DEF Init, IInv, ServerFindsTransport, AskedInv, BufferedIsUsed, ToldInv,
     Announced, Running

LEMMA StepIInv == IInv /\ [Next]_vars => IInv'
  BY TypeStep, DeadStep, AskedStep, BufferStep, ToldStep DEF IInv, ServerFindsTransport

(* IInv is an invariant: what the server was asked for, what is in the       *)
(* buffer and what was announced.                                            *)
THEOREM Invariance == Spec => []IInv
  BY InitIInv, StepIInv, PTL DEF Spec

(* OmeStreamObject::RecvHandler dereferences _dtls_transport without a test, *)
(* and the receive is started before Create has set it: only a datagram that *)
(* is no answer of the server to this session can find it missing.           *)
THEOREM ServerMeetsTransport == Spec => []ServerFindsTransport
<1>1. IInv => ServerFindsTransport
  BY DEF IInv
<1>. QED
  BY <1>1, Invariance, PTL

(* DtlsTransport::SaveDtlsPacket: what is in _packet_buffer is used at once, *)
(* as long as OpenSSL has not failed.                                        *)
THEOREM BufferUsed == Spec => []BufferedIsUsed
<1>1. IInv => BufferedIsUsed
  BY DEF IInv
<1>. QED
  BY <1>1, Invariance, PTL

----------------------------------------------------------------------------
(* Every step is a step of SessionSetup, or leaves what it talks of alone.   *)
LEMMA SetupStep ==
    ASSUME IInv, [Next]_vars
    PROVE  [Setup!Next]_<<told, closing, step \in {"handle", "fail"}>>
<1>. DEFINE busy == step \in {"handle", "fail"}
<1>0. TypeOK /\ ToldInv /\ closing \in BOOLEAN
  BY DEF IInv, ServerFindsTransport, TypeOK
<1>1. CASE Remove
  <2>1. UNCHANGED <<told, step>> /\ closing' = TRUE
    BY <1>1 DEF Remove, PostClose, Closing
  <2>. QED
    BY <1>0, <2>1 DEF Setup!Next, Setup!Remove
<1>2. CASE OtherSteps \/ Rearm
  <2>1. UNCHANGED <<told, closing, busy>>
    BY <1>2, OtherStepsKeep DEF Rearm
  <2>. QED
    BY <2>1
<1>3. CASE NetworkFails \/ Receiver
  <2>1. ~closing /\ ~busy /\ busy' /\ UNCHANGED <<told, closing>>
    BY <1>0, <1>3, ReceiverEffect DEF NetworkFails
  <2>. QED
    BY <1>0, <2>1 DEF Setup!Next, Setup!Begin
<1>4. ASSUME NEW d, RecvSuccess(d) \/ RecvDtls(d) \/ NoTransport
      PROVE  Setup!Over
  <2>1. step = "handle" /\ step' \in {"rearm", "dead"} /\ UNCHANGED closing
    BY <1>0, <1>4, HandleEffect DEF RecvSuccess, RecvDtls, NoTransport
  <2>2. told' = told
    BY <1>4 DEF RecvSuccess, RecvDtls, NoTransport
  <2>. QED
    BY <2>1, <2>2 DEF Setup!Over
<1>5. CASE NetworkError
  <2>1. step = "fail" /\ step' = "idle" /\ closing' = TRUE /\ told' = Append(told, "closed")
    BY <1>5 DEF NetworkError, PostClose, Closing
  <2>. QED
    BY <2>1 DEF Setup!Next, Setup!NetworkClose, Setup!Announce
<1>6. ASSUME NEW d, RecvBindingRequest(d)
      PROVE  Setup!StunComplete \/ Setup!Over
  <2>1. step = "handle" /\ step' = "rearm" /\ closing' = closing
    BY <1>0, <1>6, HandleEffect DEF RecvBindingRequest
  <2>2. ~completed => told = <<>>
    BY <1>0, <2>1 DEF ToldInv, Announced, Running
  <2>3. told' = told \/ (~completed /\ told' = Append(told, "stun"))
    BY <1>0, <1>6, RecvBindingRequestEffect
  <2>. QED
    BY <2>1, <2>2, <2>3 DEF Setup!StunComplete, Setup!Announce, Setup!Over
<1>7. ASSUME NEW d, RecvRtp(d)
      PROVE  Setup!StreamingStart \/ Setup!Over
  <2>1. step = "handle" /\ step' = "rearm" /\ closing' = closing
    BY <1>0, <1>7, HandleEffect DEF RecvRtp
  <2>2. Running /\ started # Tracks => told = <<"stun">>
    BY <1>0, <2>1 DEF ToldInv, Announced, TypeOK
  <2>3. told' = told \/ (Running /\ started # Tracks /\ told' = Append(told, "streaming"))
    BY <1>7 DEF RecvRtp
  <2>. QED
    BY <2>1, <2>2, <2>3 DEF Setup!StreamingStart, Setup!Announce, Setup!Over
<1>. QED
  BY <1>1, <1>2, <1>3, <1>4, <1>5, <1>6, <1>7 DEF Next, RecvHandler, OtherSteps, Setup!Next

(* A media session implements SessionSetup: whatever is lost, doubled or     *)
(* reordered, and wherever in a handler GarbageCheck removes it, MainObject  *)
(* is told of STUN, then of the stream, each once, and of nothing but what   *)
(* one handler under way had left to tell after the end.                     *)
THEOREM SetupRefinement == Spec => SetupSpec
<1>1. Init => Setup!Init
  BY DEF Init, Setup!Init
<1>2. IInv /\ [Next]_vars => [Setup!Next]_<<told, closing, step \in {"handle", "fail"}>>
  BY SetupStep
<1>. QED
  BY <1>1, <1>2, Invariance, PTL DEF Spec, SetupSpec, Setup!Spec

=============================================================================
