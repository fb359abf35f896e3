--------------------------- MODULE OmeStreamObject ---------------------------
(***************************************************************************)
(* A media session: the UDP socket, STUN, and the DTLS handshake, against  *)
(* a server and a network that loses, doubles and reorders datagrams and   *)
(* now and then brings one that is no answer to this session.              *)
(*                                                                         *)
(* Create runs on the thread of the signalling connection; datagrams and   *)
(* timers are handled on the io_service thread of the socket, one at a     *)
(* time; GarbageCheck removes the session from the timer thread, between   *)
(* any two steps of a handler. What the session owns it shares with its    *)
(* pending operations (shared_from_this): it is gone when the map and the  *)
(* last of them have let go.                                               *)
(*                                                                         *)
(* OpenSSL and the server are external: a handshake is Flights flights of  *)
(* the client, each answered by one of the server.                         *)
(***************************************************************************)
EXTENDS Integers, Sequences

CONSTANTS
    Flights,        \* flights of each side in a DTLS handshake
    MaxRequests     \* bound: transaction ids the server uses

ASSUME OmeStreamObjectAssumption ==
    Flights \in Nat \ {0} /\ MaxRequests \in Nat \ {0}

VARIABLES
    create,         \* where the creating thread is in ConnectAdd and Create
    inMap,          \* the session is in _network_info_map
    socket,         \* "none", "open", "closed"
    receive,        \* an async_receive_from is pending
    keepAlive,      \* the wait of _keep_alive_send_timer is pending
    postClose,      \* _post_close_timer: "none", "set", "done"
    closing,        \* _is_closeing
    endPoint,       \* _remote_end_point: the "server" or some "other"
    step,           \* the handler on the thread of the socket
    inHand,         \* the datagram it handles
    stray,          \* which is no answer to this session
    transport,      \* _dtls_transport is there
    completed,      \* _is_completed
    response,       \* the id in _bind_response_packet, NoId when not made
    state,          \* _state of DtlsTransport
    buffer,         \* _packet_buffer
    ssl,            \* client flights OpenSSL has sent; Failed after an error
    started,        \* of video and audio, how many have started
    told,           \* what MainObject was told, in order
    toServer,       \* datagrams on their way
    toClient,
    server,         \* ids used, whether one was answered, flights answered
    disturbed       \* history: a DTLS datagram was lost, or one that is no
                    \* answer to this session was taken

NoId == 0
OwnId == -1         \* the transaction id of this session's binding request
OtherId == -2       \* one of another session's
Failed == -1

object == <<create, inMap>>
udp == <<socket, receive, keepAlive, postClose, closing>>
thread == <<step, inHand, stray>>
stun == <<transport, completed, response>>
dtls == <<state, buffer, ssl>>
network == <<toServer, toClient, server, disturbed>>
vars == <<object, udp, endPoint, thread, stun, dtls, started, told, network>>

Request == [type |-> "request", id |-> OwnId]
Tracks == 2
Datagrams == [type : {"request", "success"}, id : OtherId..MaxRequests]
             \cup [type : {"flight"}, n : 1..Flights]
             \cup [type : {"alert", "rtp"}]
Flight(n) == [type |-> "flight", n |-> n]
IsStun(d) == d.type \in {"request", "success"}
IsDtls(d) == d.type \in {"flight", "alert"}
IsRtp(d) == d.type = "rtp"

TypeOK ==
    /\ create \in {"new", "receiving", "transport", "created", "done"}
    /\ socket \in {"none", "open", "closed"}
    /\ postClose \in {"none", "set", "done"}
    /\ {inMap, receive, keepAlive, closing, stray, transport, completed, disturbed} \subseteq BOOLEAN
    /\ endPoint \in {"server", "other"}
    /\ step \in {"idle", "handle", "rearm", "fail", "dead"} /\ inHand \in Datagrams
    /\ response \in OtherId..MaxRequests
    /\ state \in {"none", "connecting", "connected", "error"}
    /\ buffer \in Seq(Datagrams) /\ Len(buffer) \in {0, 1}
    /\ ssl \in {Failed} \cup 0..(Flights + 1)
    /\ started \in 0..Tracks
    /\ told \in Seq({"stun", "streaming", "closed"})
    /\ toServer \subseteq Datagrams /\ toClient \subseteq Datagrams
    /\ server \in [ids : 0..MaxRequests, accepted : BOOLEAN, flights : 0..Flights]

Init ==
    /\ create = "new" /\ inMap = FALSE
    /\ socket = "none" /\ receive = FALSE /\ keepAlive = FALSE
    /\ postClose = "none" /\ closing = FALSE /\ endPoint = "server"
    /\ step = "idle" /\ inHand = Request /\ stray = FALSE
    /\ transport = FALSE /\ completed = FALSE
    /\ response = NoId
    /\ state = "none" /\ buffer = <<>> /\ ssl = 0
    /\ started = 0 /\ told = <<>>
    /\ toServer = {} /\ toClient = {}
    /\ server = [ids |-> 0, accepted |-> FALSE, flights |-> 0]
    /\ disturbed = FALSE

----------------------------------------------------------------------------
(* ConnectAdd on the thread of the signalling connection.                    *)

StartReceive == receive' = (~closing /\ socket' = "open")

(* Mutant: the keep-alive timer is set where the receive is started.         *)
CreateUdpWithTimer ==
    /\ create = "new"
    /\ create' = "receiving"
    /\ socket' = "open" /\ keepAlive' = TRUE
    /\ StartReceive
    /\ UNCHANGED <<inMap, postClose, closing, endPoint, thread, stun, dtls, started, told, network>>

(* UdpNetworkObject::Create opens the socket and ends with StartReceive.     *)
CreateUdp ==
    /\ create = "new"
    /\ create' = "receiving"
    /\ socket' = "open"
    /\ StartReceive
    /\ UNCHANGED <<inMap, keepAlive, postClose, closing, endPoint, thread, stun, dtls, started,
                   told, network>>

CreateTransport ==
    /\ create = "receiving" /\ step # "dead"
    /\ create' = "transport"
    /\ transport' = TRUE
    /\ UNCHANGED <<inMap, udp, endPoint, thread, completed, response, dtls, started, told, network>>

(* SetNetworkTimer sets no timer of an object that is closing.               *)
SetNetworkTimer == keepAlive' = ~closing

(* SetKeepAliveSendTimer.                                                    *)
CreateKeepAlive ==
    /\ create = "transport"
    /\ create' = "created"
    /\ SetNetworkTimer
    /\ UNCHANGED <<inMap, socket, receive, postClose, closing, endPoint, thread, stun, dtls, started,
                   told, network>>

Insert ==
    /\ create = "created"
    /\ create' = "done" /\ inMap' = TRUE
    /\ UNCHANGED <<udp, endPoint, thread, stun, dtls, started, told, network>>

----------------------------------------------------------------------------
(* The network and the server.                                               *)

program == <<object, udp, endPoint, thread, stun, dtls, started, told>>

(* What comes while a handler runs waits in the socket: that it was lost      *)
(* shows when the next one is received, not earlier.                         *)
Lose(d) ==
    /\ d \in toServer \cup toClient
    /\ d \in toClient => step = "idle"
    /\ toServer' = toServer \ {d} /\ toClient' = toClient \ {d}
    /\ disturbed' = (disturbed \/ IsDtls(d))
    /\ UNCHANGED <<program, server>>

(* A datagram is taken off the wire, or comes a second time later.           *)
TakeOff(wire, d) == {wire, wire \ {d}}

(* What the server may send besides what is in toClient: the answer to a     *)
(* binding request, media when it has answered the last flight, an alert.    *)
Ambient ==
    (IF server.ids > 0 THEN {[type |-> "success", id |-> OwnId]} ELSE {})
    \cup (IF server.flights > 0 THEN {[type |-> "alert"]} ELSE {})
    \cup (IF server.flights = Flights THEN {[type |-> "rtp"]} ELSE {})

(* The socket is bound and not connected, it takes what anybody sends to its *)
(* port: what the server still sends to a session that had the port before,  *)
(* or another sender's. The alert stands for any DTLS datagram of another    *)
(* handshake.                                                                *)
Strays ==
    {[type |-> "request", id |-> OtherId], [type |-> "success", id |-> OtherId],
     [type |-> "alert"], [type |-> "rtp"]}

(* The server answers a binding request and sends one of its own, with a     *)
(* new transaction id or the last one. It knows no address to send to before.*)
ServerRecvRequest ==
    /\ Request \in toServer
    /\ toServer' \in TakeOff(toServer, Request)
    /\ \E id \in {server.ids, server.ids + 1} \cap 1..MaxRequests :      \* bound
          /\ server' = [server EXCEPT !.ids = id]
          /\ toClient' = toClient \cup {[type |-> "request", id |-> id]}
    /\ UNCHANGED <<program, disturbed>>

(* A response to one of the server's requests opens the way for DTLS.        *)
ServerRecvSuccess(d) ==
    /\ d \in toServer /\ d.type = "success"
    /\ toServer' \in TakeOff(toServer, d)
    /\ server' = [server EXCEPT !.accepted = @ \/ d.id \in 1..server.ids]
    /\ UNCHANGED <<program, toClient, disturbed>>

ServerRecvFlight(d) ==
    /\ d \in toServer /\ d.type = "flight"
    /\ server.accepted
    /\ toServer' \in TakeOff(toServer, d)
    /\ IF d.n = server.flights + 1
       THEN /\ server' = [server EXCEPT !.flights = d.n]
            /\ toClient' = toClient \cup {d}
       ELSE UNCHANGED <<server, toClient>>
    /\ UNCHANGED <<program, disturbed>>

(* The server repeats its last flight.                                       *)
ServerRepeat ==
    /\ server.flights > 0 /\ ~closing           \* bound
    /\ toClient' = toClient \cup {Flight(server.flights)}
    /\ UNCHANGED <<program, toServer, server, disturbed>>

----------------------------------------------------------------------------
(* Sending and closing.                                                      *)

(* PostSend: nothing is sent by an object that is closing. What is sent goes *)
(* to where the last datagram came from.                                     *)
PostSend(ds) ==
    toServer' = IF closing \/ endPoint # "server" THEN toServer ELSE toServer \cup ds

(* Nothing on the wire is looked at any more.                                *)
Closing ==
    /\ closing' = TRUE
    /\ toServer' = {} /\ toClient' = {}          \* bound

(* PostClose; its timer is set once.                                         *)
PostClose ==
    /\ Closing
    /\ postClose' = IF postClose = "none" THEN "set" ELSE postClose

(* GarbageCheck, through MainObject::RemoveNetwork and Remove, on the timer  *)
(* thread: whatever the thread of the socket is doing.                       *)
Remove ==
    /\ inMap
    /\ inMap' = FALSE
    /\ PostClose
    /\ UNCHANGED <<create, socket, receive, keepAlive, endPoint, thread, stun, dtls, started, told,
                   server, disturbed>>

(* OnSend or OnReceive is given an error and finds the object not closing.   *)
NetworkFails ==
    /\ step = "idle" /\ socket = "open" /\ ~closing
    /\ step' = "fail"
    /\ receive' \in {receive, FALSE}
    /\ UNCHANGED <<object, socket, keepAlive, postClose, closing, endPoint, inHand, stray, stun, dtls,
                   started, told, network>>

(* It goes on to set _is_closeing and to tell MainObject::OnNetworkClose,    *)
(* which removes the session, if it is in the map still.                     *)
NetworkError ==
    /\ step = "fail" /\ step' = "idle"
    /\ told' = Append(told, "closed")
    /\ inMap' = FALSE
    /\ IF inMap THEN PostClose ELSE Closing /\ UNCHANGED postClose
    /\ UNCHANGED <<create, socket, receive, keepAlive, endPoint, inHand, stray, stun, dtls, started,
                   server, disturbed>>

(* The receive of an object that is closing ends: the socket was closed      *)
(* under it, or a datagram came from anywhere, which is not handled.         *)
ReceiveEnds ==
    /\ step = "idle" /\ receive /\ closing
    /\ receive' = FALSE
    /\ UNCHANGED <<object, socket, keepAlive, postClose, closing, endPoint, thread, stun, dtls,
                   started, told, network>>

(* The keep-alive timer sends the binding request, always the same packet,   *)
(* and sets itself again.                                                    *)
KeepAliveTimer ==
    /\ step = "idle" /\ keepAlive
    /\ SetNetworkTimer
    /\ PostSend({Request})
    /\ UNCHANGED <<object, socket, receive, postClose, closing, endPoint, thread, stun, dtls,
                   started, told, toClient, server, disturbed>>

(* Mutant: the socket stays open.                                            *)
PostCloseLeavesOpen ==
    /\ step = "idle" /\ postClose = "set"
    /\ postClose' = "done"
    /\ UNCHANGED <<object, socket, receive, keepAlive, closing, endPoint, thread, stun, dtls,
                   started, told, network>>

PostCloseTimerProc ==
    /\ step = "idle" /\ postClose = "set"
    /\ postClose' = "done" /\ socket' = "closed"
    /\ UNCHANGED <<object, receive, keepAlive, closing, endPoint, thread, stun, dtls, started, told,
                   network>>

----------------------------------------------------------------------------
(* OnReceive, on the thread of the socket: it looks at _is_closeing, hands   *)
(* the datagram to RecvHandler, and receives again.                          *)

(* A datagram has come and the object is not closing. Where it came from is  *)
(* where the session sends to from now on.                                   *)
OnReceive(d) ==
    /\ step = "idle" /\ receive /\ ~closing
    /\ step' = "handle" /\ inHand' = d
    /\ receive' = FALSE
    /\ UNCHANGED <<object, socket, keepAlive, postClose, closing, stun, dtls, started, told,
                   toServer, server>>

OnReceiveAnswer(d) ==
    /\ d \in toClient \cup Ambient
    /\ toClient' \in TakeOff(toClient, d)
    /\ stray' = FALSE /\ endPoint' = "server"
    /\ OnReceive(d)
    /\ UNCHANGED disturbed

OnReceiveStray(d) ==
    /\ d \in Strays
    /\ disturbed' = TRUE
    /\ stray' = TRUE /\ endPoint' \in {"server", "other"}
    /\ OnReceive(d)
    /\ UNCHANGED toClient

(* What every handler of a datagram does and leaves alone.                   *)
Handle(d) ==
    /\ step = "handle" /\ d = inHand
    /\ step' = "rearm"
    /\ inHand' = Request /\ stray' = FALSE       \* forgotten
    /\ UNCHANGED <<object, udp, endPoint, transport, toClient, server, disturbed>>

(* RecvHandler is back, OnReceive ends with StartReceive.                    *)
Rearm ==
    /\ step = "rearm" /\ step' = "idle"
    /\ UNCHANGED <<object, socket, keepAlive, postClose, closing, endPoint, inHand, stray, stun, dtls,
                   started, told, network>>
    /\ StartReceive

(* Everything but a binding response uses _dtls_transport, with no test: it  *)
(* ends the program when Create has not set it.                              *)
NoTransport ==
    /\ step = "handle" /\ ~transport /\ inHand.type # "success"
    /\ step' = "dead"
    /\ UNCHANGED <<object, udp, endPoint, inHand, stray, stun, dtls, started, told, network>>

RecvSuccess(d) ==
    /\ d.type = "success"
    /\ Handle(d)
    /\ UNCHANGED <<completed, response, dtls, started, told, toServer>>

(* The response is made for the first request, with its transaction id, and  *)
(* sent again for the others.                                                *)
SendBindingResponse(id) ==
    response' = IF response = NoId THEN id ELSE response
Response == [type |-> "success", id |-> response']

(* The key and the certificate, the context, the BIO and the session: any of *)
(* them OpenSSL may fail to make. The methods of the BIO are made once and   *)
(* kept in a static, where the thread of another session may find them       *)
(* before they are whole.                                                    *)
MakeKey == BOOLEAN
MakeCertificate == BOOLEAN
Generate == {key /\ certificate : key \in MakeKey, certificate \in MakeCertificate}
PrepareSslContext == BOOLEAN
PrepareBioMethod == {"whole", "half"}
PrepareBio == PrepareBioMethod \cup {"none"}
PrepareSsl == BOOLEAN
Initialize == {IF context /\ ssl_ THEN bio ELSE "none" :
                  context \in PrepareSslContext, bio \in PrepareBio, ssl_ \in PrepareSsl}

(* Mutant: SSL_connect is left to the first datagram.                        *)
StartDTLSWaits ==
    /\ state' = "connecting" /\ ssl' = 1 /\ UNCHANGED buffer
    /\ PostSend({Response})

(* OnDataSend_DtlsTransport gets what OpenSSL writes: a flight, or nothing.  *)
Write(n) == IF n \in 1..Flights THEN {Flight(n)} ELSE {}

(* TlsCreate makes a BIO usable; it is among the callbacks the half-made     *)
(* methods lack.                                                             *)
TlsCreate(bio) == bio = "whole"

TlsWrite(bio, n) == IF TlsCreate(bio) THEN Write(n) ELSE {}

(* StartDTLS ends with a first call of SSL_connect, which sends a flight.    *)
StartDTLS ==
    \E generated \in Generate, bio \in Initialize :
        IF generated /\ bio # "none"
        THEN /\ state' = "connecting" /\ UNCHANGED buffer
             /\ ssl' = IF bio = "whole" THEN 1 ELSE 0
             /\ PostSend({Response} \cup TlsWrite(bio, 1))
        ELSE /\ state' = IF generated THEN "error" ELSE state
             /\ UNCHANGED <<buffer, ssl>>
             /\ PostSend({Response})

(* Mutant: the test of _is_completed is missing.                             *)
RecvBindingRequestAgain(d) ==
    /\ d.type = "request" /\ transport
    /\ Handle(d)
    /\ SendBindingResponse(d.id)
    /\ completed' = TRUE
    /\ StartDTLS
    /\ told' = IF state' = "connecting" THEN Append(told, "stun") ELSE told
    /\ UNCHANGED started

(* A binding request; the first one starts DTLS and is announced if it did.  *)
RecvBindingRequest(d) ==
    /\ d.type = "request" /\ transport
    /\ Handle(d)
    /\ SendBindingResponse(d.id)
    /\ completed' = TRUE
    /\ IF completed
       THEN UNCHANGED <<dtls, told>> /\ PostSend({Response})
       ELSE /\ StartDTLS
            /\ told' = IF state' = "connecting" THEN Append(told, "stun") ELSE told
    /\ UNCHANGED started

(* SaveDtlsPacket: one datagram is kept, a second is refused.                *)
SaveDtlsPacket(d) == IF buffer = <<>> THEN <<d>> ELSE buffer

(* Read: the front of the buffer is what OpenSSL gets, and is taken out.     *)
TakeDtlsPacket(saved) == buffer' = Tail(saved)
Read(saved) == Head(saved)

(* TlsRead as OpenSSL calls it, in SSL_connect or SSL_read, unless it has    *)
(* failed. Asked for more, it has nothing and says to try again.             *)
TlsRead(saved) == IF ssl = Failed THEN buffer' = saved ELSE TakeDtlsPacket(saved)

(* OpenSSL with the datagram it gets: the flight it waits for, which it      *)
(* answers, an alert, which it takes or drops, or an old one, at which it    *)
(* may send its last again.                                                  *)
OpenSsl(d) ==
    IF ssl = Failed
    THEN UNCHANGED <<ssl, toServer>>
    ELSE CASE d.type = "alert" -> ssl' \in {ssl, Failed} /\ UNCHANGED toServer
           [] d.type = "flight" /\ d.n = ssl ->
                  ssl' = ssl + 1 /\ PostSend(TlsWrite("whole", ssl + 1))
           [] OTHER -> /\ UNCHANGED ssl
                       /\ \/ UNCHANGED toServer
                          \/ PostSend(TlsWrite("whole", ssl))

(* SSL_connect; the handshake is over when it returns 1.                     *)
Connect(saved) == TlsRead(saved) /\ OpenSsl(Read(saved))
HandshakeOver == ssl' = Flights + 1

(* While connecting every DTLS datagram is a call of SSL_connect, and        *)
(* nothing else is. The keys exported at its end serve nothing yet.          *)
ContinueSSL(saved) ==
    /\ state = "connecting"
    /\ Connect(saved)
    /\ state' = IF HandshakeOver THEN "connected" ELSE state

(* SSL_read.                                                                 *)
SslRead(saved) == TlsRead(saved) /\ OpenSsl(Read(saved))

(* Mutant: nobody reads what comes after the handshake.                      *)
ReadNothing(saved) ==
    /\ state = "connected"
    /\ buffer' = saved
    /\ UNCHANGED <<state, ssl, toServer>>

(* After it, one of SSL_read.                                                *)
ReadConnected(saved) ==
    /\ state = "connected"
    /\ SslRead(saved)
    /\ UNCHANGED state

Running == state \in {"connecting", "connected"}

RecvDtls(d) ==
    /\ IsDtls(d) /\ transport
    /\ Handle(d)
    /\ LET saved == SaveDtlsPacket(d)
       IN  \/ ContinueSSL(saved)
           \/ ReadConnected(saved)
           \/ ~Running /\ UNCHANGED <<dtls, toServer>>
    /\ UNCHANGED <<completed, response, started, told>>

(* An RTP packet; the one that starts the second track is announced.         *)
RecvRtp(d) ==
    /\ IsRtp(d) /\ transport
    /\ Handle(d)
    /\ IF Running
       THEN /\ started' \in {started, started + 1} \cap 0..Tracks
            /\ told' = IF started' = Tracks /\ started # Tracks
                       THEN Append(told, "streaming") ELSE told
       ELSE UNCHANGED <<started, told>>
    /\ UNCHANGED <<completed, response, dtls, toServer>>

----------------------------------------------------------------------------
Creator == CreateUdp \/ CreateTransport \/ CreateKeepAlive \/ Insert

Receiver ==
    \/ \E d \in toClient \cup Ambient : OnReceiveAnswer(d)
    \/ \E d \in Strays : OnReceiveStray(d)

RecvHandler(d) ==
    \/ IsStun(d) /\ (RecvSuccess(d) \/ RecvBindingRequest(d))
    \/ ~IsStun(d) /\ (RecvDtls(d) \/ RecvRtp(d))
    \/ NoTransport

Server(d) ==
    \/ d = Request /\ ServerRecvRequest
    \/ ServerRecvSuccess(d)
    \/ ServerRecvFlight(d)

Next ==
    \/ Creator
    \/ Remove
    \/ KeepAliveTimer
    \/ PostCloseTimerProc
    \/ ReceiveEnds
    \/ NetworkFails \/ NetworkError
    \/ Receiver \/ RecvHandler(inHand) \/ Rearm
    \/ \E d \in toServer : Server(d)
    \/ \E d \in toServer \cup toClient : Lose(d)
    \/ ServerRepeat

Spec == Init /\ [][Next]_vars

(* Create goes on, a handler comes to its end, timers are run and an ended   *)
(* receive is handled. A datagram the other side waits for gets through some *)
(* time, if it is on its way again and again.                                *)
FairSpec ==
    /\ Spec
    /\ WF_vars(Creator)
    /\ WF_vars(RecvHandler(inHand) \/ Rearm \/ NetworkError)
    /\ SF_vars(KeepAliveTimer)
    /\ WF_vars(PostCloseTimerProc)
    /\ WF_vars(socket = "closed" /\ ReceiveEnds)
    /\ SF_vars(ServerRecvRequest)
    /\ SF_vars(\E d \in toServer : ServerRecvSuccess(d))
    /\ SF_vars(ServerRecvFlight(Flight(server.flights + 1)))
    /\ SF_vars(\E d \in toClient : d.type = "request" /\ OnReceiveAnswer(d))
    /\ SF_vars(OnReceiveAnswer(Flight(ssl)))

----------------------------------------------------------------------------
(* RecvHandler uses _dtls_transport without a test, and the receive starts   *)
(* before it is set. What the server sends to this session always finds it:  *)
(* the server is silent until it is asked, and the timer that asks it is set *)
(* last. Only a datagram of another sender, or one meant for a session that  *)
(* had the port before, can end the program.                                 *)
ServerFindsTransport ==
    /\ TypeOK
    /\ step = "dead" => stray

(* SaveDtlsPacket says that what is saved is used at once. It is, as long as *)
(* OpenSSL has not failed; after that the buffer is never emptied.           *)
BufferedIsUsed == buffer # <<>> => ssl = Failed

(* MainObject is told of STUN, of the stream and of the end as SessionSetup  *)
(* says, whatever is lost, doubled or reordered, and wherever in a handler   *)
(* the removal comes: after it at most one thing more is told, by the        *)
(* handler that had looked at _is_closeing before.                           *)
Setup == INSTANCE SessionSetup WITH silent <- closing, busy <- step \in {"handle", "fail"}
SetupSpec == Setup!Spec

(* Why they hold: the inductive invariant of the proofs.                     *)

(* Whatever comes from the server was asked for by a session that is whole.  *)
AskedInv ==
    /\ create \in {"transport", "created", "done"} => transport
    /\ keepAlive => transport
    /\ toServer # {} \/ toClient # {} => transport
    /\ server.ids > 0 \/ server.flights > 0 => transport
    /\ step = "handle" /\ ~stray => transport

(* What was announced follows from how far STUN, DTLS and the tracks are,    *)
(* and an end announced is the last.                                         *)
Announced ==
    IF ~Running THEN <<>> ELSE IF started < Tracks THEN <<"stun">> ELSE <<"stun", "streaming">>
ToldInv ==
    /\ ~completed => state = "none" /\ ssl = 0
    /\ ~Running => started = 0
    /\ \/ told = Announced
       \/ closing /\ step \notin {"handle", "fail"}

IInv == ServerFindsTransport /\ AskedInv /\ BufferedIsUsed /\ ToldInv

(* STUN survives loss, the request is repeated until the server's comes      *)
(* through; and then the DTLS handshake completes, unless a datagram of it   *)
(* was lost, which the program does not make up for, or a stray one turned   *)
(* the session away from the server or took its binding response, or OpenSSL *)
(* failed, or could not send its first flight.                               *)
HandshakeCompletes ==
    (create = "done") ~> (state = "connected" \/ disturbed \/ closing
                          \/ (completed /\ ssl \in {Failed, 0}))

(* A session that was removed lets go of its socket, its timers and itself.  *)
RemovedIsReleased ==
    (create = "done" /\ ~inMap)
        ~> (socket = "closed" /\ ~receive /\ ~keepAlive /\ postClose = "done" /\ step = "idle")
=============================================================================
