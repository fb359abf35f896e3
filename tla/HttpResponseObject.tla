------------------------- MODULE HttpResponseObject -------------------------
(***************************************************************************)
(* The server's end of an HTTP connection: HttpResponseObject cuts the     *)
(* bytes that arrive into request headers, hands each page to RecvRequest  *)
(* of the class derived from it, and posts the answers that RecvRequest    *)
(* makes. An HTTP/1.0 request asks for the connection to be closed once    *)
(* its answer is sent.                                                     *)
(*                                                                         *)
(* Bytes are abstracted to parts of a message: the beginning of a header,  *)
(* the delimiter that ends it, a part of the body. OnReceive and OnSend    *)
(* run on the one thread of the connection's service, so that OnSend does  *)
(* not come between two steps of RecvHandler.                              *)
(***************************************************************************)
EXTENDS Naturals, Sequences, SequencesExt

CONSTANTS
    Requests,        \* what clients send: [version, origin, body]
    CorsOriginList,  \* _cors_origin_list, the origins that get CORS headers
    NoOrigin,
    MaxData,         \* HTTP_REQUEST_DATA_MAX_SIZE, in parts
    AnswerSizes,     \* bound: the sizes of an answer's content, in parts
    MaxRequests      \* bound

ASSUME HttpAssumption ==
    /\ Requests \subseteq [version : {"0.9", "1.0", "1.1"}, origin : STRING, body : Nat]
    /\ CorsOriginList \subseteq STRING /\ NoOrigin \in STRING \ CorsOriginList
    /\ MaxData \in Nat /\ MaxRequests \in Nat /\ AnswerSizes \subseteq Nat
    /\ \A r \in Requests : r.body <= MaxData

VARIABLES
    requests,   \* the requests the client has sent
    toServer,   \* parts of them on their way
    srest,      \* the server's _rest_data; in RecvHandler what is not parsed
    parsing,    \* RecvHandler is running
    last10,     \* is_complete_close: this call has handled an HTTP/1.0 request
    completeClose,  \* _send_complete_close
    cors,       \* _cors_origin_url when _cors_use, else NoOrigin
    answers,    \* the answers PostSend has queued so far
    queue,      \* _send_datas: those not sent yet
    closeTimer, \* SetCloseTimer has armed the close timer
    closing,    \* _is_closeing
    finished,   \* the close timer has closed the connection
    toClient    \* parts of the answers on their way

serverVars == <<srest, parsing, last10, completeClose, cors, answers, queue,
                closeTimer, closing, finished>>

ServerInit ==
    /\ requests = <<>> /\ toServer = <<>> /\ toClient = <<>>
    /\ srest = <<>> /\ parsing = FALSE /\ last10 = FALSE
    /\ completeClose = FALSE /\ cors = NoOrigin
    /\ answers = <<>> /\ queue = <<>>
    /\ closeTimer = FALSE /\ closing = FALSE /\ finished = FALSE

----------------------------------------------------------------------------
(* The parts of a message.                                                  *)

Part(k, p) == [of |-> k, part |-> p]
Parts(k, p, n) == [i \in 1..n |-> Part(k, p)]

RequestParts(k, r) == <<Part(k, "head"), Part(k, "end")>> \o Parts(k, "body", r.body)

AnswerParts(a) ==
    <<Part(a.of, "head"), Part(a.of, "end")>>
        \o (IF a.chunked THEN Append(Parts(a.of, "chunk", a.size), Part(a.of, "last"))
                         ELSE Parts(a.of, "content", a.size))

(* The places where a delimiter ends a header.                              *)
HeaderEnds(data) == {i \in DOMAIN data : data[i].part = "end"}
FirstEnd(data) == CHOOSE i \in HeaderEnds(data) : \A j \in HeaderEnds(data) : i <= j

----------------------------------------------------------------------------
(* Answers: each names the request it answers, by the order of the answers. *)

Answer(n, chunks) ==
    [of |-> Len(answers) + 1, size |-> n, chunked |-> chunks, cors |-> cors']

(* PostSend: the write starts at once when the queue was empty.             *)
Post(a) == answers' = Append(answers, a) /\ queue' = Append(queue, a)

(* SendResponse, and SendRedirectResponse with a content.                   *)
SendResponse(chunks) == \E n \in AnswerSizes : Post(Answer(n, chunks))

(* SendRedirectResponse(url): Content-Length is 0.                          *)
SendRedirectResponse == Post(Answer(0, FALSE))

SendErrorResponse == Post(Answer(1, FALSE))

(* RecvRequest of the derived class makes one answer. A server that is not  *)
(* an HttpResponseObject may send it in chunks.                             *)
RecvRequest(chunks) ==
    \/ SendResponse(chunks)
    \/ ~chunks /\ SendRedirectResponse
    \/ ~chunks /\ SendErrorResponse

----------------------------------------------------------------------------
(* OnReceive and RecvHandler                                                *)

(* The next n parts, after what the last call left over.                    *)
OnReceive(n) ==
    /\ ~parsing /\ ~closing
    /\ srest' = srest \o SubSeq(toServer, 1, n)
    /\ toServer' = SubSeq(toServer, n + 1, Len(toServer))
    /\ parsing' = TRUE /\ last10' = FALSE
    /\ UNCHANGED <<requests, completeClose, cors, answers, queue, closeTimer,
                   closing, finished, toClient>>

Oversized == Len(srest) > MaxData

(* More than the limit is left over: an error answer, and OnReceive closes  *)
(* the connection.                                                          *)
RecvOversized ==
    /\ parsing /\ Oversized
    /\ parsing' = FALSE /\ closing' = TRUE
    /\ cors' = cors
    /\ SendErrorResponse
    /\ UNCHANGED <<requests, toServer, srest, last10, completeClose, closeTimer,
                   finished, toClient>>

(* Fewer than three words in the request line: nothing is answered.         *)
RecvMalformed ==
    /\ parsing /\ ~Oversized /\ HeaderEnds(srest) # {}
    /\ requests[srest[FirstEnd(srest)].of].version = "0.9"
    /\ parsing' = FALSE /\ closing' = TRUE
    /\ UNCHANGED <<requests, toServer, srest, last10, completeClose, cors, answers,
                   queue, closeTimer, finished, toClient>>

(* Mutant: the origin is not looked up in the list.                         *)
EnableCorsUnlisted(origin) == cors' = IF origin # NoOrigin THEN origin ELSE cors

(* EnableCors: the origin of a listed request stays until another comes.    *)
EnableCors(origin) == cors' = IF origin \in CorsOriginList THEN origin ELSE cors

(* The header that ends next. A body before it is part of its first line;   *)
(* the page is the second word of that line all the same: no body begins    *)
(* with an empty line, at which the loop would stop.                        *)
RecvHeader(chunks) ==
    /\ parsing /\ ~Oversized /\ HeaderEnds(srest) # {}
    /\ LET e == FirstEnd(srest)
           r == requests[srest[e].of]
       IN /\ r.version # "0.9"
          /\ EnableCors(r.origin)
          /\ RecvRequest(chunks)
          /\ last10' = (last10 \/ r.version = "1.0")
          /\ srest' = SubSeq(srest, e + 1, Len(srest))
    /\ UNCHANGED <<requests, toServer, parsing, completeClose, closeTimer, closing,
                   finished, toClient>>

(* RecvHandler returns: _send_complete_close is what this call has found.   *)
RecvReturn ==
    /\ parsing /\ ~Oversized /\ HeaderEnds(srest) = {}
    /\ parsing' = FALSE
    /\ completeClose' = last10
    /\ UNCHANGED <<requests, toServer, srest, last10, cors, answers, queue,
                   closeTimer, closing, finished, toClient>>

----------------------------------------------------------------------------
(* OnSend and the close timer                                               *)

(* A timer is not set for a connection that closes already.                 *)
SetNetworkTimer == ~closing

(* The timer before it, if there is one, is cancelled.                      *)
SetCloseTimer == closeTimer' = SetNetworkTimer

(* Mutant: the timer is armed although another answer waits.                *)
OnSendClosesEarly ==
    /\ ~parsing /\ queue # <<>>
    /\ toClient' = toClient \o AnswerParts(Head(queue))
    /\ queue' = IF closing THEN <<>> ELSE Tail(queue)
    /\ IF ~closing /\ completeClose THEN SetCloseTimer ELSE UNCHANGED closeTimer
    /\ UNCHANGED <<requests, toServer, srest, parsing, last10, completeClose, cors,
                   answers, closing, finished>>

(* A write has ended. Once the connection closes no other is started; the   *)
(* answer after which the queue is empty arms the close timer.              *)
OnSend ==
    /\ ~parsing /\ queue # <<>>
    /\ toClient' = toClient \o AnswerParts(Head(queue))
    /\ queue' = IF closing THEN <<>> ELSE Tail(queue)
    /\ IF ~closing /\ completeClose /\ Tail(queue) = <<>>
       THEN SetCloseTimer ELSE UNCHANGED closeTimer
    /\ UNCHANGED <<requests, toServer, srest, parsing, last10, completeClose, cors,
                   answers, closing, finished>>

CloseTimerProc ==
    /\ ~parsing /\ closeTimer /\ ~closing
    /\ closing' = TRUE /\ finished' = TRUE
    /\ UNCHANGED <<requests, toServer, srest, parsing, last10, completeClose, cors,
                   answers, queue, closeTimer, toClient>>

ServerNext(chunks) ==
    \/ \E n \in 1..Len(toServer) : OnReceive(n)
    \/ RecvOversized \/ RecvMalformed \/ RecvHeader(chunks) \/ RecvReturn
    \/ OnSend \/ CloseTimerProc
=============================================================================
