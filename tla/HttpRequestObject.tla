-------------------------- MODULE HttpRequestObject --------------------------
(***************************************************************************)
(* An HTTP connection with both its ends: HttpRequestObject sends requests *)
(* and takes the contents out of the answers, HttpResponseObject (or       *)
(* another server, which may send its answers in chunks) answers.          *)
(*                                                                         *)
(* RecvHandler of HttpRequestObject takes one answer from the bytes it is  *)
(* given and tells OnReceive how many it has used; whatever follows waits  *)
(* for the next bytes. Its search for the end of the header does not look  *)
(* at the last place of the data.                                          *)
(***************************************************************************)
EXTENDS HttpResponseObject

CONSTANT Garbage    \* a content that is not the content of an answer

ASSUME GarbageAssumption == Garbage \notin 1..MaxRequests

VARIABLES
    chunks,    \* the server sends its answers in chunks
    crest,     \* the client's _rest_data
    cclosed,   \* the client's connection is closed
    contents   \* what RecvContent has got: the answers whose content it was

clientVars == <<chunks, crest, cclosed, contents>>
vars == <<requests, toServer, toClient, serverVars, clientVars>>

TypeOK ==
    /\ requests \in Seq(Requests) /\ Len(answers) <= Len(requests)
    /\ parsing \in BOOLEAN /\ last10 \in BOOLEAN /\ completeClose \in BOOLEAN
    /\ cors \in STRING
    /\ queue \in Seq([of : 1..MaxRequests, size : Nat, chunked : BOOLEAN,
                      cors : STRING])
    /\ closeTimer \in BOOLEAN /\ closing \in BOOLEAN /\ finished \in BOOLEAN
    /\ chunks \in BOOLEAN /\ cclosed \in BOOLEAN
    /\ contents \in Seq(1..MaxRequests \cup {Garbage})

Init ==
    /\ ServerInit
    /\ chunks \in BOOLEAN
    /\ crest = <<>> /\ cclosed = FALSE /\ contents = <<>>

----------------------------------------------------------------------------
(* Requests                                                                 *)

(* The client waits for an answer before it sends the next request to a     *)
(* server that chunks; it sends nothing after a request that closes.        *)
MaySend ==
    /\ Len(requests) < MaxRequests                             \* bound
    /\ chunks => Len(contents) = Len(requests)
    /\ \A i \in DOMAIN requests : requests[i].version = "1.1"

(* SendRequest has no body, SendPostMethodRequest may have one.             *)
SendRequest(r) ==
    /\ ~cclosed /\ MaySend
    /\ requests' = Append(requests, r)
    /\ toServer' = toServer \o RequestParts(Len(requests) + 1, r)
    /\ UNCHANGED <<toClient, serverVars, clientVars>>

----------------------------------------------------------------------------
(* RecvHandler                                                              *)

(* strnstr: the delimiter is found only where another byte follows it.      *)
HeaderFound(data) == \E i \in HeaderEnds(data) : i < Len(data)

AnswerOf(data) == answers[data[1].of]

(* The answer whose content the parts are.                                  *)
ContentIs(data, content) ==
    IF content = Parts(data[1].of, "content", AnswerOf(data).size)
         \/ content = Parts(data[1].of, "chunk", AnswerOf(data).size)
    THEN data[1].of ELSE Garbage

(* Not enough yet: RecvHandler returns 0.                                   *)
Incomplete(data) ==
    \/ ~HeaderFound(data)
    \/ /\ HeaderFound(data)
       /\ IF AnswerOf(data).chunked
          THEN Last(data).part # "last"
          ELSE Len(data) < FirstEnd(data) + AnswerOf(data).size

(* Mutant: everything there is belongs to the answer, as in the chunked     *)
(* case.                                                                    *)
UsedAll(data) == Len(data)

(* How much of the data the answer is. The chunked case takes all of it.    *)
Used(data) ==
    IF AnswerOf(data).chunked
    THEN Len(data)
    ELSE FirstEnd(data) + AnswerOf(data).size

(* The chunk of size 0, at which the loop over the chunks ends.             *)
ChunkEnd(data) ==
    CHOOSE i \in DOMAIN data :
        data[i].part = "last" /\ \A j \in 1..(i - 1) : data[j].part # "last"

(* The bytes that Content-Length counts, or those of the chunks.            *)
Content(data) ==
    LET h == FirstEnd(data)
    IN IF AnswerOf(data).chunked
       THEN SubSeq(data, h + 1, ChunkEnd(data) - 1)
       ELSE SubSeq(data, h + 1, h + AnswerOf(data).size)

(* OnReceive of the client, RecvHandler with it.                            *)
ClientReceive(n) ==
    /\ ~cclosed
    /\ toClient' = SubSeq(toClient, n + 1, Len(toClient))
    /\ LET data == crest \o SubSeq(toClient, 1, n)
       IN IF Incomplete(data)
          THEN crest' = data /\ UNCHANGED contents
          ELSE /\ crest' = SubSeq(data, Used(data) + 1, Len(data))
               /\ contents' = Append(contents, ContentIs(data, Content(data)))
    /\ UNCHANGED <<requests, toServer, serverVars, chunks, cclosed>>

(* The server's socket is closed and everything written has been read.      *)
ClientEof ==
    /\ ~cclosed /\ closing /\ toClient = <<>>
    /\ cclosed' = TRUE
    /\ UNCHANGED <<requests, toServer, toClient, serverVars, chunks, crest, contents>>

Client ==
    \/ \E r \in Requests : SendRequest(r)
    \/ \E n \in 1..Len(toClient) : ClientReceive(n)
    \/ ClientEof

Server == ServerNext(chunks) /\ UNCHANGED clientVars

Next == Client \/ Server

Spec == Init /\ [][Next]_vars

----------------------------------------------------------------------------
(* Properties                                                               *)

(* However the bytes of either direction are cut, and whatever was asked    *)
(* without waiting for the answer, the contents RecvContent gets are those  *)
(* of the answers to the requests, in their order, none skipped, none       *)
(* twice and none made of other bytes.                                      *)
Channel == INSTANCE FifoChannel WITH
    Messages <- 1..MaxRequests,
    accepted <- [i \in 1..Len(requests) |-> i],
    delivered <- contents,
    closed <- cclosed

ContentsInOrder == Channel!ChannelSpec

(* The connection that is closed because its HTTP/1.0 request is answered   *)
(* is closed after the answers to all its requests have been sent.          *)
AnsweredBeforeClose ==
    /\ TypeOK
    /\ finished => queue = <<>> /\ Len(answers) = Len(requests)

(* CORS headers are sent to a client only after one of its own requests has *)
(* come from the listed origin they name.                                   *)
CorsAsAsked ==
    \A k \in DOMAIN answers :
        answers[k].cors # NoOrigin =>
            /\ answers[k].cors \in CorsOriginList
            /\ \E i \in 1..k : requests[i].origin = answers[k].cors

(* Why they hold: the inductive invariant of the proofs.                     *)

(* What is sent, posted and on its way; the client is given only parts of    *)
(* answers there are.                                                        *)
RequestPart == [of : 1..MaxRequests, part : {"head", "end", "body"}]
AnswerPart == [of : 1..Len(answers),
               part : {"head", "end", "content", "chunk", "last"}]
PartsInv ==
    /\ Len(requests) <= MaxRequests
    /\ answers \in Seq([of : 1..MaxRequests, size : Nat, chunked : BOOLEAN, cors : STRING])
    /\ srest \in Seq(RequestPart) /\ toServer \in Seq(RequestPart)
    /\ crest \in Seq(AnswerPart) /\ toClient \in Seq(AnswerPart)
    /\ \A i \in DOMAIN queue : queue[i].of <= Len(answers)

(* What the server has not parsed: the header ends in it are those of the    *)
(* requests after the k-th up to the m-th, in order, and what follows the    *)
(* last of them is a body, which is never oversized.                         *)
EndsOf(data, k, m) ==
    /\ \A i \in HeaderEnds(data) : data[i].of \in (k + 1)..m
    /\ \A i, j \in HeaderEnds(data) : i < j => data[i].of < data[j].of
    /\ \A q \in (k + 1)..m : \E i \in HeaderEnds(data) : data[i].of = q
    /\ \A i \in HeaderEnds(data) : data[i].of = m => Len(data) - i <= MaxData
    /\ k = m => Len(data) <= MaxData

Unparsed == srest \o toServer
EndsInv == ~closing => EndsOf(Unparsed, Len(answers), Len(requests))

(* A request that closes is the last one; once it was found all are          *)
(* answered, and the close timer waits for the last answer.                  *)
LastInv == \A i \in DOMAIN requests : requests[i].version # "1.1" => i = Len(requests)
CloseInv ==
    /\ last10 \/ completeClose \/ closeTimer =>
            /\ Len(answers) = Len(requests)
            /\ \E i \in DOMAIN requests : requests[i].version = "1.0"
    /\ closeTimer => queue = <<>>
    /\ finished => closeTimer
    /\ closing => ~parsing

(* The origin CORS is enabled for is that of an answered request.            *)
OriginInv == cors # NoOrigin =>
    /\ cors \in CorsOriginList
    /\ \E i \in 1..Len(answers) : requests[i].origin = cors

IInv == TypeOK /\ PartsInv /\ EndsInv /\ LastInv /\ CloseInv /\ OriginInv /\ CorsAsAsked

(* What the client has not taken yet: the parts of the answers after the     *)
(* c-th up to the w-th, each whole and one behind the other.                 *)
AnswersAt(start, ans, data, c, w) ==
    /\ start[c + 1] = 0 /\ start[w + 1] = Len(data)
    /\ \A p, q \in (c + 1)..(w + 1) : p <= q => start[p] <= start[q]
    /\ \A q \in (c + 1)..w :
          /\ start[q + 1] = start[q] + Len(AnswerParts(ans[q]))
          /\ \A j \in DOMAIN AnswerParts(ans[q]) :
                data[start[q] + j] = AnswerParts(ans[q])[j]
FlowOf(ans, data, c, w) ==
    \E start \in [(c + 1)..(w + 1) -> 0..Len(data)] : AnswersAt(start, ans, data, c, w)

(* The answers after the w-th are queued, or a closing connection has        *)
(* dropped them.                                                             *)
QueuedAfter(w) ==
    \/ closing /\ queue = <<>>
    \/ /\ Len(queue) = Len(answers) - w
       /\ \A i \in DOMAIN queue : queue[i] = answers[w + i]
Untaken == crest \o toClient
FlowInv ==
    \E w \in Len(contents)..Len(answers) :
        QueuedAfter(w) /\ FlowOf(answers, Untaken, Len(contents), w)

(* Answers are counted as they are posted; a server that chunks has only one *)
(* the client has not taken.                                                 *)
NumberInv ==
    /\ \A i \in DOMAIN answers : answers[i].of = i /\ (answers[i].chunked => chunks)
    /\ chunks => Len(requests) <= Len(contents) + 1

ContentInv == NumberInv /\ FlowInv
=============================================================================
