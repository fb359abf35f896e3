--------------------------- MODULE SignallingOffer ---------------------------
(***************************************************************************)
(* One signalling connection from the WebSocket handshake on: the offers   *)
(* it is sent, the answers SignallingServerObject makes of them, and what  *)
(* it tells MainObject, which creates a media session from it. A text      *)
(* frame is parsed line by line on the io_service thread of the connection;*)
(* another thread may begin to close the connection while it is.           *)
(*                                                                         *)
(* A line of an SDP is a record of what the line is and the value the      *)
(* regular expressions of ParsingMediaLine take out of it.                 *)
(***************************************************************************)
EXTENDS Naturals, Sequences

CONSTANTS
    Sdps,           \* the SDPs the media server may offer
    Candidates,     \* the candidates it may give
    Values,         \* the strings it may write in a line
    MaxOffers       \* bound: offers on the connection

(* A string that is still empty. The regular expressions may take an empty   *)
(* string out of a line, too.                                                *)
Empty == ""
Text == Values \cup {Empty}

LineKinds == {"m", "mid", "rtpmap", "ufrag", "pwd", "options", "other"}
IceKinds == {"ufrag", "pwd", "options"}
Line == [kind : LineKinds, value : Text]

ASSUME SignallingOfferAssumption == Sdps \subseteq Seq(Line) /\ MaxOffers \in Nat

NoCandidate == "none"
SessionTypes == {"video", "audio"}

MlineInfo == [mline : Text, mid : Text, rtpmap : Text]
NewMline == [mline |-> Empty, mid |-> Empty, rtpmap |-> Empty]

VARIABLES
    connection,     \* "connected", "requested" (the offer), "failed" or "closing"
    mlineInfos,     \* _mline_infos
    currentMline,   \* _current_mline_info, a sequence of at most one
    credentials,    \* _offer_ufrag, _offer_pwd, _offer_ice_option
    candidate,      \* _candidate_ip and _candidate_port
    sessionId,      \* _session_id
    parsing,        \* OnRecvWebsocketData runs
    unparsed,       \* the lines ParsingSdp has not read
    messages,       \* what PostSend took, in order
    completed,      \* the arguments of OnHandshakeComplete_SignallingServer
    failures,       \* calls of OnJsonDataFail_SignallingServer
    lines,          \* history: the lines parsed, of all offers
    answered        \* history: how many there were when each offer was answered

parser == <<mlineInfos, currentMline, credentials>>
frame == <<candidate, sessionId, parsing, unparsed>>
announced == <<completed, failures>>
read == <<lines, answered>>
offerVars == <<connection, parser, frame, messages, announced, read>>

OfferInit ==
    /\ connection = "connected"
    /\ mlineInfos = <<>> /\ currentMline = <<>>
    /\ credentials = [kind \in IceKinds |-> Empty]
    /\ candidate = NoCandidate /\ sessionId = 0
    /\ parsing = FALSE /\ unparsed = <<>>
    /\ messages = <<>> /\ completed = <<>> /\ failures = 0
    /\ lines = <<>> /\ answered = <<>>

----------------------------------------------------------------------------
(* ParsingMediaLine, by the kind of the line.                                *)

(* An m-line begins a section and puts the one before it away.               *)
MLine(line) ==
    /\ line.kind = "m"
    /\ mlineInfos' = mlineInfos \o currentMline
    /\ currentMline' = <<[NewMline EXCEPT !.mline = line.value]>>
    /\ UNCHANGED credentials

(* The mid of a section is the last one. A line before any section says      *)
(* nothing of a section.                                                     *)
Mid(line) ==
    /\ line.kind = "mid"
    /\ currentMline' =
        IF currentMline # <<>> THEN [currentMline EXCEPT ![1].mid = line.value] ELSE <<>>
    /\ UNCHANGED <<mlineInfos, credentials>>

(* Mutant: every rtpmap of a section replaces the one before it.             *)
RtpmapReplaced(line) ==
    /\ line.kind = "rtpmap"
    /\ currentMline' =
        IF currentMline # <<>> THEN [currentMline EXCEPT ![1].rtpmap = line.value] ELSE <<>>
    /\ UNCHANGED <<mlineInfos, credentials>>

(* The rtpmap of a section is the first one.                                 *)
Rtpmap(line) ==
    /\ line.kind = "rtpmap"
    /\ currentMline' =
        IF currentMline # <<>> /\ currentMline[1].rtpmap = Empty
        THEN [currentMline EXCEPT ![1].rtpmap = line.value] ELSE currentMline
    /\ UNCHANGED <<mlineInfos, credentials>>

(* Mutant: the ICE lines of every offer are kept.                            *)
IceLineReplaced(line) ==
    /\ line.kind \in IceKinds
    /\ credentials' = [credentials EXCEPT ![line.kind] = line.value]
    /\ UNCHANGED <<mlineInfos, currentMline>>

(* _offer_ufrag, _offer_pwd, _offer_ice_option: the first of each is kept.   *)
IceLine(line) ==
    /\ line.kind \in IceKinds
    /\ credentials' =
        [credentials EXCEPT ![line.kind] = IF @ = Empty THEN line.value ELSE @]
    /\ UNCHANGED <<mlineInfos, currentMline>>

ParsingMediaLine(line) ==
    \/ MLine(line) \/ Mid(line) \/ Rtpmap(line) \/ IceLine(line)
    \/ line.kind = "other" /\ UNCHANGED parser

(* One line of ParsingSdp.                                                   *)
ParsingSdp ==
    /\ parsing /\ unparsed # <<>>
    /\ ParsingMediaLine(Head(unparsed))
    /\ unparsed' = Tail(unparsed)
    /\ lines' = Append(lines, Head(unparsed))
    /\ UNCHANGED <<connection, candidate, sessionId, parsing, messages, announced, answered>>

(* The section that is current at the end is put away, and stays current.    *)
ParsedMlines == mlineInfos \o currentMline

(* The codec of a track and its number come from the rtpmap line.            *)
Track(m) ==
    [type |-> IF m.mline \in SessionTypes THEN m.mline ELSE "unknown", codec |-> m.rtpmap]

OfType(tracks, type) == {i \in DOMAIN tracks : tracks[i].type = type}

(* Mutant: the first track of a type is taken.                               *)
FirstTracks(tracks) ==
    [type \in {t \in SessionTypes : OfType(tracks, t) # {}} |->
        tracks[CHOOSE i \in OfType(tracks, type) : \A j \in OfType(tracks, type) : i <= j]]

(* The tracks DtlsTransport takes: of each type the last in the list.        *)
SessionTracks(tracks) ==
    [type \in {t \in SessionTypes : OfType(tracks, t) # {}} |->
        tracks[CHOOSE i \in OfType(tracks, type) : \A j \in OfType(tracks, type) : j <= i]]

----------------------------------------------------------------------------
(* PostSend takes a message, if the connection is not being closed.          *)
PostSend(message) == messages' = Append(messages, message)

(* The request of the WebSocket handshake.                                   *)
RequestHandshake == PostSend([command |-> "handshake"])

(* SignallingServerConnectedProc has the map find the object by its key and  *)
(* send the handshake; an object that closes has left the map.               *)
SendHandshake ==
    /\ connection = "connected" /\ messages = <<>>
    /\ RequestHandshake
    /\ UNCHANGED <<connection, parser, frame, announced, read>>

SendRequestOfferCommand == PostSend([command |-> "request_offer"])

(* When the server accepts the handshake, the offer is requested. A refused  *)
(* handshake ends the connection.                                            *)
OnHandshakeComplete(result) ==
    /\ connection = "connected" /\ messages # <<>>
    /\ IF result
       THEN connection' = "requested" /\ SendRequestOfferCommand
       ELSE connection' = "failed" /\ UNCHANGED messages
    /\ UNCHANGED <<parser, frame, announced, read>>

(* The first candidate of the array; its address is that of the session.     *)
ParsingCandidate == candidate' \in Candidates

(* A frame that is no JSON, or lacks candidates, the id or the SDP; what     *)
(* stands before the missing part is kept. RecvDataProc and OnReceive then   *)
(* close the connection.                                                     *)
JsonDataFail(missing) ==
    /\ IF missing \in {"id", "sdp"} THEN ParsingCandidate ELSE UNCHANGED candidate
    /\ sessionId' = IF missing = "sdp" THEN Len(answered) + 1 ELSE sessionId
    /\ failures' = failures + 1
    /\ connection' = "failed"
    /\ UNCHANGED <<parser, parsing, unparsed, messages, completed, read>>

(* ParsingSignallingData of an offer, up to its SDP.                         *)
RecvOffer(sdp) ==
    /\ Len(answered) < MaxOffers                  \* bound
    /\ ParsingCandidate
    /\ sessionId' = Len(answered) + 1
    /\ parsing' = TRUE /\ unparsed' = sdp
    /\ UNCHANGED <<connection, parser, messages, announced, read>>

OnRecvWebsocketData ==
    /\ connection = "requested" /\ ~parsing
    /\ \/ \E missing \in {"json", "candidates", "id", "sdp"} : JsonDataFail(missing)
       \/ \E sdp \in Sdps : RecvOffer(sdp)

(* The answer has a section for each m-line, under the credentials of this   *)
(* connection.                                                               *)
Answer ==
    [command |-> "answer", id |-> sessionId, sections |-> ParsedMlines,
     options |-> credentials["options"]]

(* OnHandshakeComplete_SignallingServer, and the tracks taken off the list.  *)
CompleteOffer ==
    LET tracks == [i \in DOMAIN ParsedMlines |-> Track(ParsedMlines[i])]
    IN  /\ completed' = Append(completed,
                [candidate |-> candidate, credentials |-> credentials, tracks |-> tracks])
        /\ mlineInfos' = <<>>

(* The rest of OnRecvWebsocketData: the offer is answered and announced.     *)
(* PostSend refuses the answer of a connection that is being closed, and its *)
(* result is not looked at.                                                  *)
SendAnswerCommand ==
    /\ parsing /\ unparsed = <<>>
    /\ IF connection = "closing" THEN UNCHANGED messages ELSE PostSend(Answer)
    /\ CompleteOffer
    /\ parsing' = FALSE
    /\ answered' = Append(answered, Len(lines))
    /\ UNCHANGED <<connection, currentMline, credentials, candidate, sessionId, unparsed, failures, lines>>

(* Another thread closes the connection; no frame is handled after it.       *)
PostClose ==
    /\ connection # "closing"
    /\ connection' = "closing"
    /\ UNCHANGED <<parser, frame, messages, announced, read>>

OfferNext ==
    \/ SendHandshake
    \/ \E result \in BOOLEAN : OnHandshakeComplete(result)
    \/ OnRecvWebsocketData \/ ParsingSdp \/ SendAnswerCommand
    \/ PostClose

OfferSpec == OfferInit /\ [][OfferNext]_offerVars

----------------------------------------------------------------------------
(* What the lines ls say, without the parser.                                *)

IsMline(ls, i) == ls[i].kind = "m"

(* The first value, or the last one, that lines at these places have; Empty  *)
(* if there is none.                                                         *)
IsFirst(value, ls, places) ==
    IF value = Empty
    THEN \A i \in places : ls[i].value = Empty
    ELSE \E i \in places :
            ls[i].value = value /\ \A j \in places : j < i => ls[j].value = Empty

IsLast(value, ls, places) ==
    IF places = {}
    THEN value = Empty
    ELSE \E i \in places : ls[i].value = value /\ \A j \in places : j <= i

(* The lines of a kind in the section of m-line i, of those up to end.       *)
Places(ls, i, end, kind) ==
    {j \in i..end : ls[j].kind = kind /\ \A k \in (i + 1)..j : ~IsMline(ls, k)}

(* The section of m-line i, as the lines up to end have it.                  *)
IsSection(m, ls, i, end) ==
    /\ m.mline = ls[i].value
    /\ IsLast(m.mid, ls, Places(ls, i, end, "mid"))
    /\ IsFirst(m.rtpmap, ls, Places(ls, i, end, "rtpmap"))

IsTrack(t, ls, i, end) ==
    /\ t.type = IF ls[i].value \in SessionTypes THEN ls[i].value ELSE "unknown"
    /\ IsFirst(t.codec, ls, Places(ls, i, end, "rtpmap"))

(* The m-lines of the offer behind line begin, and the last one before it.   *)
Mlines(ls, begin, end) ==
    {i \in 1..end : IsMline(ls, i) /\ \A j \in (i + 1)..begin : ~IsMline(ls, j)}

(* at gives these m-lines in their order.                                    *)
InOrder(at, ls, begin, end) ==
    /\ \A i \in Mlines(ls, begin, end) : \E k \in DOMAIN at : at[k] = i
    /\ \A k, l \in DOMAIN at : k < l => at[k] < at[l]

(* The sections ms are those of the m-lines at.                              *)
SectionsOf(ms, at, ls, begin, end) ==
    /\ InOrder(at, ls, begin, end)
    /\ \A k \in DOMAIN ms : IsSection(ms[k], ls, at[k], end)

ListsSections(ms, ls, begin, end) ==
    \E at \in [DOMAIN ms -> Mlines(ls, begin, end)] : SectionsOf(ms, at, ls, begin, end)

ListsTracks(ts, ls, begin, end) ==
    \E at \in [DOMAIN ts -> Mlines(ls, begin, end)] :
        InOrder(at, ls, begin, end) /\ \A k \in DOMAIN ts : IsTrack(ts[k], ls, at[k], end)

(* The lines of the n-th offer are those behind AnsweredBefore(n), up to     *)
(* answered[n].                                                              *)
AnsweredBefore(n) == IF n = 1 THEN 0 ELSE answered[n - 1]

Message ==
    [command : {"handshake", "request_offer"}]
    \cup [command : {"answer"}, id : Nat, sections : Seq(MlineInfo), options : Text]
TrackInfo == [type : SessionTypes \cup {"unknown"}, codec : Text]
Completion ==
    [candidate : Candidates \cup {NoCandidate}, credentials : [IceKinds -> Text],
     tracks : Seq(TrackInfo)]

OfferTypeOK ==
    /\ connection \in {"connected", "requested", "failed", "closing"}
    /\ mlineInfos \in Seq(MlineInfo)
    /\ currentMline \in Seq(MlineInfo) /\ Len(currentMline) \in 0..1
    /\ credentials \in [IceKinds -> Text]
    /\ candidate \in Candidates \cup {NoCandidate}
    /\ sessionId \in Nat /\ failures \in Nat
    /\ parsing \in BOOLEAN /\ unparsed \in Seq(Line) /\ lines \in Seq(Line)
    /\ messages \in Seq(Message) /\ completed \in Seq(Completion)
    /\ answered \in Seq(Nat) /\ Len(completed) = Len(answered)

(* SendAnswerCommand: an answer has a section for every m-line of its offer, *)
(* in order, each with its own last mid and first rtpmap. A later offer of   *)
(* the connection is answered with one section more than it has: the last    *)
(* one before it, to which the lines before its first m-line belong, too     *)
(* (ParsingSdp never resets _current_mline_info).                            *)
(* Answers are the messages after the handshake and the request.             *)
AnswerMirrorsOffer ==
    /\ OfferTypeOK
    /\ \A n \in 1..(Len(messages) - 2) :
        /\ messages[n + 2].id = n
        /\ ListsSections(messages[n + 2].sections, lines, AnsweredBefore(n), answered[n])

(* OnRecvWebsocketData: a session is announced with a track for each section *)
(* of its answer, and with the ICE credentials of the first offer that had   *)
(* any, the only ones the parser keeps.                                      *)
SessionMatchesOffers ==
    \A n \in DOMAIN completed :
        /\ ListsTracks(completed[n].tracks, lines, AnsweredBefore(n), answered[n])
        /\ \A kind \in IceKinds :
            IsFirst(completed[n].credentials[kind], lines,
                    {i \in 1..answered[n] : lines[i].kind = kind})

(* DtlsTransport measures a track of a later offer as that offer describes   *)
(* it: the section left over from the offer before it comes first in the     *)
(* list, and so never hides one of the offer's own.                          *)
SessionUsesOwnTracks ==
    \A n \in DOMAIN completed :
        \A i \in (AnsweredBefore(n) + 1)..answered[n] :
            /\ IsMline(lines, i) /\ lines[i].value \in SessionTypes
            /\ \A j \in (i + 1)..answered[n] :
                    IsMline(lines, j) => lines[j].value # lines[i].value
            => IsTrack(SessionTracks(completed[n].tracks)[lines[i].value], lines, i, answered[n])

----------------------------------------------------------------------------
(* Why they hold, in parts.                                                  *)

AnsweredLines == IF answered = <<>> THEN 0 ELSE answered[Len(answered)]

(* What the parser holds are the sections of the lines read so far that are  *)
(* not answered, with the one that is current, which is that of the last     *)
(* m-line.                                                                   *)
SectionsInv ==
    \E at \in [DOMAIN ParsedMlines -> Mlines(lines, AnsweredLines, Len(lines))] :
        /\ SectionsOf(ParsedMlines, at, lines, AnsweredLines, Len(lines))
        /\ \A i \in DOMAIN lines :
            IsMline(lines, i) => currentMline # <<>> /\ i <= at[Len(ParsedMlines)]

CredentialsInv ==
    \A kind \in IceKinds :
        IsFirst(credentials[kind], lines, {i \in 1..Len(lines) : lines[i].kind = kind})

(* Answers follow the handshake and the request, one for each offer; only    *)
(* the last one may have been refused.                                       *)
AnsweredInv ==
    /\ \A n \in DOMAIN answered : answered[n] \in 0..AnsweredLines
    /\ AnsweredLines <= Len(lines)
    /\ \A m, n \in DOMAIN answered : m <= n => answered[m] <= answered[n]
    /\ parsing => sessionId = Len(answered) + 1
    /\ parsing => connection \in {"requested", "closing"}

MessagesInv ==
    /\ connection = "connected" => Len(messages) <= 1 /\ answered = <<>>
    /\ connection = "requested" \/ parsing => Len(messages) = Len(answered) + 2
    /\ Len(messages) <= Len(answered) + 2

OfferInv ==
    /\ SectionsInv /\ CredentialsInv /\ AnsweredInv /\ MessagesInv
    /\ AnswerMirrorsOffer /\ SessionMatchesOffers
=============================================================================
