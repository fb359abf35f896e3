---------------------------- MODULE DtlsTransport ----------------------------
(***************************************************************************)
(* What a media session does with the datagrams it receives, and how the   *)
(* timer thread collects what was measured. The first binding request      *)
(* starts DTLS (OmeStreamObject); a datagram is then DTLS, for OpenSSL, or *)
(* RTP, which SetVideoTraffic and SetAudioTraffic measure. They run on the *)
(* io_service thread of the socket, GetTrafficCollectData on the timer     *)
(* thread, and no lock is between them: each counter is read, increased    *)
(* and written back in steps the other thread may come between.            *)
(*                                                                         *)
(* Packets of a track are numbered from 1 in sending order; packet n has   *)
(* timestamp Timestamps[track][n] and the n-th sequence number after       *)
(* FirstSeq[track]. The network loses packets, delivers some twice, and    *)
(* lets a packet overtake those of other frames, and those of its own      *)
(* unless FramesKeepOrder.                                                 *)
(***************************************************************************)
EXTENDS Integers, Sequences, FiniteSets

CONSTANTS
    Timestamps,         \* [track -> timestamps of its packets, in sending order]
    FirstSeq,           \* [track -> sequence number before its first packet]
    FramesKeepOrder,    \* the network keeps the order within a frame
    SeqMod,             \* 0x10000
    NearWrap,           \* 0xff00: a sequence number above it is about to wrap
    FarFromWrap,        \* 0xf000: one below it, after such a number, has wrapped
    MinStart,           \* TRAFFIC_COLLECT_MIN_START_TIME
    MinDuration,        \* TRAFFIC_COLLECT_MIN_DURATION
    CollectInterval,    \* DATA_COLLECT_TIMER_INTERVAL
    DurationMod,        \* 2^32: duration is a uint32_t
    Epoch,              \* the clock when the session is created
    MaxTime,            \* bound: ticks of the clock
    Window,             \* bound: packets of a track on their way
    MaxDuplicates       \* bound

Tracks == {"video", "audio"}

ASSUME DtlsTransportAssumption ==
    /\ Timestamps \in [Tracks -> Seq(Nat)] /\ FirstSeq \in [Tracks -> Nat]
    /\ FramesKeepOrder \in BOOLEAN
    /\ {SeqMod, NearWrap, FarFromWrap} \subseteq Nat \ {0}
    /\ FarFromWrap <= NearWrap /\ NearWrap < SeqMod
    /\ {MinStart, MinDuration, CollectInterval} \subseteq Nat \ {0}
    /\ {MaxTime, Window, MaxDuplicates} \subseteq Nat
    /\ Epoch \in Nat \ {0} /\ DurationMod \in Nat /\ DurationMod > Epoch + MaxTime

VARIABLES
    completed,      \* _is_completed of the OmeStreamObject
    state,          \* _state; "running" is SSL_CONNECTING and SSL_CONNECTED
    now,            \* the clock, in seconds and in milliseconds
    startTime,      \* _start_time, 0 when unset
    started,        \* _video_stream_started, _audio_stream_started
    last,           \* [track -> _last_sequence_number, _last_timestamp]
    endTime,        \* _video_timestamp_changed_time, _audio_last_time
    collectFrom,    \* _video_collect_start_time, _audio_collect_start_time
    data,           \* _video_collect_data, _audio_collect_data
    notified,       \* calls of OnRtpStart_DtlsTransport
    todo,           \* what is left of OnDataReceived for the packet in hand
    loaded,         \* the counter value the io_service thread has read
    collector,      \* where the timer thread is in GetTrafficCollectData
    collectTime,    \* when it last went through the sessions
    reports,        \* the last data handed over
    summary,        \* DataCollectTimeProc's static variables
    next,           \* [track -> packets sent]
    wire,           \* [track -> packets on their way]
    duplicates,     \* packets delivered twice so far
    delivered,      \* history: [track -> packets delivered since the start of measuring]
    missed,         \* history: [track -> packets not there when a later one came]
    arrivals        \* history: [track -> deliveries since the start of measuring]

media == <<started, last, endTime, collectFrom, notified>>
dtls == <<completed, state>>
timing == <<now, startTime>>
collecting == <<collector, collectTime, reports, summary>>
network == <<next, wire, duplicates>>
history == <<delivered, missed, arrivals>>
vars == <<dtls, timing, media, data, todo, loaded, collecting, network, history>>

(* packet_count, frame_count and packet_loss_count of a CollectData.         *)
Counters == [packets : Nat, frames : Nat, loss : Nat]
Cleared == [packets |-> 0, frames |-> 0, loss |-> 0]
NotLoaded == -1
UintMax == 10000000    \* UINT_MAX: more than any percentage

(* The steps left of a packet: times to be stored at the start of a track,   *)
(* a counter to be increased, the packet to be remembered as the last one,   *)
(* and the test for the start of streaming.                                  *)
Step == [op : {"begin", "move", "turn"}, track : Tracks, packet : Nat, time : Nat]
        \cup [op : {"add"}, track : Tracks, field : DOMAIN Cleared, by : Nat]
        \cup [op : {"notify"}]

(* What is on its way or was seen was sent.                                  *)
PacketsOK ==
    /\ next \in [Tracks -> Nat] /\ arrivals \in [Tracks -> Nat]
    /\ wire \in [Tracks -> SUBSET Nat]
    /\ delivered \in [Tracks -> SUBSET Nat] /\ missed \in [Tracks -> SUBSET Nat]
    /\ \A t \in Tracks : /\ next[t] \in 0..Len(Timestamps[t])
                         /\ wire[t] \subseteq 1..next[t]
                         /\ delivered[t] \subseteq 1..next[t]
                         /\ missed[t] \subseteq 1..next[t]

TypeOK ==
    /\ completed \in BOOLEAN
    /\ state \in {"none", "running", "error"}
    /\ now \in Epoch..(Epoch + MaxTime) /\ startTime \in Nat
    /\ started \in [Tracks -> BOOLEAN]
    /\ last \in [Tracks -> [seq : {-1} \cup 0..(SeqMod - 1), ts : Nat]]
    /\ endTime \in [Tracks -> Nat] /\ collectFrom \in [Tracks -> Nat]
    /\ data \in [Tracks -> Counters]
    /\ notified \in Nat
    /\ todo \in Seq(Step)
    /\ loaded \in Nat \cup {NotLoaded}
    /\ collector \in {"idle", "copy", "advance", "video", "audio"}
    /\ collectTime \in Nat
    /\ reports \in [Tracks -> Counters]
    /\ summary \in [packets : Nat, loss : Nat, minLoss : Nat, maxLoss : Nat, empty : BOOLEAN]
    /\ PacketsOK
    /\ duplicates \in 0..MaxDuplicates

Init ==
    /\ completed = FALSE /\ state = "none"
    /\ now = Epoch /\ startTime = 0
    /\ started = [t \in Tracks |-> FALSE]
    /\ last = [t \in Tracks |-> [seq |-> -1, ts |-> 0]]
    /\ endTime = [t \in Tracks |-> 0] /\ collectFrom = [t \in Tracks |-> 0]
    /\ data = [t \in Tracks |-> Cleared]
    /\ notified = 0
    /\ todo = <<>> /\ loaded = NotLoaded
    /\ collector = "idle" /\ collectTime = Epoch
    /\ reports = [t \in Tracks |-> Cleared]
    /\ summary = [packets |-> 0, loss |-> 0, minLoss |-> UintMax, maxLoss |-> 0, empty |-> FALSE]
    /\ next = [t \in Tracks |-> 0]
    /\ wire = [t \in Tracks |-> {}]
    /\ duplicates = 0
    /\ delivered = [t \in Tracks |-> {}] /\ missed = [t \in Tracks |-> {}]
    /\ arrivals = [t \in Tracks |-> 0]

----------------------------------------------------------------------------
(* The clock, the media server and the network between it and the session. *)

Tick ==
    /\ now < Epoch + MaxTime                    \* bound
    /\ now' = now + 1
    /\ UNCHANGED <<startTime, dtls, media, data, todo, loaded, collecting, network, history>>

(* The server sends a packet to a session whose DTLS handshake has begun;   *)
(* it may be lost.                                                          *)
ServerSend(t) ==
    /\ state = "running"
    /\ next[t] < Len(Timestamps[t])
    /\ next' = [next EXCEPT ![t] = @ + 1]
    /\ \/ UNCHANGED wire
       \/ /\ Cardinality(wire[t]) < Window      \* bound
          /\ wire' = [wire EXCEPT ![t] = @ \cup {next'[t]}]
    /\ UNCHANGED <<duplicates, dtls, timing, media, data, todo, loaded, collecting, history>>

Timestamp(t, n) == Timestamps[t][n]
Sequence(t, n) == (FirstSeq[t] + n) % SeqMod

(* The packets of one frame may have to keep their order.                   *)
Deliverable(t, n) ==
    FramesKeepOrder => \A m \in wire[t] : m < n => Timestamp(t, m) # Timestamp(t, n)

(* The packet is taken off the wire, or comes a second time later.          *)
TakeOff(t, n) ==
    /\ UNCHANGED next
    /\ \/ /\ wire' = [wire EXCEPT ![t] = @ \ {n}]
          /\ UNCHANGED duplicates
       \/ /\ duplicates < MaxDuplicates         \* bound
          /\ duplicates' = duplicates + 1
          /\ UNCHANGED wire

----------------------------------------------------------------------------
(* STUN and DTLS. RTP is measured alike while OpenSSL is connecting and   *)
(* after; what it does with its own datagrams is left out.                 *)

Idle == todo = <<>>

(* RecvBindingRequest: the first one starts DTLS. That fails when the       *)
(* certificate cannot be made or the context cannot be set up, and is not   *)
(* tried again.                                                             *)
RecvBindingRequest ==
    /\ Idle /\ ~completed
    /\ completed' = TRUE
    /\ state' \in {"none", "error", "running"}
    /\ UNCHANGED <<timing, media, data, todo, loaded, collecting, network, history>>

----------------------------------------------------------------------------
(* RTP                                                                      *)

Add(t, field, n) == [op |-> "add", track |-> t, field |-> field, by |-> n]
Remember(op, t, n) == [op |-> op, track |-> t, packet |-> n, time |-> now]
Notify == [op |-> "notify"]

(* The track has been seen for longer than MinStart and its timestamp grows. *)
Starts(t, n) ==
    /\ ~started[t]
    /\ last[t].ts # 0 /\ last[t].ts < Timestamp(t, n)
    /\ now - startTime > MinStart

(* Mutant: a wrapped number is compared as if the modulus were twice as big. *)
UnwrappedTooFar(t, n) ==
    IF last[t].seq > NearWrap /\ Sequence(t, n) < FarFromWrap
    THEN Sequence(t, n) + 2 * SeqMod ELSE Sequence(t, n)

(* The sequence number as SetVideoTraffic and SetAudioTraffic compare it.    *)
Unwrapped(t, n) ==
    IF last[t].seq > NearWrap /\ Sequence(t, n) < FarFromWrap
    THEN Sequence(t, n) + (SeqMod - 1) ELSE Sequence(t, n)

(* What is added to packet_loss_count, if anything.                          *)
Loss(t, n) ==
    IF Unwrapped(t, n) > last[t].seq + 1
    THEN <<Add(t, "loss", Unwrapped(t, n) - (last[t].seq + 1))>> ELSE <<>>

(* What is done for packet n of a track that is measured. "turn" also marks  *)
(* the change of the video timestamp.                                        *)
Measure(t, n) ==
    <<Add(t, "packets", 1)>> \o
    IF last[t].ts < Timestamp(t, n)
    THEN <<Add(t, "frames", 1)>> \o Loss(t, n) \o <<Remember("turn", t, n)>>
    ELSE IF last[t].ts = Timestamp(t, n) /\ t = "video"
         THEN Loss(t, n) \o <<Remember("move", t, n)>>
         ELSE <<>>

(* The first packet counted of a video track is the one after the start; an  *)
(* audio track counts the one that started it.                               *)
Begin(t, n) ==
    <<Remember("begin", t, n)>> \o IF t = "audio" THEN <<Add(t, "packets", 1)>> ELSE <<>>

(* History of a packet of a track that is measured.                          *)
RecordArrival(t, n) ==
    /\ delivered' = [delivered EXCEPT ![t] = @ \cup {n}]
    /\ arrivals' = [arrivals EXCEPT ![t] = @ + 1]
    /\ missed' = [missed EXCEPT ![t] =
            @ \cup {m \in 1..(n - 1) : /\ m \notin delivered[t]
                                       /\ \E first \in delivered[t] : first < m}]

(* The packet from which on the track is measured.                           *)
TrackStarts(t, n) ==
    /\ Starts(t, n)
    /\ started' = [started EXCEPT ![t] = TRUE]
    /\ todo' = Begin(t, n) \o <<Notify>>
    /\ RecordArrival(t, n)
    /\ UNCHANGED <<last, endTime, startTime>>

(* Not measured yet: the first packet of all sets _start_time.               *)
TrackWaits(t, n) ==
    /\ ~started[t] /\ ~Starts(t, n)
    /\ last' = [last EXCEPT ![t].ts = Timestamp(t, n)]
    /\ endTime' = [endTime EXCEPT ![t] = IF t = "audio" THEN now ELSE @]
    /\ startTime' = IF startTime = 0 THEN now ELSE startTime
    /\ todo' = <<Notify>>
    /\ UNCHANGED <<started, history>>

TrackMeasured(t, n) ==
    /\ started[t]
    /\ todo' = Measure(t, n) \o <<Notify>>
    /\ RecordArrival(t, n)
    /\ UNCHANGED <<started, last, endTime, startTime>>

RecvRtp(t) ==
    /\ Idle /\ state = "running"
    /\ \E n \in wire[t] :
        /\ Deliverable(t, n) /\ TakeOff(t, n)
        /\ TrackStarts(t, n) \/ TrackWaits(t, n) \/ TrackMeasured(t, n)
    /\ UNCHANGED <<now, dtls, collectFrom, notified, data, loaded, collecting>>

----------------------------------------------------------------------------
(* The rest of OnDataReceived, one step at a time.                           *)

Doing(op) == ~Idle /\ Head(todo).op = op
Done == todo' = Tail(todo)

LastOf(s) == [seq |-> Sequence(s.track, s.packet), ts |-> Timestamp(s.track, s.packet)]

(* The times and the number of the packet that started the track.            *)
StoreStart ==
    /\ Doing("begin")
    /\ LET s == Head(todo) IN
        /\ collectFrom' = [collectFrom EXCEPT ![s.track] = s.time]
        /\ last' = [last EXCEPT ![s.track] = LastOf(s)]
        /\ endTime' = [endTime EXCEPT ![s.track] = IF s.track = "audio" THEN s.time ELSE @]
    /\ Done
    /\ UNCHANGED <<dtls, timing, started, notified, data, loaded, collecting, network, history>>

(* counter += n: the value is read ...                                       *)
LoadCounter ==
    /\ Doing("add") /\ loaded = NotLoaded
    /\ loaded' = data[Head(todo).track][Head(todo).field]
    /\ UNCHANGED <<dtls, timing, media, data, todo, collecting, network, history>>

(* ... and written back, whatever the other thread did in between.           *)
StoreCounter ==
    /\ Doing("add") /\ loaded # NotLoaded
    /\ data' = [data EXCEPT ![Head(todo).track][Head(todo).field] = loaded + Head(todo).by]
    /\ loaded' = NotLoaded
    /\ Done
    /\ UNCHANGED <<dtls, timing, media, collecting, network, history>>

StoreLast ==
    /\ Doing("move") \/ Doing("turn")
    /\ LET s == Head(todo) IN
        /\ last' = [last EXCEPT ![s.track] = LastOf(s)]
        /\ endTime' = [endTime EXCEPT ![s.track] = IF s.op = "turn" THEN s.time ELSE @]
    /\ Done
    /\ UNCHANGED <<dtls, timing, started, collectFrom, notified, data, loaded, collecting, network, history>>

(* Mutant: the packet that starts the second track does not notify.          *)
NotifyStartLate ==
    /\ Doing("notify")
    /\ notified' = IF notified = 0 /\ \A t \in Tracks : data[t].packets > 0 THEN 1 ELSE notified
    /\ Done
    /\ UNCHANGED <<dtls, timing, started, last, endTime, collectFrom, data, loaded, collecting, network, history>>

(* OnRtpStart_DtlsTransport, once both tracks have started.                  *)
NotifyStart ==
    /\ Doing("notify")
    /\ notified' = IF notified = 0 /\ \A t \in Tracks : started[t] THEN 1 ELSE notified
    /\ Done
    /\ UNCHANGED <<dtls, timing, started, last, endTime, collectFrom, data, loaded, collecting, network, history>>

----------------------------------------------------------------------------
(* GetTrafficCollectData                                                    *)

(* What is stored in the uint32_t duration.                                 *)
Duration(t) == (endTime[t] - collectFrom[t]) % DurationMod

(* Both tracks have started and were collected for long enough.             *)
Collectable == \A t \in Tracks : started[t] /\ Duration(t) >= MinDuration

(* The data collection timer comes to this session. Whether IsStreaming, a  *)
(* matter of the clock alone, is left open.                                 *)
CollectStart ==
    /\ collector = "idle"
    /\ now >= collectTime + CollectInterval
    /\ collectTime' = now
    /\ \/ UNCHANGED collector
       \/ Collectable /\ collector' = "copy"
    /\ UNCHANGED <<reports, summary, dtls, timing, media, data, todo, loaded, network, history>>

CollectCopy ==
    /\ collector = "copy"
    /\ reports' = data
    /\ collector' = "advance"
    /\ UNCHANGED <<collectTime, summary, dtls, timing, media, data, todo, loaded, network, history>>

(* The next duration starts where the last packet is by now.                *)
CollectAdvance ==
    /\ collector = "advance"
    /\ collectFrom' = endTime
    /\ collector' = "video"
    /\ UNCHANGED <<collectTime, reports, summary, dtls, timing, started, last, endTime, notified, data, todo, loaded, network, history>>

Collected(field) == reports["video"][field] + reports["audio"][field]

(* packet_loss_percent: what was lost for each hundred packets received.    *)
LossPercent ==
    IF Collected("packets") = 0 THEN 0 ELSE (Collected("loss") * 100) \div Collected("packets")

(* DataCollectTimeProc goes on with what it was handed over: the totals of  *)
(* the run and its highest and lowest loss. empty is history: a collection  *)
(* has had lost packets and none received.                                  *)
DataCollectTimeProc ==
    summary' = [packets |-> summary.packets + Collected("packets"),
                loss |-> summary.loss + Collected("loss"),
                maxLoss |-> IF LossPercent > summary.maxLoss THEN LossPercent ELSE summary.maxLoss,
                minLoss |-> IF LossPercent < summary.minLoss THEN LossPercent ELSE summary.minLoss,
                empty |-> summary.empty \/ (Collected("packets") = 0 /\ Collected("loss") > 0)]

(* Clear of one track, then of the other; the copy is the timer thread's.   *)
CollectClear(t) ==
    /\ collector = t
    /\ data' = [data EXCEPT ![t] = Cleared]
    /\ \/ t = "video" /\ collector' = "audio" /\ UNCHANGED summary
       \/ t = "audio" /\ collector' = "idle" /\ DataCollectTimeProc
    /\ UNCHANGED <<collectTime, reports, dtls, timing, media, todo, loaded, network, history>>

----------------------------------------------------------------------------
OnDataReceived ==
    \/ RecvBindingRequest
    \/ \E t \in Tracks : RecvRtp(t)
    \/ StoreStart \/ LoadCounter \/ StoreCounter \/ StoreLast \/ NotifyStart

GetTrafficCollectData ==
    CollectStart \/ CollectCopy \/ CollectAdvance \/ \E t \in Tracks : CollectClear(t)

Network == \E t \in Tracks : ServerSend(t)

Next == Tick \/ Network \/ OnDataReceived \/ GetTrafficCollectData

Spec == Init /\ [][Next]_vars

----------------------------------------------------------------------------
(* The average that is printed lies between the lowest and the highest loss *)
(* (a percentage is rounded down), as long as no collection was empty.      *)
AverageWithin ==
    summary.packets > 0 =>
        /\ summary.minLoss * summary.packets <= summary.loss * 100
        /\ ~summary.empty => summary.loss * 100 < (summary.maxLoss + 1) * summary.packets

(* No counter and nothing handed over says more than what happened since    *)
(* measuring began: not more packets than came, not more frames than were   *)
(* seen, and no packet called lost that was there in its turn, whatever the *)
(* wrap of the sequence numbers, late and doubled packets, and the timer    *)
(* thread clearing a counter the io_service thread is increasing. The       *)
(* summary of the run is one of what was handed over.                       *)
Truth(t) ==
    [packets |-> arrivals[t],
     frames |-> Cardinality({Timestamp(t, n) : n \in delivered[t]}),
     loss |-> Cardinality(missed[t])]

Within(counted, t) == \A f \in DOMAIN counted : counted[f] <= Truth(t)[f]

CountedWithinTruth ==
    /\ TypeOK
    /\ \A t \in Tracks : Within(data[t], t) /\ Within(reports[t], t)
    /\ AverageWithin

(* When the handler of a packet is over, streaming has been announced if    *)
(* and only if both tracks are measured, and never twice: the packet that   *)
(* starts the second track announces it itself.                             *)
StartAnnouncedOnce ==
    /\ notified <= 1
    /\ Idle => (notified = 1 <=> \A t \in Tracks : started[t])

(* Why they hold: the inductive invariant of the proofs.                     *)

(* The packet of a step that remembers one was sent.                         *)
StepsInv ==
    \A i \in DOMAIN todo : todo[i].op \in {"begin", "move", "turn"} =>
        todo[i].packet \in 1..next[todo[i].track]

(* The test for the start of streaming is the last thing a packet does, and  *)
(* the only one that announces it.                                           *)
NotifyInv ==
    /\ \A i \in DOMAIN todo : todo[i].op = "notify" <=> i = Len(todo)
    /\ notified = 1 => \A t \in Tracks : started[t]

(* Nothing received and no collection empty: nothing was lost either.        *)
SummaryInv == summary.packets = 0 /\ ~summary.empty => summary.loss = 0

IInv ==
    /\ TypeOK /\ StepsInv /\ NotifyInv /\ StartAnnouncedOnce
    /\ SummaryInv /\ AverageWithin

(* Why the counters stay within the truth, when timestamps are those of RTP: *)
(* they do not go back, and no two packets of audio have the same.           *)
Ordered ==
    \A t \in Tracks : \A m, n \in DOMAIN Timestamps[t] : m < n =>
        /\ Timestamp(t, m) <= Timestamp(t, n)
        /\ t = "audio" => Timestamp(t, m) # Timestamp(t, n)

(* The last packet remembered, or about to be, is the latest delivered: none *)
(* after it was missed, and what is left of its frame on the wire comes      *)
(* behind it.                                                                *)
Remembering(t) ==
    {i \in DOMAIN todo : todo[i].op \in {"begin", "move", "turn"} /\ todo[i].track = t}
IsLatest(t, p) ==
    /\ \A n \in delivered[t] \cup missed[t] : n <= p
    /\ \A n \in wire[t] : n < p => Timestamp(t, n) # Timestamp(t, p)
    /\ \A i \in Remembering(t) : todo[i].packet = p
    /\ Remembering(t) = {} => last[t] = [seq |-> Sequence(t, p), ts |-> Timestamp(t, p)]
LatestInv ==
    \A t \in Tracks :
        IF started[t] THEN \E p \in delivered[t] : IsLatest(t, p)
        ELSE delivered[t] = {} /\ missed[t] = {}

(* A counter is within the truth with what is left to be added to it, and    *)
(* so is the value that was read of it. A packet adds once to each.          *)
CountersInv ==
    /\ \A t \in Tracks, f \in DOMAIN Cleared :
          data[t][f] <= Truth(t)[f] /\ reports[t][f] <= Truth(t)[f]
    /\ \A i \in DOMAIN todo, t \in Tracks, f \in DOMAIN Cleared :
          todo[i].op = "add" /\ todo[i].track = t /\ todo[i].field = f =>
            /\ data[t][f] + todo[i].by <= Truth(t)[f]
            /\ loaded # NotLoaded /\ i = 1 => loaded + todo[i].by <= Truth(t)[f]
            /\ \A j \in DOMAIN todo : todo[j].op = "add" /\ todo[j].field = f => j = i
    /\ loaded # NotLoaded => Doing("add")

CountInv == LatestInv /\ CountersInv
=============================================================================
