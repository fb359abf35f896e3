----------------------------- MODULE TrafficTest -----------------------------
(***************************************************************************)
(* The traffic_test mode: TestUdpServerObject sessions of this program and *)
(* the UdpTestServer under tests/ they measure. A session sends START once;*)
(* the server gives its sessions to its senders in turn, and each sender   *)
(* sends one numbered datagram per tick to all of its sessions. A session  *)
(* counts what arrives and the gaps between the numbers, on the            *)
(* io_service thread of its socket, while the timer thread reads and       *)
(* clears the two counters without a lock. Datagrams are lost and overtake *)
(* each other. Bit rates, timestamps and the sizes, which are all          *)
(* TRANFFIC_SEND_DATA_SIZE, are left out.                                  *)
(***************************************************************************)
EXTENDS Integers, Sequences, FiniteSets, SequencesExt

CONSTANTS
    StartCount,     \* streaming_start_count
    SenderCount,    \* thread_count of the server
    FirstNumber,    \* the senders' _sequence_number when the program starts
    MaxNumber       \* bound: they stop before this one

ASSUME TrafficTestAssumption ==
    /\ StartCount \in Nat /\ SenderCount \in Nat \ {0}
    /\ FirstNumber \in Nat /\ MaxNumber \in Nat /\ FirstNumber <= MaxNumber

Sessions == 0..(StartCount - 1)
Senders == 0..(SenderCount - 1)
Fields == {"loss", "count"}     \* _packet_loss, _packet_count

VARIABLES
    starter,        \* [index, at] of TrafficTestTimeProc
    socket,         \* [session -> "none", "open", "closing", "released", "closed"]
    map,            \* _network_info_map of TestUdpServerMap
    last,           \* [session -> _last_sequence_number]
    counter,        \* [session -> [Fields -> Nat]]
    todo,           \* [session -> what is left of RecvHandler]
    loaded,         \* [session -> the counter value the io_service thread has read]
    collecting,     \* [left, at] of GetTrafficInfo: the sessions left, and the step of the first
    report,         \* packet_loss and packet_count of TrafficTestCheckTimeProc
    sending,        \* sessions whose START is being sent
    starts,         \* STARTs on their way or in the server's socket buffer
    receiving,      \* the server waits for a datagram: async_receive_from is pending
    requests,       \* RequestHandle calls posted to the server's io_service
    insertIndex,    \* _session_insert_index
    sessions,       \* [sender -> _sessions]
    sequence,       \* [sender -> _sequence_number]
    wire,           \* [session -> datagrams sent to it that have not arrived; one may never]
    delivered,      \* history: [session -> datagrams it received]
    missed          \* history: [session -> datagrams not there when a later one came]

timer == <<starter, collecting, report>>
client == <<socket, map>>
counting == <<last, counter, todo, loaded>>
server == <<receiving, requests, insertIndex, sessions, sequence>>
history == <<delivered, missed>>
vars == <<timer, client, counting, sending, starts, server, wire, history>>

Zero == [f \in Fields |-> 0]
NotLoaded == -1
Step == [field : Fields, by : Nat]

(* GetPacketInfo reads both counters of a session, then clears both.         *)
GetPacketInfo ==
    << [op |-> "read", field |-> "loss"], [op |-> "read", field |-> "count"],
       [op |-> "clear", field |-> "loss"], [op |-> "clear", field |-> "count"] >>

TypeOK ==
    /\ starter \in [index : 0..StartCount, at : {"timer", "create", "insert", "done"}]
    /\ socket \in [Sessions -> {"none", "open", "closing", "released", "closed"}]
    /\ map \subseteq Sessions
    /\ last \in [Sessions -> Nat] /\ counter \in [Sessions -> [Fields -> Nat]]
    /\ todo \in [Sessions -> Seq(Step)] /\ loaded \in [Sessions -> Nat \cup {NotLoaded}]
    /\ collecting \in [left : SUBSET Sessions, at : DOMAIN GetPacketInfo]
    /\ report \in [Fields -> Nat]
    /\ sending \subseteq Sessions /\ starts \subseteq Sessions
    /\ receiving \in BOOLEAN /\ requests \in Seq(Sessions) /\ insertIndex \in Nat
    /\ sessions \in [Senders -> Seq(Sessions)] /\ sequence \in [Senders -> Nat]
    /\ {wire, delivered, missed} \subseteq [Sessions -> SUBSET Nat]

Init ==
    /\ starter = [index |-> 0, at |-> "timer"]
    /\ socket = [c \in Sessions |-> "none"] /\ map = {}
    /\ last = [c \in Sessions |-> 0] /\ counter = [c \in Sessions |-> Zero]
    /\ todo = [c \in Sessions |-> <<>>] /\ loaded = [c \in Sessions |-> NotLoaded]
    /\ collecting = [left |-> {}, at |-> 1] /\ report = Zero
    /\ sending = {} /\ starts = {}
    /\ receiving = TRUE /\ requests = <<>> /\ insertIndex = 0
    /\ sessions = [s \in Senders |-> <<>>] /\ sequence = [s \in Senders |-> FirstNumber]
    /\ wire = [c \in Sessions |-> {}]
    /\ delivered = [c \in Sessions |-> {}] /\ missed = [c \in Sessions |-> {}]

----------------------------------------------------------------------------
(* The timer thread starts the sessions.                                    *)

(* The start timer: TrafficTestTimeProc, once.                              *)
OnStartTimer ==
    /\ starter.at = "timer" /\ collecting.left = {}
    /\ starter' = [starter EXCEPT !.at = IF StartCount = 0 THEN "done" ELSE "create"]
    /\ UNCHANGED <<collecting, report, client, counting, sending, starts, server, wire, history>>

(* ConnectAdd up to TestUdpServerObject::Create: the session receives, and   *)
(* START is handed to the io_service.                                        *)
CreateSession ==
    /\ starter.at = "create"
    /\ LET c == starter.index IN
        /\ socket' = [socket EXCEPT ![c] = "open"]
        /\ sending' = sending \cup {c}
    /\ starter' = [starter EXCEPT !.at = "insert"]
    /\ UNCHANGED <<collecting, report, map, counting, starts, server, wire, history>>

(* Insert: the rest of ConnectAdd, whatever has become of the session.       *)
InsertSession ==
    /\ starter.at = "insert"
    /\ map' = map \cup {starter.index}
    /\ starter' = [index |-> starter.index + 1,
                   at |-> IF starter.index + 1 = StartCount THEN "done" ELSE "create"]
    /\ UNCHANGED <<collecting, report, socket, counting, sending, starts, server, wire, history>>

----------------------------------------------------------------------------
(* Sending START                                                             *)

(* START leaves; it may be lost, and it is not sent again.                   *)
StartSent(c) ==
    /\ c \in sending
    /\ sending' = sending \ {c}
    /\ starts' \in {starts, starts \cup {c}}
    /\ UNCHANGED <<timer, client, counting, server, wire, history>>

(* OnSend has failed: OnNetworkClose removes the session under the key it    *)
(* has by now, and PostClose arms the timer of a session that was found. The *)
(* map is locked while GetTrafficInfo goes through it.                       *)
StartFails(c) ==
    /\ c \in sending /\ collecting.left = {}
    /\ sending' = sending \ {c}
    /\ map' = map \ {c}
    /\ socket' = [socket EXCEPT ![c] = IF c \in map THEN "released" ELSE "closing"]
    /\ UNCHANGED <<timer, counting, starts, server, wire, history>>

PostCloseTimer(c) ==
    /\ socket[c] = "released" /\ todo[c] = <<>>
    /\ socket' = [socket EXCEPT ![c] = "closed"]
    /\ UNCHANGED <<timer, map, counting, sending, starts, server, wire, history>>

----------------------------------------------------------------------------
(* UdpTestServer: one thread receives and registers, one sends per sender.   *)


(* ReceiveHandle: the datagram is posted to RequestHandle, and the server    *)
(* waits for the next one with a new UdpSession.                             *)
ReceiveHandle ==
    /\ receiving
    /\ \E c \in starts : starts' = starts \ {c} /\ requests' = Append(requests, c)
    /\ receiving' = TRUE
    /\ UNCHANGED <<insertIndex, sessions, sequence, timer, client, counting, sending, wire, history>>

(* OnRegisterSession of the server and of the sender whose turn it is. What  *)
(* is no START of the right size RequestHandle drops, and nothing changes.   *)
OnRegisterSession(c) ==
    /\ LET sender == insertIndex % SenderCount IN
        sessions' = [sessions EXCEPT ![sender] = Append(@, c)]
    /\ insertIndex' = insertIndex + 1

RequestHandle ==
    /\ requests # <<>>
    /\ requests' = Tail(requests)
    /\ OnRegisterSession(Head(requests))
    /\ UNCHANGED <<receiving, sequence, timer, client, counting, sending, starts, wire, history>>

(* Mutant: the sequence number is increased for each session.                *)
OnTrafficSendTimerPerSession(s) ==
    /\ sessions[s] # <<>> /\ sequence[s] < MaxNumber
    /\ sequence' = [sequence EXCEPT ![s] = @ + Len(sessions[s])]
    /\ wire' = [c \in Sessions |-> wire[c] \cup
            {sequence[s] + i - 1 : i \in {j \in DOMAIN sessions[s] : sessions[s][j] = c}}]
    /\ UNCHANGED <<receiving, requests, insertIndex, sessions>>
    /\ UNCHANGED <<timer, client, counting, sending, starts, history>>

(* OnTrafficSendTimer: one datagram, one number, for all sessions.           *)
OnTrafficSendTimer(s) ==
    /\ sessions[s] # <<>>                      \* bound: else a number is used up
    /\ sequence[s] < MaxNumber                 \* bound
    /\ sequence' = [sequence EXCEPT ![s] = @ + 1]
    /\ wire' = [c \in Sessions |->
            IF c \in ToSet(sessions[s]) THEN wire[c] \cup {sequence[s]} ELSE wire[c]]
    /\ UNCHANGED <<receiving, requests, insertIndex, sessions>>
    /\ UNCHANGED <<timer, client, counting, sending, starts, history>>

----------------------------------------------------------------------------
(* RecvHandler and TrafficTestDataProc, on the io_service thread.            *)

(* What datagram n adds to _packet_loss. A late datagram, and the first one, *)
(* show no gap; neither does one after number 0, which _last_sequence_number *)
(* does not tell from none.                                                  *)
Gap(c, n) ==
    IF last[c] < n /\ n # last[c] + 1 /\ last[c] # 0
    THEN <<[field |-> "loss", by |-> n - last[c] - 1]>> ELSE <<>>

(* A datagram arrives. last is this thread's own and is set with the start.  *)
RecvHandler(c) ==
    /\ socket[c] = "open" /\ todo[c] = <<>>
    /\ \E n \in wire[c] :
        /\ wire' = [wire EXCEPT ![c] = @ \ {n}]
        /\ todo' = [todo EXCEPT ![c] = <<[field |-> "count", by |-> 1]>> \o Gap(c, n)]
        /\ last' = [last EXCEPT ![c] = IF @ < n THEN n ELSE @]
        /\ delivered' = [delivered EXCEPT ![c] = @ \cup {n}]
        /\ missed' = [missed EXCEPT ![c] =
                @ \cup {m \in wire[c] : m < n /\ \E first \in delivered[c] : first < m}]
    /\ UNCHANGED <<counter, loaded, timer, client, sending, starts, server>>

(* counter += n: the value is read ...                                       *)
LoadCounter(c) ==
    /\ todo[c] # <<>> /\ loaded[c] = NotLoaded
    /\ loaded' = [loaded EXCEPT ![c] = counter[c][Head(todo[c]).field]]
    /\ UNCHANGED <<last, counter, todo, timer, client, sending, starts, server, wire, history>>

(* ... and written back, whatever the timer thread did in between.           *)
StoreCounter(c) ==
    /\ todo[c] # <<>> /\ loaded[c] # NotLoaded
    /\ counter' = [counter EXCEPT ![c][Head(todo[c]).field] = loaded[c] + Head(todo[c]).by]
    /\ loaded' = [loaded EXCEPT ![c] = NotLoaded]
    /\ todo' = [todo EXCEPT ![c] = Tail(@)]
    /\ UNCHANGED <<last, timer, client, sending, starts, server, wire, history>>

----------------------------------------------------------------------------
(* TrafficTestCheckTimeProc, on the timer thread.                            *)

(* GetTrafficInfo, which keeps the map locked.                               *)
CheckStart ==
    /\ starter.at \in {"timer", "done"} /\ collecting.left = {} /\ map # {}
    /\ collecting' = [left |-> map, at |-> 1]
    /\ report' = Zero
    /\ UNCHANGED <<starter, client, counting, sending, starts, server, wire, history>>

ReadCounter(c, f) == report' = [report EXCEPT ![f] = @ + counter[c][f]] /\ UNCHANGED counter

ClearCounter(c, f) == counter' = [counter EXCEPT ![c][f] = 0] /\ UNCHANGED report

(* The next step of the session whose turn it is, in the order of the map.   *)
CheckStep ==
    /\ \E c \in collecting.left :
        /\ \A d \in collecting.left : c <= d
        /\ LET step == GetPacketInfo[collecting.at]
           IN  IF step.op = "read" THEN ReadCounter(c, step.field) ELSE ClearCounter(c, step.field)
        /\ collecting' = IF collecting.at = Len(GetPacketInfo)
                         THEN [left |-> collecting.left \ {c}, at |-> 1]
                         ELSE [collecting EXCEPT !.at = @ + 1]
    /\ UNCHANGED <<starter, last, todo, loaded, client, sending, starts, server, wire, history>>

----------------------------------------------------------------------------
Next ==
    \/ OnStartTimer \/ CreateSession \/ InsertSession \/ CheckStart \/ CheckStep
    \/ ReceiveHandle \/ RequestHandle
    \/ \E s \in Senders : OnTrafficSendTimer(s)
    \/ \E c \in Sessions :
        \/ StartSent(c) \/ StartFails(c) \/ PostCloseTimer(c)
        \/ RecvHandler(c) \/ LoadCounter(c) \/ StoreCounter(c)

Spec == Init /\ [][Next]_vars

(* The server's thread runs whatever is posted to it.                        *)
FairSpec == Spec /\ WF_vars(ReceiveHandle) /\ WF_vars(RequestHandle)

----------------------------------------------------------------------------
(* What a counter counts, and all that the sessions of a group have of it.   *)
Numbers(f) == IF f = "count" THEN delivered ELSE missed
Of(numbers, group) == UNION {{c} \X numbers[c] : c \in group}

(* A session holds, and a report hands over, no more datagrams than arrived  *)
(* and no more loss than datagrams really missing when a later one came,     *)
(* whatever the two threads do to the counters, and though all sessions of a *)
(* sender share its numbers.                                                 *)
ReportWithinTruth ==
    /\ TypeOK
    /\ \A f \in Fields :
        /\ \A c \in Sessions : counter[c][f] <= Cardinality(Numbers(f)[c])
        /\ report[f] <= Cardinality(Of(Numbers(f), Sessions))

----------------------------------------------------------------------------
(* Why the report is within the truth, in parts.                             *)

Serving(c) == {s \in Senders : c \in ToSet(sessions[s])}
Sent(c) == wire[c] \cup delivered[c]

(* The starter creates each session once ...                                 *)
StarterInv ==
    /\ starter.at = "timer" => starter.index = 0
    /\ starter.at \in {"create", "insert"} => starter.index < StartCount
    /\ \A c \in Sessions :
        c \in sending \cup starts \cup ToSet(requests) \/ Serving(c) # {}
            => c < starter.index \/ (c = starter.index /\ starter.at = "insert")

(* ... and so its START is in one place, and one sender serves it.           *)
OneSenderInv ==
    /\ sending \cap starts = {}
    /\ (sending \cup starts) \cap ToSet(requests) = {}
    /\ \A i, j \in DOMAIN requests : requests[i] = requests[j] => i = j
    /\ \A c \in sending \cup starts \cup ToSet(requests) : Serving(c) = {}
    /\ \A c \in Sessions : \A s, t \in Serving(c) : s = t

(* The numbers sent to a session have no gap, its sender's comes next, and   *)
(* _last_sequence_number is the highest that arrived.                        *)
NumbersInv ==
    \A c \in Sessions :
        /\ IsFiniteSet(Sent(c)) /\ IsFiniteSet(missed[c])
        /\ wire[c] \cap delivered[c] = {}
        /\ \A a, b \in Sent(c) : a..b \subseteq Sent(c)
        /\ Serving(c) = {} => Sent(c) = {}
        /\ \A s \in Serving(c), n \in Sent(c) : n < sequence[s] /\ sequence[s] - 1 \in Sent(c)
        /\ last[c] = 0 \/ last[c] \in delivered[c]
        /\ \A n \in delivered[c] : n <= last[c]
        /\ \A n \in missed[c] : n < last[c]

(* What is still to be added to a counter has happened, too.                 *)
CounterInv ==
    \A c \in Sessions :
        /\ \A f \in Fields : counter[c][f] <= Cardinality(Numbers(f)[c])
        /\ \A i \in DOMAIN todo[c] :
            LET step == todo[c][i]
            IN  /\ counter[c][step.field] + step.by <= Cardinality(Numbers(step.field)[c])
                /\ i = 1 /\ loaded[c] # NotLoaded
                    => loaded[c] + step.by <= Cardinality(Numbers(step.field)[c])
                /\ \A j \in DOMAIN todo[c] : todo[c][j].field = step.field => j = i
        /\ loaded[c] # NotLoaded => todo[c] # <<>>

(* A report holds what the sessions read so far have had.                    *)
Unread(f) ==
    {c \in collecting.left :
        (collecting.at = 1 \/ (f = "count" /\ collecting.at = 2)) \/ \E d \in collecting.left : d < c}

ReportInv ==
    \A f \in Fields : report[f] <= Cardinality(Of(Numbers(f), Sessions \ Unread(f)))

IInv == TypeOK /\ StarterInv /\ OneSenderInv /\ NumbersInv /\ CounterInv /\ ReportInv
=============================================================================
