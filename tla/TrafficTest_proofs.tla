-------------------------- MODULE TrafficTest_proofs --------------------------
(***************************************************************************)
(* Proofs that the counters of the traffic test stay within the truth, for *)
(* any number of sessions and of senders and any numbers of datagrams.     *)
(***************************************************************************)
EXTENDS TrafficTest, FiniteSetTheorems, TLAPS

USE TrafficTestAssumption
    DEF timer, client, counting, server, history, Sessions, Senders, Fields, NotLoaded

----------------------------------------------------------------------------
(* Types.                                                                    *)

LEMMA SessionsFinite == IsFiniteSet(Sessions)
  BY FS_Interval

(* A conjunct of TypeOK at a time.                                           *)
StarterType == starter \in [index : 0..StartCount, at : {"timer", "create", "insert", "done"}]
ClientType ==
    /\ socket \in [Sessions -> {"none", "open", "closing", "released", "closed"}]
    /\ map \subseteq Sessions /\ sending \subseteq Sessions /\ starts \subseteq Sessions
CountingType ==
    /\ last \in [Sessions -> Nat] /\ counter \in [Sessions -> [Fields -> Nat]]
    /\ todo \in [Sessions -> Seq(Step)] /\ loaded \in [Sessions -> Nat \cup {NotLoaded}]
ReportType ==
    /\ collecting \in [left : SUBSET Sessions, at : 1..4]
    /\ report \in [Fields -> Nat]
ServerType ==
    /\ receiving \in BOOLEAN /\ requests \in Seq(Sessions) /\ insertIndex \in Nat
    /\ sessions \in [Senders -> Seq(Sessions)] /\ sequence \in [Senders -> Nat]
NumbersType ==
    /\ wire \in [Sessions -> SUBSET Nat] /\ delivered \in [Sessions -> SUBSET Nat]
    /\ missed \in [Sessions -> SUBSET Nat]

LEMMA PacketInfoSteps ==
    /\ DOMAIN GetPacketInfo = 1..4 /\ Len(GetPacketInfo) = 4
    /\ GetPacketInfo[1] = [op |-> "read", field |-> "loss"]
    /\ GetPacketInfo[2] = [op |-> "read", field |-> "count"]
    /\ GetPacketInfo[3] = [op |-> "clear", field |-> "loss"]
    /\ GetPacketInfo[4] = [op |-> "clear", field |-> "count"]
  BY DEF GetPacketInfo

LEMMA TypesOfParts ==
    TypeOK <=> /\ StarterType /\ ClientType /\ CountingType
               /\ ReportType /\ ServerType /\ NumbersType
  BY PacketInfoSteps DEF TypeOK, StarterType, ClientType, CountingType, ReportType, ServerType, NumbersType

LEMMA TypeInit == Init => TypeOK
<1>. SUFFICES ASSUME Init PROVE TypeOK
  OBVIOUS
<1>1. StarterType /\ ClientType /\ NumbersType
  BY DEF Init, StarterType, ClientType, NumbersType
<1>2. CountingType
  BY DEF Init, CountingType, Zero, Step
<1>3. ReportType /\ ServerType
  BY DEF Init, ReportType, ServerType, Zero
<1>. QED
  BY <1>1, <1>2, <1>3, TypesOfParts

LEMMA TypeStep ==
    ASSUME TypeOK, StarterInv, [Next]_vars
    PROVE  TypeOK'
<1>1. /\ StarterType /\ ClientType /\ CountingType
      /\ ReportType /\ ServerType /\ NumbersType
  BY TypesOfParts
<1>2. StarterType'
  BY <1>1 DEF StarterType, StarterInv, Next, vars, OnStartTimer, CreateSession, InsertSession,
     CheckStart, CheckStep, ReceiveHandle, RequestHandle, OnTrafficSendTimer,
     StartSent, StartFails, PostCloseTimer, RecvHandler, LoadCounter, StoreCounter
<1>3. ClientType'
  <2>1. starter.at \in {"create", "insert"} => starter.index \in Sessions
    BY <1>1 DEF StarterType, StarterInv
  <2>. QED
    BY <1>1, <2>1 DEF ClientType, Next, vars, OnStartTimer, CreateSession, InsertSession,
       CheckStart, CheckStep, ReceiveHandle, RequestHandle, OnTrafficSendTimer,
       StartSent, StartFails, PostCloseTimer, RecvHandler, LoadCounter, StoreCounter
<1>4. CountingType'
  <2>1. CASE \E c \in Sessions : RecvHandler(c)
    <3>1. PICK c \in Sessions : RecvHandler(c)
      BY <2>1
    <3>2. PICK n \in wire[c] :
            /\ todo' = [todo EXCEPT ![c] = <<[field |-> "count", by |-> 1]>> \o Gap(c, n)]
            /\ last' = [last EXCEPT ![c] = IF @ < n THEN n ELSE @]
      BY <3>1 DEF RecvHandler
    <3>3. n \in Nat /\ last[c] \in Nat
      BY <1>1 DEF CountingType, NumbersType
    <3>4. Gap(c, n) \in Seq(Step)
      <4>1. last[c] < n /\ n # last[c] + 1 => [field |-> "loss", by |-> n - last[c] - 1] \in Step
        BY <3>3 DEF Step
      <4>2. last[c] < n /\ n # last[c] + 1
                => <<[field |-> "loss", by |-> n - last[c] - 1]>> \in Seq(Step)
        BY <4>1
      <4>3. <<>> \in Seq(Step)
        OBVIOUS
      <4>. QED
        BY <4>2, <4>3 DEF Gap
    <3>5. <<[field |-> "count", by |-> 1]>> \in Seq(Step)
      BY DEF Step
    <3>6. <<[field |-> "count", by |-> 1]>> \o Gap(c, n) \in Seq(Step)
      BY <3>4, <3>5
    <3>. QED
      BY <1>1, <3>1, <3>2, <3>3, <3>6 DEF CountingType, RecvHandler
  <2>2. CASE \E c \in Sessions : LoadCounter(c)
    <3>1. PICK c \in Sessions : LoadCounter(c)
      BY <2>2
    <3>2. Head(todo[c]) \in Step
      BY <1>1, <3>1 DEF CountingType, LoadCounter
    <3>3. counter[c][Head(todo[c]).field] \in Nat
      <4>1. Head(todo[c]).field \in Fields
        BY <3>2 DEF Step
      <4>2. counter[c] \in [Fields -> Nat]
        BY <1>1 DEF CountingType
      <4>. QED
        BY <4>1, <4>2
    <3>. QED
      BY <1>1, <3>1, <3>3 DEF CountingType, LoadCounter
  <2>3. CASE \E c \in Sessions : StoreCounter(c)
    <3>1. PICK c \in Sessions : StoreCounter(c)
      BY <2>3
    <3>2. Head(todo[c]) \in Step /\ Tail(todo[c]) \in Seq(Step)
      BY <1>1, <3>1 DEF CountingType, StoreCounter
    <3>3. loaded[c] \in Nat
      BY <1>1, <3>1 DEF CountingType, StoreCounter
    <3>4. loaded[c] + Head(todo[c]).by \in Nat /\ Head(todo[c]).field \in Fields
      BY <3>2, <3>3 DEF Step
    <3>. QED
      BY <1>1, <3>1, <3>2, <3>4 DEF CountingType, StoreCounter
  <2>4. CASE CheckStep
    <3>1. \A c \in Sessions, f \in Fields : ClearCounter(c, f) => counter' \in [Sessions -> [Fields -> Nat]]
      BY <1>1 DEF CountingType, ClearCounter
    <3>2. counter' \in [Sessions -> [Fields -> Nat]]
      BY <1>1, <2>4, <3>1, PacketInfoSteps DEF CheckStep, ReportType, CountingType, ReadCounter
    <3>. QED
      BY <1>1, <2>4, <3>2 DEF CheckStep, CountingType
  <2>. QED
    BY <1>1, <2>1, <2>2, <2>3, <2>4 DEF CountingType, Next, vars, OnStartTimer, CreateSession,
       InsertSession, CheckStart, ReceiveHandle, RequestHandle, OnTrafficSendTimer,
       StartSent, StartFails, PostCloseTimer
<1>5. ReportType'
  <2>1. CASE CheckStep
    <3>1. \A c \in Sessions, f \in Fields : ReadCounter(c, f) => report' \in [Fields -> Nat]
      BY <1>1 DEF CountingType, ReportType, ReadCounter
    <3>2. report' \in [Fields -> Nat]
      BY <1>1, <2>1, <3>1, PacketInfoSteps DEF CheckStep, ReportType, ClearCounter
    <3>. QED
      BY <1>1, <2>1, <3>2, PacketInfoSteps DEF CheckStep, ReportType
  <2>. QED
    BY <1>1, <2>1 DEF ReportType, ClientType, Zero, Next, vars, OnStartTimer, CreateSession, InsertSession,
       CheckStart, ReceiveHandle, RequestHandle, OnTrafficSendTimer,
       StartSent, StartFails, PostCloseTimer, RecvHandler, LoadCounter, StoreCounter
<1>6. ServerType'
  <2>1. CASE RequestHandle
    <3>1. Head(requests) \in Sessions /\ Tail(requests) \in Seq(Sessions)
      BY <1>1, <2>1 DEF ServerType, RequestHandle
    <3>2. insertIndex % SenderCount \in Senders /\ insertIndex + 1 \in Nat
      BY <1>1 DEF ServerType
    <3>3. Append(sessions[insertIndex % SenderCount], Head(requests)) \in Seq(Sessions)
      BY <1>1, <3>1, <3>2 DEF ServerType
    <3>. QED
      BY <1>1, <2>1, <3>1, <3>2, <3>3 DEF ServerType, RequestHandle, OnRegisterSession
  <2>2. CASE ReceiveHandle
    <3>1. \A c \in starts : Append(requests, c) \in Seq(Sessions)
      BY <1>1 DEF ServerType, ClientType
    <3>. QED
      BY <1>1, <2>2, <3>1 DEF ServerType, ReceiveHandle
  <2>3. CASE \E s \in Senders : OnTrafficSendTimer(s)
    BY <1>1, <2>3 DEF ServerType, OnTrafficSendTimer
  <2>4. CASE UNCHANGED server
    BY <1>1, <2>4 DEF ServerType
  <2>. QED
    BY <2>1, <2>2, <2>3, <2>4 DEF Next, vars, OnStartTimer, CreateSession, InsertSession,
       CheckStart, CheckStep, StartSent, StartFails, PostCloseTimer, RecvHandler,
       LoadCounter, StoreCounter
<1>7. NumbersType'
  <2>1. CASE \E s \in Senders : OnTrafficSendTimer(s)
    BY <1>1, <2>1 DEF NumbersType, ServerType, OnTrafficSendTimer
  <2>2. CASE \E c \in Sessions : RecvHandler(c)
    <3>1. PICK c \in Sessions : RecvHandler(c)
      BY <2>2
    <3>2. PICK n \in wire[c] :
            /\ wire' = [wire EXCEPT ![c] = @ \ {n}]
            /\ delivered' = [delivered EXCEPT ![c] = @ \cup {n}]
            /\ missed' = [missed EXCEPT ![c] =
                    @ \cup {m \in wire[c] : m < n /\ \E first \in delivered[c] : first < m}]
      BY <3>1 DEF RecvHandler
    <3>. QED
      BY <1>1, <3>2 DEF NumbersType
  <2>3. CASE UNCHANGED <<wire, history>>
    BY <1>1, <2>3 DEF NumbersType
  <2>4. CASE OnStartTimer \/ CreateSession \/ InsertSession \/ CheckStart \/ CheckStep
    BY <2>3, <2>4 DEF OnStartTimer, CreateSession, InsertSession, CheckStart, CheckStep
  <2>5. CASE ReceiveHandle \/ RequestHandle \/ UNCHANGED vars
    BY <2>3, <2>5 DEF ReceiveHandle, RequestHandle, vars
  <2>6. CASE \E c \in Sessions : \/ StartSent(c) \/ StartFails(c) \/ PostCloseTimer(c)
                                 \/ LoadCounter(c) \/ StoreCounter(c)
    BY <2>3, <2>6 DEF StartSent, StartFails, PostCloseTimer, LoadCounter, StoreCounter
  <2>. QED
    BY <2>1, <2>2, <2>4, <2>5, <2>6 DEF Next
<1>. QED
  BY <1>2, <1>3, <1>4, <1>5, <1>6, <1>7, PacketInfoSteps
     DEF TypeOK, StarterType, ClientType, CountingType, ReportType, ServerType, NumbersType

----------------------------------------------------------------------------
(* Where a START is.                                                         *)

(* The queue of calls posted to the server as a set.                         *)
LEMMA QueueSets ==
    ASSUME NEW S
    PROVE  /\ \A q \in Seq(S), e \in S :
                /\ ToSet(Append(q, e)) = ToSet(q) \cup {e}
                /\ DOMAIN Append(q, e) = 1..(Len(q) + 1) /\ DOMAIN q = 1..Len(q)
                /\ \A i \in DOMAIN q : Append(q, e)[i] = q[i]
                /\ Append(q, e)[Len(q) + 1] = e
           /\ \A q \in Seq(S) : q # <<>> =>
                /\ ToSet(q) = {Head(q)} \cup ToSet(Tail(q))
                /\ Head(q) = q[1] /\ 1 \in DOMAIN q
                /\ \A i \in DOMAIN Tail(q) : i + 1 \in DOMAIN q /\ Tail(q)[i] = q[i + 1] /\ i \in Nat \ {0}
<1>1. ASSUME NEW q \in Seq(S), NEW e \in S
      PROVE  /\ ToSet(Append(q, e)) = ToSet(q) \cup {e}
             /\ DOMAIN Append(q, e) = 1..(Len(q) + 1) /\ DOMAIN q = 1..Len(q)
             /\ \A i \in DOMAIN q : Append(q, e)[i] = q[i]
             /\ Append(q, e)[Len(q) + 1] = e
  BY DEF ToSet
<1>2. ASSUME NEW q \in Seq(S), q # <<>>
      PROVE  /\ Head(q) = q[1] /\ 1 \in DOMAIN q
             /\ \A i \in DOMAIN Tail(q) : i + 1 \in DOMAIN q /\ Tail(q)[i] = q[i + 1] /\ i \in Nat \ {0}
             /\ DOMAIN Tail(q) = 1..(Len(q) - 1) /\ DOMAIN q = 1..Len(q)
  BY <1>2
<1>3. ASSUME NEW q \in Seq(S), q # <<>>
      PROVE  ToSet(q) = {Head(q)} \cup ToSet(Tail(q))
  <2>1. \A i \in DOMAIN q : i = 1 \/ (i - 1 \in DOMAIN Tail(q) /\ Tail(q)[i - 1] = q[i])
    BY <1>2, <1>3
  <2>2. \A i \in DOMAIN q : q[i] = Head(q) \/ \E j \in DOMAIN Tail(q) : Tail(q)[j] = q[i]
    BY <1>2, <1>3, <2>1
  <2>3. Head(q) \in ToSet(q) /\ \A j \in DOMAIN Tail(q) : Tail(q)[j] \in ToSet(q)
    BY <1>2, <1>3 DEF ToSet
  <2>. QED
    BY <2>2, <2>3 DEF ToSet
<1>. QED
  BY <1>1, <1>2, <1>3

(* The sessions a START of which is somewhere, or has been.                  *)
Known(c) == c \in sending \cup starts \cup ToSet(requests) \/ Serving(c) # {}

LEMMA ServingUnchanged ==
    ASSUME UNCHANGED sessions, NEW c
    PROVE  Serving(c)' = Serving(c)
  BY DEF Serving

(* Registering moves the session at the head of the queue to one sender.     *)
LEMMA ServingRegistered ==
    ASSUME TypeOK, RequestHandle
    PROVE  /\ insertIndex % SenderCount \in Senders /\ Head(requests) \in Sessions
           /\ \A c \in Sessions : Serving(c)' =
                IF c = Head(requests) THEN Serving(c) \cup {insertIndex % SenderCount} ELSE Serving(c)
<1>1. ServerType
  BY TypesOfParts
<1>2. insertIndex % SenderCount \in Senders /\ Head(requests) \in Sessions
  BY <1>1 DEF ServerType, RequestHandle
<1>3. \A q \in Seq(Sessions), e \in Sessions : ToSet(Append(q, e)) = ToSet(q) \cup {e}
  BY QueueSets
<1>4. \A s \in Senders : sessions'[s] = IF s = insertIndex % SenderCount
                                      THEN Append(sessions[s], Head(requests)) ELSE sessions[s]
  BY <1>1, <1>2 DEF RequestHandle, OnRegisterSession, ServerType
<1>5. \A s \in Senders : ToSet(sessions'[s]) =
          IF s = insertIndex % SenderCount THEN ToSet(sessions[s]) \cup {Head(requests)}
          ELSE ToSet(sessions[s])
  BY <1>1, <1>2, <1>3, <1>4 DEF ServerType
<1>. QED
  BY <1>2, <1>5 DEF Serving

LEMMA StarterStep ==
    ASSUME TypeOK, StarterInv, [Next]_vars
    PROVE  StarterInv'
<1>1. StarterType /\ ClientType /\ ServerType
  BY TypesOfParts
<1>2. CASE /\ UNCHANGED starter
           /\ \A c \in Sessions : Known(c)' => Known(c)
  BY <1>2 DEF StarterInv, Known
<1>3. CASE UNCHANGED <<sending, starts, requests, sessions>> /\ (OnStartTimer \/ InsertSession)
  <2>1. \A c \in Sessions : Known(c)' = Known(c)
    BY <1>3, ServingUnchanged DEF Known
  <2>2. /\ OnStartTimer => /\ starter'.index = starter.index /\ starter.at = "timer"
              /\ starter'.at = IF StartCount = 0 THEN "done" ELSE "create"
        /\ InsertSession => /\ starter'.index = starter.index + 1 /\ starter.at = "insert"
              /\ starter'.at = IF starter.index + 1 = StartCount THEN "done" ELSE "create"
    BY <1>1, <1>3 DEF OnStartTimer, InsertSession, StarterType
  <2>. QED
    BY <1>1, <1>3, <2>1, <2>2 DEF StarterInv, Known, StarterType
<1>4. CASE CreateSession
  <2>1. \A c \in Sessions : Known(c)' => Known(c) \/ c = starter.index
    BY <1>4, ServingUnchanged DEF Known, CreateSession
  <2>2. starter'.index = starter.index /\ starter'.at = "insert" /\ starter.at = "create"
    BY <1>1, <1>4 DEF CreateSession, StarterType
  <2>. QED
    BY <1>1, <2>1, <2>2 DEF StarterInv, Known, StarterType
<1>5. CASE RequestHandle
  <2>1. \A c \in Sessions : Known(c)' => Known(c)
    BY <1>1, <1>5, QueueSets, ServingRegistered DEF Known, RequestHandle, ServerType
  <2>. QED
    BY <1>2, <1>5, <2>1 DEF RequestHandle
<1>6. CASE ReceiveHandle
  <2>1. PICK c \in starts : starts' = starts \ {c} /\ requests' = Append(requests, c)
    BY <1>6 DEF ReceiveHandle
  <2>2. ToSet(requests') = ToSet(requests) \cup {c}
    <3>1. \A q \in Seq(Sessions), e \in Sessions : ToSet(Append(q, e)) = ToSet(q) \cup {e}
      BY QueueSets
    <3>. QED
      BY <1>1, <2>1, <3>1 DEF ServerType, ClientType
  <2>3. \A d \in Sessions : Known(d)' => Known(d)
    BY <1>6, <2>1, <2>2, ServingUnchanged DEF Known, ReceiveHandle
  <2>. QED
    BY <1>2, <1>6, <2>3 DEF ReceiveHandle
<1>7. CASE UNCHANGED <<starter, requests, sessions>> /\ sending' \cup starts' \subseteq sending \cup starts
  BY <1>2, <1>7, ServingUnchanged DEF Known
<1>8. CASE \E c \in Sessions : StartSent(c) \/ StartFails(c) \/ PostCloseTimer(c)
                                \/ RecvHandler(c) \/ LoadCounter(c) \/ StoreCounter(c)
  BY <1>7, <1>8 DEF StartSent, StartFails, PostCloseTimer, RecvHandler, LoadCounter, StoreCounter
<1>9. CASE CheckStart \/ CheckStep \/ UNCHANGED vars \/ \E s \in Senders : OnTrafficSendTimer(s)
  BY <1>7, <1>9 DEF CheckStart, CheckStep, OnTrafficSendTimer, vars
<1>10. OnStartTimer \/ InsertSession => UNCHANGED <<sending, starts, requests, sessions>>
  BY DEF OnStartTimer, InsertSession
<1>. QED
  BY <1>3, <1>4, <1>5, <1>6, <1>8, <1>9, <1>10 DEF Next

(* A START that leaves one place for the next leaves the others alone.       *)
LEMMA OneSenderUnchanged ==
    ASSUME OneSenderInv, UNCHANGED <<requests, sessions>>,
           sending' \subseteq sending, sending' \cap starts' = {},
           sending' \cup starts' \subseteq sending \cup starts
    PROVE  OneSenderInv'
<1>1. \A c : Serving(c)' = Serving(c)
  BY ServingUnchanged
<1>. QED
  BY <1>1 DEF OneSenderInv

LEMMA OneSenderStep ==
    ASSUME TypeOK, StarterInv, OneSenderInv, [Next]_vars
    PROVE  OneSenderInv'
<1>1. StarterType /\ ClientType /\ ServerType
  BY TypesOfParts
<1>2. CASE CreateSession
  <2>1. /\ starter.index \in Sessions /\ ~ Known(starter.index)
        /\ UNCHANGED <<starts, requests, sessions>> /\ sending' = sending \cup {starter.index}
    BY <1>1, <1>2 DEF CreateSession, StarterInv, StarterType, Known
  <2>2. \A c : Serving(c)' = Serving(c)
    BY <2>1, ServingUnchanged
  <2>. QED
    BY <2>1, <2>2 DEF OneSenderInv, Known
<1>3. CASE ReceiveHandle
  <2>1. PICK c \in starts : starts' = starts \ {c} /\ requests' = Append(requests, c)
    BY <1>3 DEF ReceiveHandle
  <2>2. \A q \in Seq(Sessions), e \in Sessions :
            /\ ToSet(Append(q, e)) = ToSet(q) \cup {e}
            /\ DOMAIN Append(q, e) = 1..(Len(q) + 1) /\ DOMAIN q = 1..Len(q)
            /\ \A i \in DOMAIN q : Append(q, e)[i] = q[i]
            /\ Append(q, e)[Len(q) + 1] = e
    BY QueueSets
  <2>3. /\ ToSet(requests') = ToSet(requests) \cup {c}
        /\ DOMAIN requests' = DOMAIN requests \cup {Len(requests) + 1}
        /\ \A i \in DOMAIN requests : requests'[i] = requests[i]
        /\ requests'[Len(requests) + 1] = c
    BY <1>1, <2>1, <2>2 DEF ServerType, ClientType
  <2>4. \A i \in DOMAIN requests : requests[i] \in ToSet(requests)
    BY DEF ToSet
  <2>5. c \notin ToSet(requests) /\ c \notin sending
    BY <2>1 DEF OneSenderInv
  <2>6. UNCHANGED <<sending, sessions>>
    BY <1>3 DEF ReceiveHandle
  <2>7. \A d : Serving(d)' = Serving(d)
    BY <2>6, ServingUnchanged
  <2>8. /\ sending' \cap starts' = {}
        /\ (sending' \cup starts') \cap ToSet(requests') = {}
    BY <2>1, <2>3, <2>5, <2>6 DEF OneSenderInv
  <2>9. \A i, j \in DOMAIN requests' : requests'[i] = requests'[j] => i = j
    BY <2>3, <2>4, <2>5 DEF OneSenderInv
  <2>10. \A d \in sending' \cup starts' \cup ToSet(requests') : Serving(d)' = {}
    BY <2>1, <2>3, <2>6, <2>7 DEF OneSenderInv
  <2>11. \A d \in Sessions : \A s, t \in Serving(d)' : s = t
    BY <2>7 DEF OneSenderInv
  <2>. QED
    BY <2>8, <2>9, <2>10, <2>11 DEF OneSenderInv
<1>4. CASE RequestHandle
  <2>1. /\ Head(requests) = requests[1] /\ 1 \in DOMAIN requests
        /\ \A i \in DOMAIN Tail(requests) :
              i + 1 \in DOMAIN requests /\ Tail(requests)[i] = requests[i + 1] /\ i \in Nat \ {0}
        /\ ToSet(requests) = {Head(requests)} \cup ToSet(Tail(requests))
    BY <1>1, <1>4, QueueSets DEF ServerType, RequestHandle
  <2>2. /\ requests' = Tail(requests) /\ UNCHANGED <<sending, starts>>
    BY <1>4 DEF RequestHandle
  <2>3. Head(requests) \notin ToSet(Tail(requests))
    <3>1. \A i \in DOMAIN Tail(requests) : Tail(requests)[i] # Head(requests)
      BY <2>1 DEF OneSenderInv
    <3>. QED
      BY <3>1 DEF ToSet
  <2>4. \A i, j \in DOMAIN Tail(requests) : Tail(requests)[i] = Tail(requests)[j] => i = j
    BY <2>1 DEF OneSenderInv
  <2>5. /\ Head(requests) \in Sessions
        /\ \A c \in Sessions : Serving(c)' =
              IF c = Head(requests) THEN Serving(c) \cup {insertIndex % SenderCount} ELSE Serving(c)
    BY <1>4, ServingRegistered
  <2>6. \A c \in Sessions : \A s, t \in Serving(c)' : s = t
    BY <2>1, <2>5 DEF OneSenderInv
  <2>7. sending \cup starts \cup ToSet(Tail(requests)) \subseteq Sessions
    <3>1. ToSet(requests) \subseteq Sessions
      BY <1>1 DEF ServerType, ToSet
    <3>. QED
      BY <1>1, <2>1, <3>1 DEF ClientType
  <2>8. \A c \in sending \cup starts \cup ToSet(Tail(requests)) : Serving(c)' = {}
    BY <2>1, <2>3, <2>5, <2>7 DEF OneSenderInv
  <2>9. (sending \cup starts) \cap ToSet(Tail(requests)) = {} /\ sending \cap starts = {}
    BY <2>1 DEF OneSenderInv
  <2>. QED
    BY <2>2, <2>4, <2>6, <2>8, <2>9 DEF OneSenderInv
<1>5. CASE \E c \in Sessions : StartSent(c) \/ StartFails(c)
  BY <1>5, OneSenderUnchanged DEF OneSenderInv, StartSent, StartFails
<1>6. CASE UNCHANGED <<sending, starts, requests, sessions>>
  BY <1>6, OneSenderUnchanged DEF OneSenderInv
<1>7. CASE OnStartTimer \/ InsertSession \/ CheckStart \/ CheckStep \/ UNCHANGED vars
           \/ \E s \in Senders : OnTrafficSendTimer(s)
  BY <1>6, <1>7 DEF OnStartTimer, InsertSession, CheckStart, CheckStep, OnTrafficSendTimer, vars
<1>8. CASE \E c \in Sessions : PostCloseTimer(c) \/ RecvHandler(c) \/ LoadCounter(c) \/ StoreCounter(c)
  BY <1>6, <1>8 DEF PostCloseTimer, RecvHandler, LoadCounter, StoreCounter
<1>. QED
  BY <1>2, <1>3, <1>4, <1>5, <1>7, <1>8 DEF Next

----------------------------------------------------------------------------
(* The numbers of the datagrams.                                             *)

(* The conjuncts of NumbersInv for one session.                              *)
NumbersOf(c) ==
    /\ IsFiniteSet(Sent(c)) /\ IsFiniteSet(missed[c])
    /\ wire[c] \cap delivered[c] = {}
    /\ \A a, b \in Sent(c) : a..b \subseteq Sent(c)
    /\ Serving(c) = {} => Sent(c) = {}
    /\ \A s \in Serving(c), n \in Sent(c) : n < sequence[s] /\ sequence[s] - 1 \in Sent(c)
    /\ last[c] = 0 \/ last[c] \in delivered[c]
    /\ \A n \in delivered[c] : n <= last[c]
    /\ \A n \in missed[c] : n < last[c]

LEMMA NumbersOfEach == NumbersInv <=> \A c \in Sessions : NumbersOf(c)
  BY DEF NumbersInv, NumbersOf

LEMMA NumbersUnchanged ==
    ASSUME NumbersInv, NEW c \in Sessions,
           wire'[c] = wire[c], delivered'[c] = delivered[c], missed'[c] = missed[c],
           last'[c] = last[c], Serving(c)' = Serving(c),
           \A s \in Serving(c) : sequence'[s] = sequence[s]
    PROVE  NumbersOf(c)'
<1>1. NumbersOf(c) /\ Sent(c)' = Sent(c)
  BY NumbersOfEach DEF Sent
<1>. QED
  BY <1>1 DEF NumbersOf

(* The next number of the sender goes to each of its sessions.               *)
LEMMA NumbersSent ==
    ASSUME TypeOK, OneSenderInv, NumbersInv, NEW s \in Senders, OnTrafficSendTimer(s)
    PROVE  NumbersInv'
<1>1. ServerType /\ NumbersType
  BY TypesOfParts
<1>2. /\ UNCHANGED <<sessions, delivered, missed, last>>
      /\ sequence' = [sequence EXCEPT ![s] = @ + 1] /\ sequence[s] \in Nat
      /\ \A c \in Sessions : wire'[c] =
            IF s \in Serving(c) THEN wire[c] \cup {sequence[s]} ELSE wire[c]
  BY <1>1 DEF OnTrafficSendTimer, Serving, ServerType
<1>3. \A c : Serving(c)' = Serving(c)
  BY <1>2, ServingUnchanged
<1>4. ASSUME NEW c \in Sessions
      PROVE  NumbersOf(c)'
  <2>1. CASE s \notin Serving(c)
    <3>1. \A t \in Serving(c) : sequence'[t] = sequence[t]
      BY <1>1, <1>2, <2>1 DEF ServerType, Serving
    <3>. QED
      BY <1>2, <1>3, <2>1, <3>1, NumbersUnchanged
  <2>2. CASE s \in Serving(c)
    <3>1. Serving(c) = {s}
      <4>1. \A t \in Serving(c) : t = s
        BY <2>2 DEF OneSenderInv
      <4>. QED
        BY <2>2, <4>1
    <3>2. Sent(c)' = Sent(c) \cup {sequence[s]} /\ wire'[c] = wire[c] \cup {sequence[s]}
      BY <1>2, <2>2 DEF Sent
    <3>3. /\ NumbersOf(c) /\ Sent(c) \subseteq Nat /\ delivered[c] \subseteq Sent(c)
          /\ Sent(c) # {} => sequence[s] - 1 \in Sent(c)
          /\ \A n \in Sent(c) : n < sequence[s]
      BY <1>1, <2>2, NumbersOfEach DEF Sent, NumbersType, NumbersOf
    <3>4. sequence'[s] = sequence[s] + 1
      BY <1>1, <1>2 DEF ServerType
    <3>5. IsFiniteSet(Sent(c)')
      BY <3>2, <3>3, FS_AddElement DEF NumbersOf
    <3>6. wire'[c] \cap delivered'[c] = {}
      BY <1>2, <3>2, <3>3 DEF NumbersOf
    <3>7. ASSUME NEW a \in Sent(c)', NEW b \in Sent(c)', NEW n \in a..b
          PROVE  n \in Sent(c)'
      <4>1. a \in Nat /\ b \in Nat /\ n \in Int /\ a <= n /\ n <= b
        BY <1>2, <3>2, <3>3, <3>7
      <4>2. CASE b \in Sent(c)
        <5>1. a \in Sent(c)
          BY <1>2, <3>2, <3>3, <4>1, <4>2
        <5>. QED
          BY <3>2, <3>3, <4>2, <5>1 DEF NumbersOf
      <4>3. CASE b = sequence[s] /\ a \in Sent(c)
        <5>1. n = sequence[s] \/ n \in a..(sequence[s] - 1)
          BY <1>2, <4>1, <4>3
        <5>2. sequence[s] - 1 \in Sent(c)
          BY <3>3, <4>3
        <5>3. a..(sequence[s] - 1) \subseteq Sent(c)
          BY <3>3, <4>3, <5>2 DEF NumbersOf
        <5>. QED
          BY <3>2, <5>1, <5>3
      <4>4. CASE a = sequence[s] /\ b = sequence[s]
        BY <3>2, <4>1, <4>4
      <4>. QED
        BY <3>2, <4>2, <4>3, <4>4
    <3>8. \A t \in Serving(c)', n \in Sent(c)' : n < sequence'[t] /\ sequence'[t] - 1 \in Sent(c)'
      <4>1. sequence'[s] - 1 = sequence[s]
        BY <1>2, <3>4
      <4>2. \A n \in Sent(c)' : n < sequence'[s]
        BY <1>2, <3>2, <3>3, <3>4
      <4>. QED
        BY <1>3, <3>1, <3>2, <4>1, <4>2
    <3>. QED
      BY <1>2, <1>3, <2>2, <3>3, <3>5, <3>6, <3>7, <3>8 DEF NumbersOf
  <2>. QED
    BY <2>1, <2>2
<1>. QED
  BY <1>4 DEF NumbersInv, NumbersOf

(* What RecvHandler does with datagram n.                                    *)
Arrives(c, n) ==
    /\ wire' = [wire EXCEPT ![c] = @ \ {n}]
    /\ todo' = [todo EXCEPT ![c] = <<[field |-> "count", by |-> 1]>> \o Gap(c, n)]
    /\ last' = [last EXCEPT ![c] = IF @ < n THEN n ELSE @]
    /\ delivered' = [delivered EXCEPT ![c] = @ \cup {n}]
    /\ missed' = [missed EXCEPT ![c] =
            @ \cup {m \in wire[c] : m < n /\ \E first \in delivered[c] : first < m}]

LEMMA NumbersArrive ==
    ASSUME TypeOK, NumbersInv, NEW c \in Sessions, RecvHandler(c)
    PROVE  NumbersInv'
<1>1. CountingType /\ NumbersType
  BY TypesOfParts
<1>2. PICK n \in wire[c] : Arrives(c, n)
  BY DEF RecvHandler, Arrives
<1>3. UNCHANGED <<sessions, sequence>>
  BY DEF RecvHandler
<1>4. \A d : Serving(d)' = Serving(d)
  BY <1>3, ServingUnchanged
<1>5. ASSUME NEW d \in Sessions, d # c
      PROVE  NumbersOf(d)'
  <2>1. wire'[d] = wire[d] /\ delivered'[d] = delivered[d] /\ missed'[d] = missed[d] /\ last'[d] = last[d]
    BY <1>1, <1>2, <1>5 DEF Arrives, CountingType, NumbersType
  <2>. QED
    BY <1>3, <1>4, <2>1, NumbersUnchanged
<1>6. NumbersOf(c)'
  <2> DEFINE Late == {m \in wire[c] : m < n /\ \E first \in delivered[c] : first < m}
  <2>1. /\ wire'[c] = wire[c] \ {n} /\ delivered'[c] = delivered[c] \cup {n}
        /\ last'[c] = IF last[c] < n THEN n ELSE last[c]
        /\ missed'[c] = missed[c] \cup Late
    BY <1>1, <1>2 DEF Arrives, CountingType, NumbersType
  <2>2. NumbersOf(c)
    BY NumbersOfEach
  <2>3. Sent(c)' = Sent(c)
    BY <1>2, <2>1 DEF Sent
  <2>4. /\ wire[c] \subseteq Nat /\ delivered[c] \subseteq Nat /\ missed[c] \subseteq Nat
        /\ last[c] \in Nat /\ n \in Nat
    BY <1>1, <1>2 DEF CountingType, NumbersType
  <2>5. IsFiniteSet(missed'[c])
    <3>1. Late \subseteq Sent(c)
      BY DEF Sent
    <3>2. IsFiniteSet(Late)
      BY <2>2, <3>1, FS_Subset DEF NumbersOf
    <3>. QED
      <4>1. IsFiniteSet(missed[c])
        BY <2>2 DEF NumbersOf
      <4> HIDE DEF Late
      <4>2. IsFiniteSet(missed[c] \cup Late)
        BY <3>2, <4>1, FS_Union
      <4>. QED
        BY <2>1, <4>2
  <2>6. wire'[c] \cap delivered'[c] = {}
    BY <2>1, <2>2 DEF NumbersOf
  <2>7. /\ last'[c] = 0 \/ last'[c] \in delivered'[c]
        /\ \A m \in delivered'[c] : m <= last'[c]
    BY <2>1, <2>2, <2>4 DEF NumbersOf
  <2>8. \A m \in missed'[c] : m < last'[c]
    BY <2>1, <2>2, <2>4 DEF NumbersOf
  <2>. QED
    BY <1>3, <1>4, <2>2, <2>3, <2>5, <2>6, <2>7, <2>8 DEF NumbersOf
<1>. QED
  BY <1>5, <1>6 DEF NumbersInv, NumbersOf

LEMMA NumbersStep ==
    ASSUME TypeOK, OneSenderInv, NumbersInv, [Next]_vars
    PROVE  NumbersInv'
<1>1. CASE \E s \in Senders : OnTrafficSendTimer(s)
  BY <1>1, NumbersSent
<1>2. CASE \E c \in Sessions : RecvHandler(c)
  BY <1>2, NumbersArrive
<1>3. CASE RequestHandle
  <2>1. UNCHANGED <<wire, delivered, missed, last, sequence>>
    BY <1>3 DEF RequestHandle
  <2>2. ServerType
    BY TypesOfParts
  <2>3. Head(requests) \in ToSet(requests)
    BY <1>3, <2>2, QueueSets DEF RequestHandle, ServerType, ToSet
  <2>4. Serving(Head(requests)) = {} /\ Head(requests) \in Sessions
    BY <1>3, <2>3, ServingRegistered DEF OneSenderInv
  <2>5. ASSUME NEW c \in Sessions, c # Head(requests)
        PROVE  NumbersOf(c)'
    <3>1. Serving(c)' = Serving(c)
      BY <1>3, <2>5, ServingRegistered
    <3>. QED
      BY <2>1, <3>1, NumbersUnchanged
  <2>6. NumbersOf(Head(requests)) /\ Sent(Head(requests)) = {}
    BY <2>4, NumbersOfEach DEF NumbersOf
  <2>7. \A c \in Sessions : Sent(c)' = Sent(c)
    BY <2>1 DEF Sent
  <2>. QED
    BY <2>1, <2>4, <2>5, <2>6, <2>7 DEF NumbersInv, NumbersOf
<1>4. CASE UNCHANGED <<wire, delivered, missed, last, sessions, sequence>>
  <2>1. \A c : Serving(c)' = Serving(c)
    BY <1>4, ServingUnchanged
  <2>2. \A c \in Sessions : NumbersOf(c)'
    BY <1>4, <2>1, NumbersUnchanged
  <2>. QED
    BY <2>2 DEF NumbersInv, NumbersOf
<1>5. CASE OnStartTimer \/ CreateSession \/ InsertSession \/ CheckStart \/ CheckStep
           \/ ReceiveHandle \/ UNCHANGED vars
  BY <1>4, <1>5 DEF OnStartTimer, CreateSession, InsertSession, CheckStart, CheckStep, ReceiveHandle, vars
<1>6. CASE \E c \in Sessions : StartSent(c) \/ StartFails(c) \/ PostCloseTimer(c)
                                \/ LoadCounter(c) \/ StoreCounter(c)
  BY <1>4, <1>6 DEF StartSent, StartFails, PostCloseTimer, LoadCounter, StoreCounter
<1>. QED
  BY <1>1, <1>2, <1>3, <1>5, <1>6 DEF Next

----------------------------------------------------------------------------
(* The counters.                                                             *)

Truth(c, f) == Cardinality(Numbers(f)[c])

(* The truth grows, if the sets it counts do.                                *)
LEMMA TruthGrows ==
    ASSUME NumbersInv', NEW c \in Sessions, NEW f \in Fields,
           Numbers(f)[c] \subseteq Numbers(f)'[c]
    PROVE  /\ IsFiniteSet(Numbers(f)[c]) /\ IsFiniteSet(Numbers(f)'[c])
           /\ Truth(c, f) \in Nat /\ Truth(c, f)' \in Nat /\ Truth(c, f) <= Truth(c, f)'
<1>1. delivered'[c] \subseteq wire'[c] \cup delivered'[c]
  OBVIOUS
<1>2. IsFiniteSet(wire'[c] \cup delivered'[c]) /\ IsFiniteSet(missed'[c])
  BY DEF NumbersInv, Sent
<1>3. IsFiniteSet(delivered'[c])
  BY <1>1, <1>2, FS_Subset
<1>4. IsFiniteSet(Numbers(f)'[c])
  BY <1>2, <1>3 DEF Numbers
<1>5. IsFiniteSet(Numbers(f)[c]) /\ Cardinality(Numbers(f)[c]) <= Cardinality(Numbers(f)'[c])
  BY <1>4, FS_Subset
<1>6. Cardinality(Numbers(f)[c]) \in Nat /\ Cardinality(Numbers(f)'[c]) \in Nat
  BY <1>4, <1>5, FS_CardinalityType
<1>. QED
  BY <1>4, <1>5, <1>6 DEF Truth

(* The conjuncts of CounterInv for one session.                              *)
CounterOf(c) ==
    /\ \A f \in Fields : counter[c][f] <= Truth(c, f)
    /\ \A i \in DOMAIN todo[c] :
        /\ counter[c][todo[c][i].field] + todo[c][i].by <= Truth(c, todo[c][i].field)
        /\ i = 1 /\ loaded[c] # NotLoaded
            => loaded[c] + todo[c][i].by <= Truth(c, todo[c][i].field)
        /\ \A j \in DOMAIN todo[c] : todo[c][j].field = todo[c][i].field => j = i
    /\ loaded[c] # NotLoaded => todo[c] # <<>>

LEMMA CounterOfEach == CounterInv <=> \A c \in Sessions : CounterOf(c)
  BY DEF CounterInv, CounterOf, Truth

LEMMA CounterTypes ==
    ASSUME CountingType, NEW c \in Sessions
    PROVE  /\ todo[c] \in Seq(Step) /\ loaded[c] \in Int
           /\ \A f \in Fields : counter[c][f] \in Nat
           /\ \A i \in DOMAIN todo[c] : todo[c][i].field \in Fields /\ todo[c][i].by \in Nat
<1>1. todo[c] \in Seq(Step) /\ counter[c] \in [Fields -> Nat] /\ loaded[c] \in Int
  BY DEF CountingType
<1>2. \A i \in DOMAIN todo[c] : todo[c][i] \in Step
  BY <1>1
<1>. QED
  BY <1>1, <1>2 DEF Step

(* While the thread of a session does nothing, its counters may be cleared   *)
(* and the truth may grow.                                                   *)
LEMMA CounterLowered ==
    ASSUME CountingType, NumbersInv', CounterInv,
           NEW c \in Sessions, todo'[c] = todo[c], loaded'[c] = loaded[c],
           \A f \in Fields : /\ counter'[c][f] \in Nat /\ counter'[c][f] <= counter[c][f]
                            /\ Numbers(f)[c] \subseteq Numbers(f)'[c]
    PROVE  CounterOf(c)'
<1>1. CounterOf(c)
  BY CounterOfEach
<1>2. /\ \A f \in Fields : counter[c][f] \in Nat
      /\ \A i \in DOMAIN todo[c] : todo[c][i].field \in Fields /\ todo[c][i].by \in Nat
      /\ loaded[c] \in Int
  BY CounterTypes
<1>3. \A f \in Fields : /\ Truth(c, f) \in Nat /\ Truth(c, f)' \in Nat
                        /\ Truth(c, f) <= Truth(c, f)'
  BY TruthGrows
<1>4. \A f \in Fields : counter'[c][f] <= Truth(c, f)'
  BY <1>1, <1>2, <1>3 DEF CounterOf
<1>5. ASSUME NEW i \in DOMAIN todo[c]
      PROVE  /\ counter'[c][todo[c][i].field] + todo[c][i].by <= Truth(c, todo[c][i].field)'
             /\ i = 1 /\ loaded[c] # NotLoaded
                 => loaded[c] + todo[c][i].by <= Truth(c, todo[c][i].field)'
             /\ \A j \in DOMAIN todo[c] : todo[c][j].field = todo[c][i].field => j = i
  <2>. DEFINE f == todo[c][i].field
              by == todo[c][i].by
  <2>1. f \in Fields /\ by \in Nat
    BY <1>2
  <2>2. /\ counter[c][f] + by <= Truth(c, f)
        /\ i = 1 /\ loaded[c] # NotLoaded => loaded[c] + by <= Truth(c, f)
        /\ \A j \in DOMAIN todo[c] : todo[c][j].field = f => j = i
    BY <1>1 DEF CounterOf
  <2>3. /\ counter[c][f] \in Nat /\ counter'[c][f] \in Nat /\ counter'[c][f] <= counter[c][f]
        /\ Truth(c, f) \in Nat /\ Truth(c, f)' \in Nat /\ Truth(c, f) <= Truth(c, f)'
    BY <1>2, <1>3, <2>1
  <2>. HIDE DEF f, by
  <2>4. /\ counter'[c][f] + by <= Truth(c, f)'
        /\ i = 1 /\ loaded[c] # NotLoaded => loaded[c] + by <= Truth(c, f)'
    BY <1>2, <2>1, <2>2, <2>3
  <2>. QED
    BY <2>2, <2>4 DEF f, by
<1>. QED
  BY <1>1, <1>4, <1>5 DEF CounterOf

(* The other sessions, when one counts.                                      *)
LEMMA CounterOfOthers ==
    ASSUME TypeOK, NumbersInv', CounterInv, NEW c \in Sessions, NEW d \in Sessions, d # c,
           todo'[d] = todo[d], loaded'[d] = loaded[d], counter'[d] = counter[d],
           delivered'[d] = delivered[d], missed'[d] = missed[d]
    PROVE  CounterOf(d)'
<1>1. CountingType
  BY TypesOfParts
<1>2. \A f \in Fields : counter'[d][f] \in Nat /\ counter'[d][f] <= counter[d][f]
  BY <1>1, CounterTypes
<1>3. \A f \in Fields : Numbers(f)[d] \subseteq Numbers(f)'[d]
  BY DEF Numbers
<1>. QED
  BY <1>1, <1>2, <1>3, CounterLowered

(* The value that is read is within the truth with what is added to it.      *)
LEMMA CounterLoaded ==
    ASSUME TypeOK, NumbersInv', CounterInv, NEW c \in Sessions, LoadCounter(c)
    PROVE  CounterInv'
<1>1. CountingType
  BY TypesOfParts
<1>2. /\ UNCHANGED <<counter, todo, delivered, missed>> /\ todo[c] # <<>>
      /\ loaded' = [loaded EXCEPT ![c] = counter[c][Head(todo[c]).field]]
  BY DEF LoadCounter
<1>3. ASSUME NEW d \in Sessions, d # c
      PROVE  CounterOf(d)'
  <2>1. loaded'[d] = loaded[d]
    BY <1>1, <1>2, <1>3 DEF CountingType
  <2>. QED
    BY <1>2, <1>3, <2>1, CounterOfOthers
<1>4. CounterOf(c)'
  <2>1. Head(todo[c]) = todo[c][1] /\ loaded'[c] = counter[c][Head(todo[c]).field]
    BY <1>1, <1>2 DEF CountingType
  <2>2. \A f \in Fields : Truth(c, f)' = Truth(c, f)
    BY <1>2 DEF Truth, Numbers
  <2>3. CounterOf(c)
    BY CounterOfEach
  <2>4. \A i \in DOMAIN todo[c] : todo[c][i].field \in Fields
    BY <1>1, CounterTypes
  <2>. QED
    BY <1>2, <2>1, <2>2, <2>3, <2>4 DEF CounterOf
<1>. QED
  BY <1>3, <1>4 DEF CounterInv, CounterOf, Truth

(* What is written is what was read and is within the truth.                 *)
LEMMA CounterStored ==
    ASSUME TypeOK, NumbersInv', CounterInv, NEW c \in Sessions, StoreCounter(c)
    PROVE  CounterInv'
<1>1. CountingType
  BY TypesOfParts
<1>2. /\ UNCHANGED <<delivered, missed>> /\ todo[c] # <<>> /\ loaded[c] # NotLoaded
      /\ counter' = [counter EXCEPT ![c][Head(todo[c]).field] = loaded[c] + Head(todo[c]).by]
      /\ loaded' = [loaded EXCEPT ![c] = NotLoaded]
      /\ todo' = [todo EXCEPT ![c] = Tail(@)]
  BY DEF StoreCounter
<1>3. ASSUME NEW d \in Sessions, d # c
      PROVE  CounterOf(d)'
  <2>1. loaded'[d] = loaded[d] /\ counter'[d] = counter[d] /\ todo'[d] = todo[d]
    BY <1>1, <1>2, <1>3 DEF CountingType
  <2>. QED
    BY <1>2, <1>3, <2>1, CounterOfOthers
<1>4. CounterOf(c)'
  <2>1. /\ Head(todo[c]) = todo[c][1] /\ 1 \in DOMAIN todo[c]
        /\ \A i \in DOMAIN Tail(todo[c]) : /\ i + 1 \in DOMAIN todo[c] /\ i \in Nat \ {0}
                                           /\ Tail(todo[c])[i] = todo[c][i + 1]
    BY <1>1, <1>2, QueueSets DEF CountingType
  <2>2. todo'[c] = Tail(todo[c]) /\ loaded'[c] = NotLoaded
    BY <1>1, <1>2 DEF CountingType
  <2>3. /\ todo[c][1].field \in Fields
        /\ \A i \in DOMAIN todo[c] : todo[c][i].field \in Fields
    BY <1>1, <2>1, CounterTypes
  <2>4. \A f \in Fields : counter'[c][f] =
            IF f = todo[c][1].field THEN loaded[c] + todo[c][1].by ELSE counter[c][f]
    BY <1>1, <1>2, <2>1, <2>3 DEF CountingType
  <2>5. \A f \in Fields : Truth(c, f)' = Truth(c, f)
    BY <1>2 DEF Truth, Numbers
  <2>6. CounterOf(c)
    BY CounterOfEach
  <2>7. \A f \in Fields : counter'[c][f] <= Truth(c, f)'
    BY <1>2, <2>1, <2>3, <2>4, <2>5, <2>6 DEF CounterOf
  <2>8. ASSUME NEW i \in DOMAIN Tail(todo[c]), NEW step, step = Tail(todo[c])[i]
        PROVE  /\ counter'[c][step.field] + step.by <= Truth(c, step.field)'
               /\ \A j \in DOMAIN Tail(todo[c]) : Tail(todo[c])[j].field = step.field => j = i
    <3>1. i + 1 \in DOMAIN todo[c] /\ todo[c][i + 1] = step /\ i \in Nat \ {0} /\ i + 1 # 1
      BY <2>1, <2>8
    <3>2. step.field \in Fields /\ step.field # todo[c][1].field
      BY <2>1, <2>3, <2>6, <3>1 DEF CounterOf
    <3>3. counter[c][step.field] + step.by <= Truth(c, step.field)
      BY <2>6, <3>1 DEF CounterOf
    <3>4. ASSUME NEW j \in DOMAIN Tail(todo[c]), Tail(todo[c])[j].field = step.field
          PROVE  j = i
      <4>1. j + 1 \in DOMAIN todo[c] /\ Tail(todo[c])[j] = todo[c][j + 1] /\ j \in Nat
        BY <2>1
      <4>2. j + 1 = i + 1
        BY <2>6, <3>1, <3>4, <4>1 DEF CounterOf
      <4>. QED
        BY <3>1, <4>1, <4>2
    <3>5. counter'[c][step.field] + step.by <= Truth(c, step.field)'
      BY <2>4, <2>5, <3>2, <3>3
    <3>. QED
      BY <3>1, <3>4, <3>5
  <2>. QED
    BY <2>2, <2>7, <2>8 DEF CounterOf
<1>. QED
  BY <1>3, <1>4 DEF CounterInv, CounterOf, Truth

(* A datagram is one more that arrived, and the gap before it are datagrams  *)
(* that were sent and are not there.                                         *)
LEMMA TruthOfArrival ==
    ASSUME TypeOK, NumbersInv, NumbersInv', NEW c \in Sessions, NEW n \in wire[c], Arrives(c, n)
    PROVE  /\ Truth(c, "count") \in Nat /\ Truth(c, "loss") \in Nat
           /\ Truth(c, "count")' = Truth(c, "count") + 1
           /\ Truth(c, "loss")' \in Nat /\ Truth(c, "loss") <= Truth(c, "loss")'
           /\ last[c] < n /\ n # last[c] + 1 /\ last[c] # 0
                => Truth(c, "loss") + (n - last[c] - 1) <= Truth(c, "loss")'
<1> DEFINE Late == {m \in wire[c] : m < n /\ \E first \in delivered[c] : first < m}
<1>1. CountingType /\ NumbersType
  BY TypesOfParts
<1>2. delivered'[c] = delivered[c] \cup {n} /\ missed'[c] = missed[c] \cup Late
  BY <1>1 DEF Arrives, CountingType, NumbersType
<1>3. NumbersOf(c)
  BY NumbersOfEach
<1>4. /\ IsFiniteSet(delivered[c]) /\ IsFiniteSet(missed[c]) /\ IsFiniteSet(missed'[c])
      /\ Truth(c, "count") \in Nat
      /\ Truth(c, "loss") \in Nat /\ Truth(c, "loss")' \in Nat /\ Truth(c, "loss") <= Truth(c, "loss")'
  <2>1. \A f \in Fields : Numbers(f)[c] \subseteq Numbers(f)'[c]
    BY <1>2 DEF Numbers
  <2>2. Numbers("count") = delivered /\ Numbers("loss") = missed /\ Numbers("loss")' = missed'
    BY DEF Numbers
  <2>3. \A f \in Fields : /\ IsFiniteSet(Numbers(f)[c]) /\ IsFiniteSet(Numbers(f)'[c])
                          /\ Truth(c, f) \in Nat /\ Truth(c, f)' \in Nat
                          /\ Truth(c, f) <= Truth(c, f)'
    BY <2>1, TruthGrows
  <2>. QED
    BY <2>2, <2>3
<1>5. Truth(c, "count")' = Truth(c, "count") + 1
  <2>1. n \notin delivered[c]
    BY <1>3 DEF NumbersOf
  <2>2. Cardinality(delivered[c] \cup {n}) = Cardinality(delivered[c]) + 1
    BY <1>4, <2>1, FS_AddElement
  <2>. QED
    BY <1>2, <2>2 DEF Truth, Numbers
<1>6. ASSUME last[c] < n, n # last[c] + 1, last[c] # 0
      PROVE  Truth(c, "loss") + (n - last[c] - 1) <= Truth(c, "loss")'
  <2> DEFINE gap == (last[c] + 1)..(n - 1)
  <2>1. n \in Nat /\ last[c] \in Nat /\ missed[c] \subseteq Nat
    BY <1>1 DEF CountingType, NumbersType
  <2>2. last[c] \in delivered[c] /\ last[c] \in Sent(c) /\ n \in Sent(c)
    BY <1>3, <1>6 DEF NumbersOf, Sent
  <2>3. last[c]..n \subseteq Sent(c)
    BY <1>3, <2>2 DEF NumbersOf
  <2>4. ASSUME NEW m \in gap
        PROVE  m \in Late
    <3>1. m \in last[c]..n /\ m < n /\ last[c] < m
      BY <2>1, <2>4
    <3>2. m \in Sent(c) /\ m \notin delivered[c]
      BY <1>3, <2>1, <2>3, <3>1 DEF NumbersOf
    <3>. QED
      BY <2>2, <3>1, <3>2 DEF Sent
  <2>5. IsFiniteSet(gap) /\ Cardinality(gap) = n - last[c] - 1
    <3>1. last[c] + 1 \in Int /\ n - 1 \in Int /\ last[c] + 1 <= n - 1
      BY <1>6, <2>1
    <3>2. /\ IsFiniteSet((last[c] + 1)..(n - 1))
          /\ Cardinality((last[c] + 1)..(n - 1)) = (n - 1) - (last[c] + 1) + 1
      BY <3>1, FS_Interval
    <3>. QED
      BY <2>1, <3>2
  <2>6. missed[c] \cap gap = {}
    BY <1>3, <2>1 DEF NumbersOf
  <2>7. missed[c] \cup gap \subseteq missed'[c]
    BY <1>2, <2>4
  <2>8. /\ Cardinality(missed[c] \cup gap) \in Nat
        /\ Cardinality(missed[c] \cup gap) <= Cardinality(missed'[c])
    <3> HIDE DEF gap
    <3>. QED
      BY <1>4, <2>7, FS_Subset, FS_CardinalityType
  <2>9. Cardinality(missed[c] \cup gap) = Cardinality(missed[c]) + Cardinality(gap)
    <3> HIDE DEF gap
    <3>1. /\ Cardinality(missed[c] \cup gap)
                = Cardinality(missed[c]) + Cardinality(gap) - Cardinality(missed[c] \cap gap)
          /\ Cardinality(missed[c]) \in Nat /\ Cardinality(gap) \in Nat
      <4>1. IsFiniteSet(missed[c]) /\ IsFiniteSet(gap)
        BY <1>4, <2>5
      <4>. QED
        BY <4>1, FS_Union, FS_CardinalityType
    <3>2. Cardinality({}) = 0
      BY FS_EmptySet
    <3>3. Cardinality(missed[c] \cap gap) = 0
      BY <2>6, <3>2, Zenon
    <3>. QED
      BY <3>1, <3>3
  <2>. QED
    BY <1>4, <2>5, <2>8, <2>9 DEF Truth, Numbers
<1>. QED
  BY <1>4, <1>5, <1>6

LEMMA CounterArrived ==
    ASSUME TypeOK, NumbersInv, NumbersInv', CounterInv, NEW c \in Sessions, RecvHandler(c)
    PROVE  CounterInv'
<1>1. CountingType /\ NumbersType
  BY TypesOfParts
<1>2. PICK n \in wire[c] : Arrives(c, n)
  BY DEF RecvHandler, Arrives
<1>3. UNCHANGED <<counter, loaded>> /\ todo[c] = <<>>
  BY DEF RecvHandler
<1>4. ASSUME NEW d \in Sessions, d # c
      PROVE  CounterOf(d)'
  <2>1. delivered'[d] = delivered[d] /\ missed'[d] = missed[d] /\ todo'[d] = todo[d]
    BY <1>1, <1>2, <1>4 DEF Arrives, CountingType, NumbersType
  <2>. QED
    BY <1>3, <1>4, <2>1, CounterOfOthers
<1>5. CounterOf(c)'
  <2>1. CounterOf(c) /\ loaded[c] = NotLoaded
    BY <1>3, CounterOfEach DEF CounterOf
  <2>2. /\ Truth(c, "count") \in Nat /\ Truth(c, "loss") \in Nat
        /\ Truth(c, "count")' = Truth(c, "count") + 1
        /\ Truth(c, "loss")' \in Nat /\ Truth(c, "loss") <= Truth(c, "loss")'
        /\ last[c] < n /\ n # last[c] + 1 /\ last[c] # 0
              => Truth(c, "loss") + (n - last[c] - 1) <= Truth(c, "loss")'
    BY <1>2, TruthOfArrival
  <2>3. counter[c]["count"] \in Nat /\ counter[c]["loss"] \in Nat
    BY <1>1, CounterTypes
  <2>4. counter[c]["count"] <= Truth(c, "count") /\ counter[c]["loss"] <= Truth(c, "loss")
    BY <2>1 DEF CounterOf
  <2>5. /\ counter[c]["count"] + 1 <= Truth(c, "count")'
        /\ counter[c]["count"] <= Truth(c, "count")' /\ counter[c]["loss"] <= Truth(c, "loss")'
    BY <2>2, <2>3, <2>4
  <2>6. last[c] \in Nat /\ n \in Nat
    BY <1>1 DEF CountingType, NumbersType
  <2>7. \A f \in Fields : counter'[c][f] <= Truth(c, f)'
    BY <1>3, <2>5
  <2>8. todo'[c] = <<[field |-> "count", by |-> 1]>> \o Gap(c, n)
    BY <1>1, <1>2 DEF Arrives, CountingType
  <2>9. CASE Gap(c, n) = <<>>
    <3>1. DOMAIN todo'[c] = {1} /\ todo'[c][1] = [field |-> "count", by |-> 1]
      BY <2>8, <2>9
    <3>. QED
      BY <1>3, <2>1, <2>5, <2>7, <3>1 DEF CounterOf
  <2>10. CASE Gap(c, n) # <<>>
    <3>1. /\ last[c] < n /\ n # last[c] + 1 /\ last[c] # 0
          /\ Gap(c, n) = <<[field |-> "loss", by |-> n - last[c] - 1]>>
      BY <2>10 DEF Gap
    <3>2. /\ DOMAIN todo'[c] = {1, 2}
          /\ todo'[c][1] = [field |-> "count", by |-> 1]
          /\ todo'[c][2] = [field |-> "loss", by |-> n - last[c] - 1]
      BY <2>8, <3>1
    <3>3. counter[c]["loss"] + (n - last[c] - 1) <= Truth(c, "loss")'
      BY <2>2, <2>3, <2>4, <2>6, <3>1
    <3>. QED
      BY <1>3, <2>1, <2>5, <2>7, <3>2, <3>3 DEF CounterOf
  <2>. QED
    BY <2>9, <2>10
<1>. QED
  BY <1>4, <1>5 DEF CounterInv, CounterOf, Truth

(* What CheckStep does for one session, the first that is left.              *)
Collects(c) ==
    /\ c \in collecting.left /\ \A d \in collecting.left : c <= d
    /\ \/ collecting.at = 1 /\ ReadCounter(c, "loss")
       \/ collecting.at = 2 /\ ReadCounter(c, "count")
       \/ collecting.at = 3 /\ ClearCounter(c, "loss")
       \/ collecting.at = 4 /\ ClearCounter(c, "count")
    /\ IF collecting.at = 4
       THEN collecting'.left = collecting.left \ {c} /\ collecting'.at = 1
       ELSE collecting'.left = collecting.left /\ collecting'.at = collecting.at + 1

LEMMA CheckStepCollects ==
    ASSUME TypeOK, CheckStep
    PROVE  /\ UNCHANGED <<todo, loaded, delivered, missed>>
           /\ \E c \in Sessions : Collects(c)
<1>1. ReportType
  BY TypesOfParts
<1>2. PICK c \in collecting.left :
        /\ \A d \in collecting.left : c <= d
        /\ LET step == GetPacketInfo[collecting.at]
           IN  IF step.op = "read" THEN ReadCounter(c, step.field) ELSE ClearCounter(c, step.field)
        /\ collecting' = IF collecting.at = Len(GetPacketInfo)
                         THEN [left |-> collecting.left \ {c}, at |-> 1]
                         ELSE [collecting EXCEPT !.at = @ + 1]
  BY DEF CheckStep
<1>3. collecting.at \in {1, 2, 3, 4} /\ collecting.left \subseteq Sessions
  BY <1>1 DEF ReportType
<1>4. IF collecting.at = 4
      THEN collecting'.left = collecting.left \ {c} /\ collecting'.at = 1
      ELSE collecting'.left = collecting.left /\ collecting'.at = collecting.at + 1
  BY <1>1, <1>2, <1>3, PacketInfoSteps DEF ReportType
<1>5. \/ collecting.at = 1 /\ ReadCounter(c, "loss")
      \/ collecting.at = 2 /\ ReadCounter(c, "count")
      \/ collecting.at = 3 /\ ClearCounter(c, "loss")
      \/ collecting.at = 4 /\ ClearCounter(c, "count")
  BY <1>2, <1>3, PacketInfoSteps
<1>. QED
  BY <1>2, <1>3, <1>4, <1>5 DEF Collects, CheckStep

LEMMA CounterStep ==
    ASSUME TypeOK, NumbersInv, NumbersInv', CounterInv, [Next]_vars
    PROVE  CounterInv'
<1>1. CountingType
  BY TypesOfParts
<1>2. CASE \E c \in Sessions : RecvHandler(c)
  BY <1>2, CounterArrived
<1>3. CASE \E c \in Sessions : LoadCounter(c)
  BY <1>3, CounterLoaded
<1>4. CASE \E c \in Sessions : StoreCounter(c)
  BY <1>4, CounterStored
<1>5. ASSUME UNCHANGED <<todo, loaded, delivered, missed>>,
             \A c \in Sessions, f \in Fields : counter'[c][f] \in Nat /\ counter'[c][f] <= counter[c][f]
      PROVE  CounterInv'
  <2>1. \A c \in Sessions, f \in Fields : Numbers(f)[c] \subseteq Numbers(f)'[c]
    BY <1>5 DEF Numbers
  <2>2. \A c \in Sessions : CounterOf(c)'
    BY <1>1, <1>5, <2>1, CounterLowered
  <2>. QED
    BY <2>2 DEF CounterInv, CounterOf, Truth
<1>6. CASE CheckStep
  <2>1. PICK c \in Sessions : Collects(c)
    BY <1>6, CheckStepCollects
  <2>2. counter' = counter \/ \E f \in Fields : counter' = [counter EXCEPT ![c][f] = 0]
    BY <2>1 DEF Collects, ReadCounter, ClearCounter
  <2>3. \A d \in Sessions, f \in Fields : counter'[d][f] \in Nat /\ counter'[d][f] <= counter[d][f]
    <3>1. \A d \in Sessions, f \in Fields : counter[d][f] \in Nat
      BY <1>1, CounterTypes
    <3>2. ASSUME NEW g \in Fields, counter' = [counter EXCEPT ![c][g] = 0]
          PROVE  \A d \in Sessions, f \in Fields :
                    counter'[d][f] = IF d = c /\ f = g THEN 0 ELSE counter[d][f]
      BY <1>1, <3>2 DEF CountingType
    <3>3. CASE counter' = counter
      BY <3>1, <3>3
    <3>4. CASE \E f \in Fields : counter' = [counter EXCEPT ![c][f] = 0]
      <4>1. PICK g \in Fields : counter' = [counter EXCEPT ![c][g] = 0]
        BY <3>4
      <4>2. \A d \in Sessions, f \in Fields :
                counter'[d][f] = IF d = c /\ f = g THEN 0 ELSE counter[d][f]
        BY <3>2, <4>1
      <4>. QED
        BY <3>1, <4>2
    <3>. QED
      BY <2>2, <3>3, <3>4
  <2>. QED
    BY <1>5, <1>6, <2>3, CheckStepCollects
<1>7. CASE UNCHANGED <<counter, todo, loaded, delivered, missed>>
  <2>1. \A c \in Sessions, f \in Fields : counter[c][f] \in Nat
    BY <1>1, CounterTypes
  <2>. QED
    BY <1>5, <1>7, <2>1
<1>8. CASE OnStartTimer \/ CreateSession \/ InsertSession \/ CheckStart
           \/ ReceiveHandle \/ RequestHandle \/ UNCHANGED vars
           \/ \E s \in Senders : OnTrafficSendTimer(s)
  BY <1>7, <1>8 DEF OnStartTimer, CreateSession, InsertSession, CheckStart, ReceiveHandle, RequestHandle,
     OnTrafficSendTimer, vars
<1>9. CASE \E c \in Sessions : StartSent(c) \/ StartFails(c) \/ PostCloseTimer(c)
  BY <1>7, <1>9 DEF StartSent, StartFails, PostCloseTimer
<1>. QED
  BY <1>2, <1>3, <1>4, <1>6, <1>8, <1>9 DEF Next

----------------------------------------------------------------------------
(* The report.                                                               *)

(* What a group has of a number is finite, and one session more brings at    *)
(* most as many as it has.                                                   *)
LEMMA OfFinite ==
    ASSUME NEW numbers, NEW group \in SUBSET Sessions, \A c \in group : IsFiniteSet(numbers[c])
    PROVE  IsFiniteSet(Of(numbers, group)) /\ Cardinality(Of(numbers, group)) \in Nat
<1>1. IsFiniteSet(group)
  BY SessionsFinite, FS_Subset
<1>2. \A c \in group : IsFiniteSet({c} \X numbers[c])
  BY FS_Singleton, FS_Product
<1>3. IsFiniteSet({{c} \X numbers[c] : c \in group})
  <2> DEFINE f == [c \in group |-> {c} \X numbers[c]]
             T == {{c} \X numbers[c] : c \in group}
  <2>1. f \in Surjection(group, T)
    BY DEF Surjection
  <2> HIDE DEF f, T
  <2>2. IsFiniteSet(T)
    BY <1>1, <2>1, FS_Surjection
  <2>. QED
    BY <2>2 DEF T
<1>4. IsFiniteSet(UNION {{c} \X numbers[c] : c \in group})
  <2> DEFINE T == {{c} \X numbers[c] : c \in group}
  <2>1. \A t \in T : IsFiniteSet(t)
    BY <1>2
  <2>2. IsFiniteSet(T)
    BY <1>3
  <2> HIDE DEF T
  <2>3. IsFiniteSet(UNION T)
    BY <2>1, <2>2, FS_UNION
  <2>. QED
    BY <2>3 DEF T
<1>. QED
  BY <1>4, FS_CardinalityType DEF Of

LEMMA OfOneMore ==
    ASSUME NEW numbers, NEW group \in SUBSET Sessions, NEW c \in Sessions \ group,
           \A d \in group \cup {c} : IsFiniteSet(numbers[d])
    PROVE  Cardinality(Of(numbers, group \cup {c}))
              = Cardinality(Of(numbers, group)) + Cardinality(numbers[c])
<1> DEFINE old == Of(numbers, group)
           new == {c} \X numbers[c]
<1>1. Of(numbers, group \cup {c}) = old \cup new
  BY DEF Of
<1>2. old \cap new = {}
  BY DEF Of
<1>3. IsFiniteSet(old) /\ Cardinality(old) \in Nat
  BY OfFinite
<1>4. IsFiniteSet(numbers[c]) /\ Cardinality(numbers[c]) \in Nat
  BY FS_CardinalityType
<1>5. IsFiniteSet({c}) /\ Cardinality({c}) = 1
  BY FS_Singleton
<1>6. IsFiniteSet(new) /\ Cardinality(new) = Cardinality(numbers[c])
  <2>1. IsFiniteSet(new) /\ Cardinality(new) = Cardinality({c}) * Cardinality(numbers[c])
    BY <1>4, <1>5, FS_Product
  <2>. QED
    BY <1>4, <1>5, <2>1
<1> HIDE DEF old, new
<1>7. Cardinality(old \cup new) = Cardinality(old) + Cardinality(new) - Cardinality(old \cap new)
  BY <1>3, <1>6, FS_Union
<1>8. Cardinality(old \cap new) = 0
  <2>1. Cardinality({}) = 0
    BY FS_EmptySet
  <2>. QED
    BY <1>2, <2>1, Zenon
<1>9. Cardinality(old \cup new) = Cardinality(old) + Cardinality(numbers[c])
  BY <1>3, <1>4, <1>6, <1>7, <1>8
<1>. QED
  BY <1>1, <1>9 DEF old

(* More numbers of more sessions are no fewer.                               *)
LEMMA OfGrows ==
    ASSUME NEW few, NEW many, NEW group \in SUBSET Sessions, NEW all \in SUBSET Sessions,
           group \subseteq all, \A c \in all : IsFiniteSet(many[c]),
           \A c \in group : few[c] \subseteq many[c]
    PROVE  /\ Cardinality(Of(few, group)) \in Nat /\ Cardinality(Of(many, all)) \in Nat
           /\ Cardinality(Of(few, group)) <= Cardinality(Of(many, all))
<1>1. IsFiniteSet(Of(many, all)) /\ Cardinality(Of(many, all)) \in Nat
  BY OfFinite
<1>2. Of(few, group) \subseteq Of(many, all)
  BY DEF Of
<1>3. IsFiniteSet(Of(few, group)) /\ Cardinality(Of(few, group)) <= Cardinality(Of(many, all))
  BY <1>1, <1>2, FS_Subset
<1>. QED
  BY <1>1, <1>3, FS_CardinalityType

(* A report that stays as it is stays within a truth that grows.             *)
LEMMA ReportLater ==
    ASSUME TypeOK, ReportInv, NumbersInv', NEW f \in Fields, report'[f] = report[f],
           Unread(f)' \subseteq Unread(f),
           \A c \in Sessions : Numbers(f)[c] \subseteq Numbers(f)'[c]
    PROVE  report'[f] <= Cardinality(Of(Numbers(f), Sessions \ Unread(f)))'
<1>1. \A c \in Sessions : IsFiniteSet(Numbers(f)'[c])
  BY TruthGrows
<1>2. /\ Cardinality(Of(Numbers(f), Sessions \ Unread(f))) \in Nat
      /\ Cardinality(Of(Numbers(f)', Sessions \ Unread(f)')) \in Nat
      /\ Cardinality(Of(Numbers(f), Sessions \ Unread(f)))
           <= Cardinality(Of(Numbers(f)', Sessions \ Unread(f)'))
  <2> DEFINE few == Numbers(f)
             many == Numbers(f)'
             group == Sessions \ Unread(f)
             all == Sessions \ Unread(f)'
  <2>1. /\ group \in SUBSET Sessions /\ all \in SUBSET Sessions /\ group \subseteq all
        /\ \A c \in all : IsFiniteSet(many[c])
        /\ \A c \in group : few[c] \subseteq many[c]
    BY <1>1
  <2> HIDE DEF few, many, group, all
  <2>2. /\ Cardinality(Of(few, group)) \in Nat /\ Cardinality(Of(many, all)) \in Nat
        /\ Cardinality(Of(few, group)) <= Cardinality(Of(many, all))
    BY <2>1, OfGrows
  <2>. QED
    BY <2>2 DEF few, many, group, all
<1>3. report[f] <= Cardinality(Of(Numbers(f), Sessions \ Unread(f))) /\ report[f] \in Nat
  BY TypesOfParts DEF ReportInv, ReportType
<1>4. report'[f] <= Cardinality(Of(Numbers(f)', Sessions \ Unread(f)'))
  BY <1>2, <1>3
<1>. QED
  BY <1>4 DEF Of

(* A counter is read: its session has been read, and no other.               *)
LEMMA ReportRead ==
    ASSUME TypeOK, NumbersInv, NumbersInv', CounterInv, ReportInv,
           NEW c \in Sessions, NEW f \in Fields, ReadCounter(c, f), UNCHANGED history,
           c \in Unread(f), Unread(f)' = Unread(f) \ {c}
    PROVE  report'[f] <= Cardinality(Of(Numbers(f), Sessions \ Unread(f)))'
<1> DEFINE group == Sessions \ Unread(f)
           numbers == Numbers(f)
<1>1. CountingType /\ ReportType
  BY TypesOfParts
<1>2. numbers' = numbers
  BY DEF Numbers
<1>3. \A d \in Sessions : IsFiniteSet(numbers[d])
  BY <1>2, TruthGrows
<1>4. group' = group \cup {c} /\ c \notin group /\ group \subseteq Sessions
  OBVIOUS
<1>5. report'[f] = report[f] + counter[c][f] /\ report[f] \in Nat /\ counter[c][f] \in Nat
  BY <1>1, CounterTypes DEF ReadCounter, ReportType
<1>6. counter[c][f] <= Cardinality(numbers[c]) /\ report[f] <= Cardinality(Of(numbers, group))
  BY DEF CounterInv, ReportInv
<1>7. Cardinality(numbers[c]) \in Nat /\ Cardinality(Of(numbers, group)) \in Nat
  <2> HIDE DEF group, numbers
  <2>. QED
    BY <1>3, <1>4, OfFinite, FS_CardinalityType
<1>8. Cardinality(Of(numbers, group \cup {c}))
          = Cardinality(Of(numbers, group)) + Cardinality(numbers[c])
  <2> HIDE DEF group, numbers
  <2>. QED
    BY <1>3, <1>4, OfOneMore
<1>9. report'[f] <= Cardinality(Of(numbers, group \cup {c}))
  BY <1>5, <1>6, <1>7, <1>8
<1>10. Of(numbers, group)' = Of(numbers, group \cup {c})
  BY <1>2, <1>4 DEF Of
<1>. QED
  BY <1>9, <1>10

LEMMA ReportStep ==
    ASSUME TypeOK, NumbersInv, NumbersInv', CounterInv, ReportInv, [Next]_vars
    PROVE  ReportInv'
<1>1. CountingType /\ ReportType /\ NumbersType
  BY TypesOfParts
<1>2. ASSUME UNCHANGED <<collecting, report>>,
             \A c \in Sessions : /\ delivered[c] \subseteq delivered'[c]
                                 /\ missed[c] \subseteq missed'[c]
      PROVE  ReportInv'
  <2>1. \A f \in Fields, c \in Sessions : Numbers(f)[c] \subseteq Numbers(f)'[c]
    BY <1>2 DEF Numbers
  <2>2. \A f \in Fields : Unread(f)' = Unread(f) /\ report'[f] = report[f]
    BY <1>2 DEF Unread
  <2>. QED
    BY <2>1, <2>2, ReportLater DEF ReportInv
<1>3. CASE CheckStart
  <2>1. \A f \in Fields : report'[f] = 0
    BY <1>3 DEF CheckStart, Zero
  <2>2. \A c \in Sessions, f \in Fields : IsFiniteSet(Numbers(f)'[c])
    <3>1. UNCHANGED history
      BY <1>3 DEF CheckStart
    <3>2. \A c \in Sessions, f \in Fields : Numbers(f)[c] \subseteq Numbers(f)'[c]
      BY <3>1 DEF Numbers
    <3>. QED
      BY <3>2, TruthGrows
  <2>3. ASSUME NEW f \in Fields
        PROVE  Cardinality(Of(Numbers(f), Sessions \ Unread(f)))' \in Nat
    <3> DEFINE numbers == Numbers(f)'
               group == Sessions \ Unread(f)'
    <3>1. group \in SUBSET Sessions /\ \A c \in group : IsFiniteSet(numbers[c])
      BY <2>2
    <3> HIDE DEF numbers, group
    <3>2. Cardinality(Of(numbers, group)) \in Nat
      BY <3>1, OfFinite
    <3>. QED
      BY <3>2 DEF numbers, group, Of
  <2>4. ASSUME NEW f \in Fields
        PROVE  report'[f] <= Cardinality(Of(Numbers(f), Sessions \ Unread(f)))'
    BY <2>1, <2>3
  <2>. QED
    BY <2>4 DEF ReportInv
<1>4. CASE CheckStep
  <2>1. PICK c \in Sessions : Collects(c)
    BY <1>4, CheckStepCollects
  <2>2. UNCHANGED history /\ collecting.left \subseteq Sessions
    BY <1>1, <1>4, CheckStepCollects DEF ReportType
  <2>3. \A f \in Fields, d \in Sessions : Numbers(f)[d] \subseteq Numbers(f)'[d]
    BY <2>2 DEF Numbers
  <2>4. /\ collecting.at = 1 => /\ Unread("loss")' = Unread("loss") \ {c} /\ c \in Unread("loss")
                                /\ Unread("count")' = Unread("count")
        /\ collecting.at = 2 => /\ Unread("count")' = Unread("count") \ {c} /\ c \in Unread("count")
                                /\ Unread("loss")' = Unread("loss")
        /\ collecting.at \in {3, 4} =>
              /\ Unread("count")' = Unread("count") /\ Unread("loss")' = Unread("loss")
    <3>1. collecting.left \subseteq Nat /\ c \in Nat /\ c \in collecting.left
      BY <2>1, <2>2 DEF Collects
    <3>2. \A d \in collecting.left : d = c \/ c < d
      BY <2>1, <3>1 DEF Collects
    <3>3. CASE collecting.at = 4
      BY <2>1, <3>1, <3>2, <3>3 DEF Collects, Unread
    <3>4. CASE collecting.at \in {1, 2, 3}
      BY <2>1, <3>1, <3>2, <3>4 DEF Collects, Unread
    <3>. QED
      BY <2>1, <3>3, <3>4 DEF Collects
  <2>5. ASSUME NEW f \in Fields
        PROVE  report'[f] <= Cardinality(Of(Numbers(f), Sessions \ Unread(f)))'
    <3>1. CASE ReadCounter(c, f) /\ c \in Unread(f) /\ Unread(f)' = Unread(f) \ {c}
      BY <2>2, <3>1, ReportRead
    <3>2. CASE report'[f] = report[f] /\ Unread(f)' = Unread(f)
      BY <2>3, <3>2, ReportLater
    <3>3. \A g \in Fields : (ReadCounter(c, g) /\ g # f) \/ ClearCounter(c, g) => report'[f] = report[f]
      BY <1>1 DEF ReadCounter, ClearCounter, ReportType
    <3>. QED
      BY <2>1, <2>4, <3>1, <3>2, <3>3 DEF Collects
  <2>. QED
    BY <2>5 DEF ReportInv
<1>5. CASE \E c \in Sessions : RecvHandler(c)
  <2>1. PICK c \in Sessions : RecvHandler(c)
    BY <1>5
  <2>2. PICK n \in wire[c] : Arrives(c, n)
    BY <2>1 DEF RecvHandler, Arrives
  <2>3. \A d \in Sessions : delivered[d] \subseteq delivered'[d] /\ missed[d] \subseteq missed'[d]
    BY <1>1, <2>2 DEF Arrives, NumbersType
  <2>. QED
    BY <1>2, <2>1, <2>3 DEF RecvHandler
<1>6. CASE UNCHANGED <<collecting, report, history>>
  BY <1>2, <1>6
<1>7. CASE OnStartTimer \/ CreateSession \/ InsertSession
           \/ ReceiveHandle \/ RequestHandle \/ UNCHANGED vars
           \/ \E s \in Senders : OnTrafficSendTimer(s)
  BY <1>6, <1>7 DEF OnStartTimer, CreateSession, InsertSession, ReceiveHandle, RequestHandle,
     OnTrafficSendTimer, vars
<1>8. CASE \E c \in Sessions : StartSent(c) \/ StartFails(c) \/ PostCloseTimer(c)
                                \/ LoadCounter(c) \/ StoreCounter(c)
  BY <1>6, <1>8 DEF StartSent, StartFails, PostCloseTimer, LoadCounter, StoreCounter
<1>. QED
  BY <1>3, <1>4, <1>5, <1>7, <1>8 DEF Next

----------------------------------------------------------------------------
(* The invariant.                                                            *)

LEMMA InitIInv == Init => IInv
<1>. SUFFICES ASSUME Init PROVE IInv
  OBVIOUS
<1>1. TypeOK
  BY TypeInit
<1>2. /\ starter.at = "timer" /\ starter.index = 0 /\ sending = {} /\ starts = {}
      /\ ToSet(requests) = {} /\ requests = <<>>
  BY DEF Init, ToSet
<1>3. \A c : Serving(c) = {}
  BY DEF Init, Serving, ToSet
<1>4. StarterInv
  BY <1>2, <1>3 DEF StarterInv
<1>5. OneSenderInv
  BY <1>2, <1>3 DEF OneSenderInv
<1>6. IsFiniteSet({}) /\ Cardinality({}) = 0
  BY FS_EmptySet
<1>7. NumbersInv
  <2>1. \A c \in Sessions : Sent(c) = {} /\ wire[c] = {} /\ delivered[c] = {} /\ missed[c] = {} /\ last[c] = 0
    BY DEF Init, Sent
  <2>. QED
    BY <1>3, <1>6, <2>1 DEF NumbersInv
<1>8. \A c \in Sessions, f \in Fields : Numbers(f)[c] = {} /\ counter[c][f] = 0
  BY DEF Init, Numbers, Zero
<1>9. CounterInv
  <2>1. \A c \in Sessions : todo[c] = <<>> /\ loaded[c] = NotLoaded
    BY DEF Init
  <2>2. \A c \in Sessions, f \in Fields : Cardinality(Numbers(f)[c]) = 0
    BY <1>6, <1>8, Zenon
  <2>. QED
    BY <1>8, <2>1, <2>2 DEF CounterInv
<1>10. ReportInv
  <2>1. \A f \in Fields : report[f] = 0 /\ Of(Numbers(f), Sessions \ Unread(f)) = {}
    BY <1>8 DEF Init, Of, Zero
  <2>. QED
    BY <1>6, <2>1 DEF ReportInv
<1>. QED
  BY <1>1, <1>4, <1>5, <1>7, <1>9, <1>10 DEF IInv

LEMMA NextIInv == IInv /\ [Next]_vars => IInv'
<1>. SUFFICES ASSUME IInv, [Next]_vars PROVE IInv'
  OBVIOUS
<1>1. TypeOK'
  BY TypeStep DEF IInv
<1>2. StarterInv' /\ OneSenderInv'
  BY StarterStep, OneSenderStep DEF IInv
<1>3. NumbersInv'
  BY NumbersStep DEF IInv
<1>4. CounterInv' /\ ReportInv'
  BY <1>3, CounterStep, ReportStep DEF IInv
<1>. QED
  BY <1>1, <1>2, <1>3, <1>4 DEF IInv

LEMMA WithinTruth == IInv => ReportWithinTruth
<1>. SUFFICES ASSUME IInv, NEW f \in Fields PROVE report[f] <= Cardinality(Of(Numbers(f), Sessions))
  BY DEF IInv, CounterInv, ReportWithinTruth
<1> DEFINE numbers == Numbers(f)
           group == Sessions \ Unread(f)
<1>1. \A c \in Sessions : IsFiniteSet(numbers[c])
  <2>1. \A c \in Sessions : IsFiniteSet(Sent(c)) /\ IsFiniteSet(missed[c]) /\ delivered[c] \subseteq Sent(c)
    BY DEF IInv, NumbersInv, Sent
  <2>. QED
    BY <2>1, FS_Subset DEF Numbers
<1>2. report[f] <= Cardinality(Of(numbers, group)) /\ report[f] \in Nat /\ group \in SUBSET Sessions
  BY TypesOfParts DEF IInv, ReportInv, ReportType
<1> HIDE DEF numbers, group
<1>3. /\ Cardinality(Of(numbers, group)) \in Nat /\ Cardinality(Of(numbers, Sessions)) \in Nat
      /\ Cardinality(Of(numbers, group)) <= Cardinality(Of(numbers, Sessions))
  BY <1>1, <1>2, OfGrows
<1>4. report[f] <= Cardinality(Of(numbers, Sessions))
  BY <1>2, <1>3
<1>. QED
  BY <1>4 DEF numbers

(* Whatever the timer thread and the threads of the sockets do to the        *)
(* counters, a session holds, and a report hands over, no more datagrams     *)
(* than arrived and no more loss than there was.                             *)
THEOREM ReportNeverExceedsTruth == Spec => []ReportWithinTruth
  BY InitIInv, NextIInv, WithinTruth, PTL DEF Spec
=============================================================================
