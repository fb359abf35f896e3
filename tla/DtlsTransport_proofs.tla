------------------------ MODULE DtlsTransport_proofs ------------------------
(***************************************************************************)
(* Proofs about the measuring of a media session, for any packets, any     *)
(* numbering and any network: the start of streaming is announced exactly  *)
(* once, the counters say no more than what happened, and the average loss *)
(* lies between the lowest and the highest, whatever the two threads do to *)
(* each other's counters.                                                  *)
(***************************************************************************)
EXTENDS DtlsTransport, SequenceTheorems, FiniteSetTheorems, TLAPS

USE DEF media, dtls, timing, collecting, network, history

LEMMA ConstantTypes ==
    /\ SeqMod \in Nat \ {0} /\ NearWrap \in Nat /\ FarFromWrap \in Nat
    /\ MaxTime \in Nat /\ MaxDuplicates \in Nat
    /\ Epoch \in Nat \ {0} /\ DurationMod \in Nat \ {0}
    /\ \A t \in Tracks : FirstSeq[t] \in Nat /\ Timestamps[t] \in Seq(Nat)
  BY DtlsTransportAssumption DEF DtlsTransportAssumption

----------------------------------------------------------------------------
(* The steps of a packet.                                                    *)

Fields == {"packets", "frames", "loss"}
Remembers == {"begin", "move", "turn"}

LEMMA FieldsOfCounters == DOMAIN Cleared = Fields
  BY DEF Cleared, Fields

LEMMA StepTypes ==
    ASSUME NEW s \in Step
    PROVE  /\ s.op \in Remembers \cup {"add", "notify"}
           /\ s.op \in Remembers =>
                s.track \in Tracks /\ s.packet \in Nat /\ s.time \in Nat
           /\ s.op = "add" => s.track \in Tracks /\ s.field \in Fields /\ s.by \in Nat
  BY FieldsOfCounters DEF Step, Remembers

(* What can be left to do for packet n of a track before the test for the    *)
(* start of streaming.                                                       *)
StepsFor(t, n) ==
    {s \in Step : /\ s.op # "notify"
                  /\ s.op \in Remembers => s.track = t /\ s.packet = n}

LEMMA AddStep ==
    ASSUME NEW t \in Tracks, NEW n, NEW f \in Fields, NEW k \in Nat
    PROVE  Add(t, f, k) \in StepsFor(t, n)
<1>1. Add(t, f, k) \in Step
  BY FieldsOfCounters DEF Add, Step
<1>. QED
  BY <1>1 DEF Add, StepsFor, Remembers

LEMMA RememberStep ==
    ASSUME NEW t \in Tracks, NEW n \in Nat, NEW op \in Remembers, now \in Nat
    PROVE  Remember(op, t, n) \in StepsFor(t, n)
<1>1. Remember(op, t, n) \in Step
  BY DEF Remember, Step, Remembers
<1>. QED
  BY <1>1 DEF Remember, StepsFor, Remembers

LEMMA NotifyIsStep == Notify \in Step /\ Notify.op = "notify"
  BY DEF Notify, Step

LEMMA PacketTypes ==
    ASSUME NEW t \in Tracks, NEW n \in 1..Len(Timestamps[t])
    PROVE  /\ Timestamp(t, n) \in Nat
           /\ Sequence(t, n) \in 0..(SeqMod - 1)
<1>1. /\ Timestamps[t] \in Seq(Nat) /\ FirstSeq[t] \in Nat
      /\ SeqMod \in Nat \ {0}
  BY ConstantTypes
<1>2. n \in Nat /\ Timestamps[t][n] \in Nat
  BY <1>1
<1>3. FirstSeq[t] + n \in Nat
  BY <1>1, <1>2
<1>. QED
  BY <1>1, <1>2, <1>3 DEF Timestamp, Sequence

LEMMA LossSteps ==
    ASSUME TypeOK, NEW t \in Tracks, NEW n \in 1..Len(Timestamps[t])
    PROVE  Loss(t, n) \in Seq(StepsFor(t, n))
<1>1. last[t].seq \in {-1} \cup 0..(SeqMod - 1)
  BY DEF TypeOK
<1>2. Unwrapped(t, n) \in Nat
  <2>1. Sequence(t, n) \in 0..(SeqMod - 1) /\ SeqMod \in Nat \ {0}
    BY PacketTypes, ConstantTypes
  <2>. QED
    BY <2>1 DEF Unwrapped
<1>3. CASE Unwrapped(t, n) > last[t].seq + 1
  <2>1. Unwrapped(t, n) - (last[t].seq + 1) \in Nat
    BY <1>1, <1>2, <1>3
  <2>2. Add(t, "loss", Unwrapped(t, n) - (last[t].seq + 1)) \in StepsFor(t, n)
    BY <2>1, AddStep DEF Fields
  <2>. QED
    BY <1>3, <2>2 DEF Loss
<1>4. CASE ~(Unwrapped(t, n) > last[t].seq + 1)
  BY <1>4 DEF Loss
<1>. QED
  BY <1>3, <1>4

LEMMA MeasureSteps ==
    ASSUME TypeOK, NEW t \in Tracks, NEW n \in 1..Len(Timestamps[t])
    PROVE  Measure(t, n) \in Seq(StepsFor(t, n))
<1>1. Loss(t, n) \in Seq(StepsFor(t, n))
  BY LossSteps
<1>2. now \in Nat
  BY ConstantTypes DEF TypeOK
<1>3. <<Add(t, "packets", 1)>> \in Seq(StepsFor(t, n))
  BY AddStep DEF Fields
<1>4. <<Add(t, "frames", 1)>> \in Seq(StepsFor(t, n))
  BY AddStep DEF Fields
<1>5. <<Remember("turn", t, n)>> \in Seq(StepsFor(t, n))
  BY <1>2, RememberStep DEF Remembers
<1>6. <<Remember("move", t, n)>> \in Seq(StepsFor(t, n))
  BY <1>2, RememberStep DEF Remembers
<1>7. <<Add(t, "frames", 1)>> \o Loss(t, n) \o <<Remember("turn", t, n)>> \in Seq(StepsFor(t, n))
  BY <1>1, <1>4, <1>5, ConcatProperties
<1>8. Loss(t, n) \o <<Remember("move", t, n)>> \in Seq(StepsFor(t, n))
  BY <1>1, <1>6, ConcatProperties
<1>9. PICK q \in Seq(StepsFor(t, n)) : Measure(t, n) = <<Add(t, "packets", 1)>> \o q
  BY <1>7, <1>8, EmptySeq DEF Measure
<1>. QED
  BY <1>3, <1>9, ConcatProperties

LEMMA BeginSteps ==
    ASSUME TypeOK, NEW t \in Tracks, NEW n \in 1..Len(Timestamps[t])
    PROVE  Begin(t, n) \in Seq(StepsFor(t, n))
<1>1. <<Remember("begin", t, n)>> \in Seq(StepsFor(t, n))
  BY RememberStep DEF Remembers, TypeOK
<1>2. <<Add(t, "packets", 1)>> \in Seq(StepsFor(t, n))
  BY AddStep DEF Fields
<1>. QED
  BY <1>1, <1>2, ConcatProperties DEF Begin

(* The steps of a packet end with the test for the start of streaming.       *)
LEMMA StepsEndWithNotify ==
    ASSUME NEW t \in Tracks, NEW n \in Nat, NEW q \in Seq(StepsFor(t, n)),
           todo' = q \o <<Notify>>, n \in 1..next'[t]
    PROVE  /\ todo' \in Seq(Step) /\ todo' # <<>>
           /\ StepsInv'
           /\ \A i \in DOMAIN todo' : todo'[i].op = "notify" <=> i = Len(todo')
<1>1. q \in Seq(Step)
  BY DEF StepsFor
<1>2. /\ todo' \in Seq(Step)
      /\ Len(todo') = Len(q) + 1
      /\ \A i \in 1..Len(q) : todo'[i] = q[i]
      /\ todo'[Len(q) + 1] = Notify
  BY <1>1, NotifyIsStep
<1>3. \A i \in 1..Len(q) : q[i] \in StepsFor(t, n)
  OBVIOUS
<1>4. \A i \in DOMAIN todo' : todo'[i].op = "notify" <=> i = Len(todo')
  BY <1>2, <1>3, NotifyIsStep DEF StepsFor
<1>5. ASSUME NEW i \in DOMAIN todo', todo'[i].op \in Remembers
      PROVE  todo'[i].packet \in 1..next'[todo'[i].track]
  <2>1. i \in 1..Len(q)
    BY <1>2, <1>5, NotifyIsStep DEF Remembers
  <2>. QED
    BY <1>2, <1>3, <1>5, <2>1 DEF StepsFor
<1>. QED
  BY <1>2, <1>4, <1>5 DEF StepsInv, Remembers

(* A step is done.                                                           *)
LEMMA TheRestOfTheSteps ==
    ASSUME todo \in Seq(Step), ~Idle, Done, StepsInv, NotifyInv, next' = next
    PROVE  /\ Head(todo) \in Step /\ todo' \in Seq(Step)
           /\ StepsInv'
           /\ \A i \in DOMAIN todo' : todo'[i].op = "notify" <=> i = Len(todo')
           /\ Idle' <=> Head(todo).op = "notify"
<1>1. /\ todo # <<>> /\ Head(todo) = todo[1] /\ Head(todo) \in Step
      /\ todo' \in Seq(Step) /\ Len(todo') = Len(todo) - 1
      /\ \A i \in 1..Len(todo') : todo'[i] = todo[i + 1]
      /\ Len(todo) \in Nat \ {0}
  BY HeadTailProperties, EmptySeq DEF Idle, Done
<1>2. \A i \in DOMAIN todo' : i + 1 \in DOMAIN todo
  BY <1>1
<1>3. StepsInv'
  BY <1>1, <1>2 DEF StepsInv
<1>4. \A i \in DOMAIN todo' : todo'[i].op = "notify" <=> i = Len(todo')
  BY <1>1, <1>2 DEF NotifyInv
<1>5. Idle' <=> Len(todo') = 0
  BY <1>1, EmptySeq DEF Idle
<1>6. Head(todo).op = "notify" <=> 1 = Len(todo)
  BY <1>1 DEF NotifyInv
<1>. QED
  BY <1>1, <1>3, <1>4, <1>5, <1>6

----------------------------------------------------------------------------
(* Types.                                                                    *)

LEMMA InitType ==
    ASSUME Init
    PROVE  TypeOK
<1>1. \A t \in Tracks : Len(Timestamps[t]) \in Nat
  BY ConstantTypes
<1>2. Cleared \in Counters
  BY DEF Cleared, Counters
<1>3. now \in Epoch..(Epoch + MaxTime) /\ collectTime \in Nat
  BY ConstantTypes DEF Init
<1>4. summary \in [packets : Nat, loss : Nat, minLoss : Nat, maxLoss : Nat, empty : BOOLEAN]
  BY DEF Init, UintMax
<1>5. last \in [Tracks -> [seq : {-1} \cup 0..(SeqMod - 1), ts : Nat]]
  BY DEF Init
<1>6. todo \in Seq(Step)
  BY EmptySeq DEF Init
<1>7. PacketsOK
  <2>1. /\ next \in [Tracks -> Nat] /\ arrivals \in [Tracks -> Nat]
        /\ \A t \in Tracks : next[t] \in 0..Len(Timestamps[t])
    BY <1>1 DEF Init
  <2>2. wire = [t \in Tracks |-> {}] /\ delivered = wire /\ missed = wire
    BY DEF Init
  <2>3. wire \in [Tracks -> SUBSET Nat] /\ \A t \in Tracks : wire[t] = {}
    BY <2>2
  <2>. QED
    BY <2>1, <2>2, <2>3 DEF PacketsOK
<1>8. data \in [Tracks -> Counters] /\ reports \in [Tracks -> Counters]
  BY <1>2 DEF Init
<1>9. duplicates \in 0..MaxDuplicates /\ notified \in Nat /\ startTime \in Nat
  BY ConstantTypes DEF Init
<1>10. completed \in BOOLEAN /\ started \in [Tracks -> BOOLEAN]
  BY DEF Init
<1>11. endTime \in [Tracks -> Nat] /\ collectFrom \in [Tracks -> Nat]
  BY DEF Init
<1>12. /\ state \in {"none", "running", "error"}
       /\ loaded \in Nat \cup {NotLoaded}
       /\ collector \in {"idle", "copy", "advance", "video", "audio"}
  BY DEF Init
<1>. QED
  BY <1>3, <1>4, <1>5, <1>6, <1>7, <1>8, <1>9, <1>10, <1>11, <1>12 DEF TypeOK

(* What a delivery does to the network and the history.                      *)
LEMMA DeliveryType ==
    ASSUME TypeOK, NEW t \in Tracks, NEW n \in wire[t], TakeOff(t, n),
           RecordArrival(t, n) \/ UNCHANGED history
    PROVE  /\ PacketsOK' /\ duplicates' \in 0..MaxDuplicates
           /\ n \in 1..Len(Timestamps[t]) /\ n \in 1..next'[t]
<1>1. /\ next \in [Tracks -> Nat] /\ arrivals \in [Tracks -> Nat]
      /\ wire \in [Tracks -> SUBSET Nat] /\ delivered \in [Tracks -> SUBSET Nat]
      /\ missed \in [Tracks -> SUBSET Nat]
      /\ \A u \in Tracks : /\ next[u] \in 0..Len(Timestamps[u])
                           /\ wire[u] \subseteq 1..next[u]
                           /\ delivered[u] \subseteq 1..next[u]
                           /\ missed[u] \subseteq 1..next[u]
  BY DEF TypeOK, PacketsOK
<1>2. Len(Timestamps[t]) \in Nat /\ duplicates \in 0..MaxDuplicates /\ MaxDuplicates \in Nat
  BY ConstantTypes DEF TypeOK
<1>3. n \in 1..next[t] /\ next[t] \in 0..Len(Timestamps[t])
  BY <1>1
<1>4. /\ next' = next /\ duplicates' \in 0..MaxDuplicates
      /\ wire' \in [Tracks -> SUBSET Nat]
      /\ \A u \in Tracks : wire'[u] \subseteq 1..next[u]
  <2>1. next' = next /\ duplicates' \in 0..MaxDuplicates
    BY <1>2 DEF TakeOff
  <2>2. PICK S \in SUBSET wire[t] : wire' = [wire EXCEPT ![t] = S]
    BY <1>1 DEF TakeOff
  <2>3. S \in SUBSET Nat /\ S \subseteq 1..next[t]
    BY <1>1
  <2>. QED
    BY <1>1, <2>1, <2>2, <2>3
<1>5. /\ delivered' \in [Tracks -> SUBSET Nat] /\ missed' \in [Tracks -> SUBSET Nat]
      /\ arrivals' \in [Tracks -> Nat]
      /\ \A u \in Tracks : /\ delivered'[u] \subseteq 1..next[u]
                           /\ missed'[u] \subseteq 1..next[u]
  <2>1. CASE RecordArrival(t, n)
    <3>1. /\ delivered' = [delivered EXCEPT ![t] = @ \cup {n}]
          /\ arrivals' = [arrivals EXCEPT ![t] = @ + 1]
      BY <2>1 DEF RecordArrival
    <3>2. PICK more \in SUBSET (1..(n - 1)) : missed' = [missed EXCEPT ![t] = @ \cup more]
      BY <2>1 DEF RecordArrival
    <3>3. more \subseteq 1..next[t] /\ more \subseteq Nat /\ n \in Nat
      BY <1>3, <3>2
    <3>4. /\ delivered[t] \cup {n} \in SUBSET Nat /\ missed[t] \cup more \in SUBSET Nat
          /\ delivered[t] \cup {n} \subseteq 1..next[t] /\ missed[t] \cup more \subseteq 1..next[t]
          /\ arrivals[t] + 1 \in Nat
      <4>1. delivered[t] \subseteq 1..next[t] /\ delivered[t] \subseteq Nat
        BY <1>1
      <4>2. missed[t] \subseteq 1..next[t] /\ missed[t] \subseteq Nat
        BY <1>1
      <4>3. arrivals[t] + 1 \in Nat
        BY <1>1
      <4>. QED
        BY <1>3, <3>3, <4>1, <4>2, <4>3
    <3>5. /\ delivered' = [delivered EXCEPT ![t] = delivered[t] \cup {n}]
          /\ missed' = [missed EXCEPT ![t] = missed[t] \cup more]
          /\ arrivals' = [arrivals EXCEPT ![t] = arrivals[t] + 1]
      BY <3>1, <3>2
    <3>6. /\ delivered' \in [Tracks -> SUBSET Nat]
          /\ \A u \in Tracks : delivered'[u] = IF u = t THEN delivered[t] \cup {n} ELSE delivered[u]
      BY <1>1, <3>4, <3>5
    <3>7. /\ missed' \in [Tracks -> SUBSET Nat]
          /\ \A u \in Tracks : missed'[u] = IF u = t THEN missed[t] \cup more ELSE missed[u]
      BY <1>1, <3>4, <3>5
    <3>8. arrivals' \in [Tracks -> Nat]
      BY <1>1, <3>4, <3>5
    <3>9. \A u \in Tracks : delivered'[u] \subseteq 1..next[u] /\ missed'[u] \subseteq 1..next[u]
      BY <1>1, <3>4, <3>6, <3>7
    <3>. QED
      BY <3>6, <3>7, <3>8, <3>9
  <2>2. CASE UNCHANGED history
    BY <1>1, <2>2
  <2>. QED
    BY <2>1, <2>2
<1>6. n \in 1..Len(Timestamps[t]) /\ n \in 1..next'[t]
  BY <1>2, <1>3, <1>4
<1>. QED
  BY <1>1, <1>4, <1>5, <1>6 DEF PacketsOK

LEMMA PacketsUnchanged ==
    ASSUME PacketsOK, UNCHANGED <<next, wire, history>>
    PROVE  PacketsOK'
  BY DEF PacketsOK

LEMMA CounterRead ==
    ASSUME NEW c \in Counters, NEW f \in Fields
    PROVE  c[f] \in Nat
  BY DEF Counters, Fields

LEMMA CounterWritten ==
    ASSUME NEW c \in Counters, NEW f \in Fields, NEW v \in Nat
    PROVE  [c EXCEPT ![f] = v] \in Counters
<1>1. CASE f = "packets"
  BY <1>1 DEF Counters
<1>2. CASE f = "frames"
  BY <1>2 DEF Counters
<1>3. CASE f = "loss"
  BY <1>3 DEF Counters
<1>. QED
  BY <1>1, <1>2, <1>3 DEF Fields

LEMMA ClearedType == Cleared \in Counters
  BY DEF Cleared, Counters

(* The percentage DataCollectTimeProc computes is rounded down.              *)
LEMMA Percentage ==
    ASSUME NEW l \in Nat, NEW p \in Nat \ {0}
    PROVE  /\ l \div p \in Nat
           /\ (l \div p) * p <= l
           /\ l < ((l \div p) + 1) * p
  OBVIOUS

LEMMA CollectedType ==
    ASSUME TypeOK
    PROVE  /\ Collected("packets") \in Nat /\ Collected("loss") \in Nat
           /\ LossPercent \in Nat
<1>1. reports["video"] \in Counters /\ reports["audio"] \in Counters
  BY DEF TypeOK, Tracks
<1>2. Collected("packets") \in Nat /\ Collected("loss") \in Nat
  BY <1>1, CounterRead DEF Collected, Fields
<1>3. Collected("loss") * 100 \in Nat
  BY <1>2
<1>. QED
  BY <1>2, <1>3, Percentage DEF LossPercent

LEMMA ReceiveType ==
    ASSUME TypeOK, StepsInv, NEW t \in Tracks, RecvRtp(t)
    PROVE  /\ TypeOK' /\ StepsInv' /\ todo' # <<>>
           /\ \A i \in DOMAIN todo' : todo'[i].op = "notify" <=> i = Len(todo')
           /\ \A u \in Tracks : started[u] => started'[u]
<1>1. PICK n \in wire[t] : /\ TakeOff(t, n)
                           /\ TrackStarts(t, n) \/ TrackWaits(t, n) \/ TrackMeasured(t, n)
  BY DEF RecvRtp
<1>2. RecordArrival(t, n) \/ UNCHANGED history
  BY <1>1 DEF TrackStarts, TrackWaits, TrackMeasured
<1>3. /\ PacketsOK' /\ duplicates' \in 0..MaxDuplicates
      /\ n \in 1..Len(Timestamps[t]) /\ n \in 1..next'[t]
  BY <1>1, <1>2, DeliveryType
<1>4. n \in Nat
  BY <1>3, ConstantTypes
<1>5. Timestamp(t, n) \in Nat
  BY <1>3, PacketTypes
<1>6. PICK q \in Seq(StepsFor(t, n)) : todo' = q \o <<Notify>>
  <2>1. CASE TrackStarts(t, n)
    BY <1>3, <2>1, BeginSteps DEF TrackStarts
  <2>2. CASE TrackWaits(t, n)
    <3>1. <<>> \in Seq(StepsFor(t, n)) /\ <<>> \o <<Notify>> = <<Notify>>
      BY EmptySeq
    <3>. QED
      BY <2>2, <3>1 DEF TrackWaits
  <2>3. CASE TrackMeasured(t, n)
    BY <1>3, <2>3, MeasureSteps DEF TrackMeasured
  <2>. QED
    BY <1>1, <2>1, <2>2, <2>3
<1>7. /\ todo' \in Seq(Step) /\ todo' # <<>> /\ StepsInv'
      /\ \A i \in DOMAIN todo' : todo'[i].op = "notify" <=> i = Len(todo')
  BY <1>3, <1>4, <1>6, StepsEndWithNotify
<1>8. /\ started' \in [Tracks -> BOOLEAN]
      /\ \A u \in Tracks : started[u] => started'[u]
  BY <1>1 DEF TrackStarts, TrackWaits, TrackMeasured, TypeOK
<1>9. last' \in [Tracks -> [seq : {-1} \cup 0..(SeqMod - 1), ts : Nat]]
  <2>1. last \in [Tracks -> [seq : {-1} \cup 0..(SeqMod - 1), ts : Nat]]
    BY DEF TypeOK
  <2>2. CASE TrackWaits(t, n)
    <3>1. [last[t] EXCEPT !.ts = Timestamp(t, n)] \in [seq : {-1} \cup 0..(SeqMod - 1), ts : Nat]
      BY <1>5, <2>1
    <3>. QED
      BY <2>1, <2>2, <3>1 DEF TrackWaits
  <2>3. CASE TrackStarts(t, n) \/ TrackMeasured(t, n)
    BY <2>1, <2>3 DEF TrackStarts, TrackMeasured
  <2>. QED
    BY <1>1, <2>2, <2>3
<1>10. now \in Nat
  BY ConstantTypes DEF TypeOK
<1>11. endTime' \in [Tracks -> Nat] /\ startTime' \in Nat
  BY <1>1, <1>10 DEF TrackStarts, TrackWaits, TrackMeasured, TypeOK
<1>. QED
  BY <1>3, <1>7, <1>8, <1>9, <1>11 DEF RecvRtp, TypeOK

(* The steps of a packet and those of the timer thread.                      *)
LEMMA StepType ==
    ASSUME TypeOK, StepsInv, NotifyInv,
           StoreStart \/ LoadCounter \/ StoreCounter \/ StoreLast \/ NotifyStart
    PROVE  TypeOK'
<1>1. PacketsOK'
  BY PacketsUnchanged DEF StoreStart, LoadCounter, StoreCounter, StoreLast, NotifyStart, TypeOK
<1>2. /\ todo # <<>> /\ Head(todo) \in Step /\ Tail(todo) \in Seq(Step)
      /\ Head(todo) = todo[1] /\ 1 \in DOMAIN todo
  BY HeadTailProperties, EmptySeq
  DEF StoreStart, LoadCounter, StoreCounter, StoreLast, NotifyStart, Doing, Idle, TypeOK
<1>3. DEFINE s == Head(todo)
<1>4. /\ s.op \in Remembers => /\ s.track \in Tracks /\ s.time \in Nat
                               /\ LastOf(s) \in [seq : 0..(SeqMod - 1), ts : Nat]
      /\ s.op = "add" => s.track \in Tracks /\ s.field \in Fields /\ s.by \in Nat
  <2>1. ASSUME s.op \in Remembers
        PROVE  LastOf(s) \in [seq : 0..(SeqMod - 1), ts : Nat]
    <3>1. s.track \in Tracks /\ s.packet \in 1..next[s.track]
      BY <1>2, <2>1, StepTypes DEF StepsInv, Remembers
    <3>2. s.packet \in 1..Len(Timestamps[s.track])
      BY <3>1, ConstantTypes DEF TypeOK, PacketsOK
    <3>. QED
      BY <3>1, <3>2, PacketTypes DEF LastOf
  <2>. QED
    BY <1>2, <2>1, StepTypes
<1>. HIDE DEF s
<1>5. CASE StoreStart
  <2>1. s.op = "begin" /\ s.op \in Remembers
    BY <1>5 DEF StoreStart, Doing, s, Remembers
  <2>2. /\ collectFrom' = [collectFrom EXCEPT ![s.track] = s.time]
        /\ last' = [last EXCEPT ![s.track] = LastOf(s)]
        /\ endTime' = [endTime EXCEPT ![s.track] = IF s.track = "audio" THEN s.time ELSE @]
    BY <1>5 DEF StoreStart, s
  <2>3. /\ collectFrom' \in [Tracks -> Nat] /\ endTime' \in [Tracks -> Nat]
        /\ last' \in [Tracks -> [seq : {-1} \cup 0..(SeqMod - 1), ts : Nat]]
    BY <1>4, <2>1, <2>2 DEF TypeOK
  <2>. QED
    BY <1>1, <1>2, <1>5, <2>3 DEF StoreStart, Done, TypeOK
<1>6. CASE LoadCounter
  <2>1. s.op = "add" /\ loaded' = data[s.track][s.field]
    BY <1>6 DEF LoadCounter, Doing, s
  <2>2. loaded' \in Nat
    BY <1>4, <2>1, CounterRead DEF TypeOK
  <2>. QED
    BY <1>1, <1>6, <2>2 DEF LoadCounter, TypeOK
<1>7. CASE StoreCounter
  <2>1. /\ s.op = "add" /\ loaded # NotLoaded
        /\ data' = [data EXCEPT ![s.track][s.field] = loaded + s.by]
        /\ loaded' = NotLoaded
    BY <1>7 DEF StoreCounter, Doing, s
  <2>2. loaded + s.by \in Nat
    BY <1>4, <2>1 DEF TypeOK
  <2>3. [data[s.track] EXCEPT ![s.field] = loaded + s.by] \in Counters
    BY <1>4, <2>1, <2>2, CounterWritten DEF TypeOK
  <2>4. data' \in [Tracks -> Counters]
    BY <1>4, <2>1, <2>3 DEF TypeOK
  <2>. QED
    BY <1>1, <1>2, <1>7, <2>1, <2>4 DEF StoreCounter, Done, TypeOK
<1>8. CASE StoreLast
  <2>1. s.op \in Remembers
    BY <1>8 DEF StoreLast, Doing, s, Remembers
  <2>2. /\ last' = [last EXCEPT ![s.track] = LastOf(s)]
        /\ endTime' = [endTime EXCEPT ![s.track] = IF s.op = "turn" THEN s.time ELSE @]
    BY <1>8 DEF StoreLast, s
  <2>3. /\ endTime' \in [Tracks -> Nat]
        /\ last' \in [Tracks -> [seq : {-1} \cup 0..(SeqMod - 1), ts : Nat]]
    BY <1>4, <2>1, <2>2 DEF TypeOK
  <2>. QED
    BY <1>1, <1>2, <1>8, <2>3 DEF StoreLast, Done, TypeOK
<1>9. CASE NotifyStart
  BY <1>1, <1>2, <1>9 DEF NotifyStart, Done, TypeOK
<1>. QED
  BY <1>5, <1>6, <1>7, <1>8, <1>9

LEMMA CollectType ==
    ASSUME TypeOK, GetTrafficCollectData
    PROVE  TypeOK'
<1>1. PacketsOK'
  BY PacketsUnchanged
  DEF GetTrafficCollectData, CollectStart, CollectCopy, CollectAdvance, CollectClear, TypeOK
<1>2. CASE CollectStart
  <2>1. now \in Nat
    BY ConstantTypes DEF TypeOK
  <2>2. collectTime' \in Nat /\ collector' \in {"idle", "copy", "advance", "video", "audio"}
    BY <1>2, <2>1 DEF CollectStart, TypeOK
  <2>3. UNCHANGED <<reports, summary, dtls, timing, media, data, todo, loaded, network, history>>
    BY <1>2 DEF CollectStart
  <2>. QED
    BY <1>1, <2>2, <2>3 DEF TypeOK
<1>3. CASE CollectCopy
  BY <1>1, <1>3 DEF CollectCopy, TypeOK
<1>4. CASE CollectAdvance
  BY <1>1, <1>4 DEF CollectAdvance, TypeOK
<1>5. ASSUME NEW t \in Tracks, CollectClear(t)
      PROVE  TypeOK'
  <2>1. data' \in [Tracks -> Counters]
    BY <1>5, ClearedType DEF CollectClear, TypeOK
  <2>2. summary' \in [packets : Nat, loss : Nat, minLoss : Nat, maxLoss : Nat, empty : BOOLEAN]
    <3>1. CASE UNCHANGED summary
      BY <3>1 DEF TypeOK
    <3>2. CASE DataCollectTimeProc
      BY <3>2, CollectedType DEF DataCollectTimeProc, TypeOK
    <3>. QED
      BY <1>5, <3>1, <3>2 DEF CollectClear
  <2>3. collector' \in {"idle", "copy", "advance", "video", "audio"}
    BY <1>5 DEF CollectClear
  <2>. QED
    BY <1>1, <1>5, <2>1, <2>2, <2>3 DEF CollectClear, TypeOK
<1>. QED
  BY <1>2, <1>3, <1>4, <1>5 DEF GetTrafficCollectData

LEMMA SendType ==
    ASSUME TypeOK, StepsInv, NEW t \in Tracks, ServerSend(t)
    PROVE  TypeOK' /\ StepsInv'
<1>1. /\ next \in [Tracks -> Nat] /\ wire \in [Tracks -> SUBSET Nat]
      /\ \A u \in Tracks : /\ next[u] \in 0..Len(Timestamps[u])
                           /\ wire[u] \subseteq 1..next[u]
                           /\ delivered[u] \subseteq 1..next[u]
                           /\ missed[u] \subseteq 1..next[u]
  BY DEF TypeOK, PacketsOK
<1>2. Len(Timestamps[t]) \in Nat
  BY ConstantTypes
<1>3. next' = [next EXCEPT ![t] = next[t] + 1] /\ next[t] < Len(Timestamps[t])
  BY DEF ServerSend
<1>4. /\ next' \in [Tracks -> Nat]
      /\ \A u \in Tracks : next'[u] \in 0..Len(Timestamps[u]) /\ next[u] <= next'[u]
      /\ next'[t] = next[t] + 1
  BY <1>1, <1>2, <1>3
<1>5. \A u \in Tracks : 1..next[u] \subseteq 1..next'[u]
  BY <1>1, <1>4
<1>6. /\ wire' \in [Tracks -> SUBSET Nat]
      /\ \A u \in Tracks : wire'[u] \subseteq 1..next'[u]
  <2>1. CASE UNCHANGED wire
    BY <1>1, <1>5, <2>1
  <2>2. CASE wire' = [wire EXCEPT ![t] = @ \cup {next'[t]}]
    <3>1. wire[t] \subseteq 1..next'[t] /\ next'[t] \in 1..next'[t] /\ next'[t] \in Nat
      BY <1>1, <1>4, <1>5
    <3>2. wire[t] \cup {next'[t]} \in SUBSET Nat /\ wire[t] \cup {next'[t]} \subseteq 1..next'[t]
      BY <1>1, <3>1
    <3>3. wire' = [wire EXCEPT ![t] = wire[t] \cup {next'[t]}]
      BY <2>2
    <3>4. wire' \in [Tracks -> SUBSET Nat]
      BY <1>1, <3>2, <3>3
    <3>. QED
      BY <1>1, <1>5, <3>2, <3>3, <3>4
  <2>. QED
    BY <2>1, <2>2 DEF ServerSend
<1>7. PacketsOK'
  BY <1>1, <1>4, <1>5, <1>6 DEF ServerSend, TypeOK, PacketsOK
<1>8. TypeOK'
  BY <1>7 DEF ServerSend, TypeOK
<1>9. ASSUME NEW i \in DOMAIN todo, todo[i].op \in Remembers
      PROVE  todo[i].packet \in 1..next'[todo[i].track]
  <2>1. todo[i].packet \in 1..next[todo[i].track] /\ todo[i].track \in Tracks
    BY <1>9, StepTypes DEF TypeOK, StepsInv, Remembers
  <2>. QED
    BY <1>5, <2>1
<1>10. StepsInv'
  BY <1>9 DEF ServerSend, StepsInv, Remembers
<1>. QED
  BY <1>8, <1>10


----------------------------------------------------------------------------
(* The announcement.                                                         *)

LEMMA InitNotify ==
    ASSUME Init
    PROVE  StepsInv /\ NotifyInv /\ StartAnnouncedOnce
<1>1. DOMAIN todo = {} /\ notified = 0 /\ ~started["video"] /\ "video" \in Tracks
  BY DEF Init, Tracks
<1>. QED
  BY <1>1 DEF StepsInv, NotifyInv, StartAnnouncedOnce

LEMMA NotifyUnchanged ==
    ASSUME NotifyInv, StartAnnouncedOnce, UNCHANGED <<todo, started, notified>>
    PROVE  NotifyInv' /\ StartAnnouncedOnce'
  BY DEF NotifyInv, StartAnnouncedOnce, Idle

(* The steps of a packet announce it at the last, when both are measured.    *)
LEMMA AnnouncementKept ==
    ASSUME TypeOK, StepsInv, NotifyInv, StartAnnouncedOnce, OnDataReceived
    PROVE  StepsInv' /\ NotifyInv' /\ StartAnnouncedOnce'
<1>1. CASE RecvBindingRequest
  BY <1>1, NotifyUnchanged DEF RecvBindingRequest, StepsInv
<1>2. ASSUME NEW t \in Tracks, RecvRtp(t)
      PROVE  StepsInv' /\ NotifyInv' /\ StartAnnouncedOnce'
  <2>1. /\ StepsInv' /\ todo' # <<>>
        /\ \A i \in DOMAIN todo' : todo'[i].op = "notify" <=> i = Len(todo')
        /\ \A u \in Tracks : started[u] => started'[u]
    BY <1>2, ReceiveType
  <2>2. notified' = notified
    BY <1>2 DEF RecvRtp
  <2>. QED
    BY <2>1, <2>2 DEF NotifyInv, StartAnnouncedOnce, Idle
<1>3. CASE LoadCounter
  BY <1>3, NotifyUnchanged DEF LoadCounter, StepsInv
<1>4. CASE StoreStart \/ StoreCounter \/ StoreLast \/ NotifyStart
  <2>1. todo \in Seq(Step) /\ ~Idle /\ Done /\ next' = next
    BY <1>4 DEF StoreStart, StoreCounter, StoreLast, NotifyStart, Doing, TypeOK
  <2>2. /\ StepsInv'
        /\ \A i \in DOMAIN todo' : todo'[i].op = "notify" <=> i = Len(todo')
        /\ Idle' <=> Head(todo).op = "notify"
    BY <2>1, TheRestOfTheSteps
  <2>3. CASE NotifyStart
    <3>1. /\ started' = started
          /\ notified' = IF notified = 0 /\ \A t \in Tracks : started[t] THEN 1 ELSE notified
      BY <2>3 DEF NotifyStart
    <3>2. notified \in {0, 1}
      BY DEF StartAnnouncedOnce, TypeOK
    <3>. QED
      BY <2>2, <3>1, <3>2 DEF NotifyInv, StartAnnouncedOnce
  <2>4. CASE StoreStart \/ StoreCounter \/ StoreLast
    <3>1. ~Idle' /\ UNCHANGED <<started, notified>>
      BY <2>2, <2>4 DEF StoreStart, StoreCounter, StoreLast, Doing
    <3>. QED
      BY <2>2, <3>1 DEF NotifyInv, StartAnnouncedOnce
  <2>. QED
    BY <1>4, <2>3, <2>4
<1>. QED
  BY <1>1, <1>2, <1>3, <1>4 DEF OnDataReceived

----------------------------------------------------------------------------
(* The summary.                                                              *)

LEMMA ProductGrows ==
    ASSUME NEW a \in Nat, NEW b \in Nat, NEW c \in Nat, a <= b
    PROVE  a * c <= b * c
  OBVIOUS

LEMMA SummaryUnchanged ==
    ASSUME SummaryInv, AverageWithin, summary' = summary
    PROVE  SummaryInv' /\ AverageWithin'
  BY DEF SummaryInv, AverageWithin

(* One more collection: p packets and l lost so far, the lowest and highest  *)
(* percentage, and P, L and the percentage C of what was collected.          *)
LEMMA OneMoreCollection ==
    ASSUME NEW p \in Nat, NEW l \in Nat, NEW min \in Nat, NEW max \in Nat,
           NEW P \in Nat, NEW L \in Nat, NEW C \in Nat,
           P = 0 => C = 0,
           P # 0 => C * P <= L * 100 /\ L * 100 < (C + 1) * P,
           p > 0 => min * p <= l * 100,
           p + P > 0
    PROVE  (IF C < min THEN C ELSE min) * (p + P) <= (l + L) * 100
<1>. DEFINE m == IF C < min THEN C ELSE min
<1>1. m \in Nat /\ m <= C /\ m <= min
  OBVIOUS
<1>. HIDE DEF m
<1>2. m * p <= l * 100
  <2>1. CASE p = 0
    BY <1>1, <2>1
  <2>2. CASE p # 0
    BY <1>1, <2>2, ProductGrows
  <2>. QED
    BY <2>1, <2>2
<1>3. m * P <= L * 100
  <2>1. CASE P = 0
    BY <1>1, <2>1
  <2>2. CASE P # 0
    BY <1>1, <2>2, ProductGrows
  <2>. QED
    BY <2>1, <2>2
<1>4. m * (p + P) = m * p + m * P
  BY <1>1
<1>. QED
  BY <1>1, <1>2, <1>3, <1>4 DEF m

LEMMA OneMoreNonemptyCollection ==
    ASSUME NEW p \in Nat, NEW l \in Nat, NEW max \in Nat,
           NEW P \in Nat, NEW L \in Nat, NEW C \in Nat,
           P = 0 => L = 0,
           P # 0 => L * 100 < (C + 1) * P,
           p = 0 => l = 0,
           p > 0 => l * 100 < (max + 1) * p,
           p + P > 0
    PROVE  (l + L) * 100 < ((IF C > max THEN C ELSE max) + 1) * (p + P)
<1>. DEFINE m == (IF C > max THEN C ELSE max) + 1
<1>1. m \in Nat /\ C + 1 <= m /\ max + 1 <= m /\ C + 1 \in Nat /\ max + 1 \in Nat
  OBVIOUS
<1>. HIDE DEF m
<1>2. (max + 1) * p <= m * p /\ (C + 1) * P <= m * P
  BY <1>1, ProductGrows
<1>3. m * (p + P) = m * p + m * P
  BY <1>1
<1>4. CASE p = 0
  <2>1. m * p = 0 /\ l = 0 /\ P # 0
    BY <1>1, <1>4
  <2>. QED
    BY <1>1, <1>2, <1>3, <2>1 DEF m
<1>5. CASE P = 0
  <2>1. m * P = 0 /\ L = 0 /\ p > 0
    BY <1>1, <1>5
  <2>. QED
    BY <1>1, <1>2, <1>3, <2>1 DEF m
<1>6. CASE p # 0 /\ P # 0
  BY <1>1, <1>2, <1>3, <1>6 DEF m
<1>. QED
  BY <1>4, <1>5, <1>6

LEMMA SummaryKept ==
    ASSUME TypeOK, SummaryInv, AverageWithin, DataCollectTimeProc
    PROVE  SummaryInv' /\ AverageWithin'
<1>. DEFINE p == summary.packets
            l == summary.loss
            P == Collected("packets")
            L == Collected("loss")
            C == LossPercent
<1>1. /\ summary.packets \in Nat /\ summary.loss \in Nat
      /\ summary.minLoss \in Nat /\ summary.maxLoss \in Nat /\ summary.empty \in BOOLEAN
  BY DEF TypeOK
<1>2. P \in Nat /\ L \in Nat /\ C \in Nat
  BY CollectedType
<1>3. /\ summary'.packets = p + P /\ summary'.loss = l + L
      /\ summary'.maxLoss = IF C > summary.maxLoss THEN C ELSE summary.maxLoss
      /\ summary'.minLoss = IF C < summary.minLoss THEN C ELSE summary.minLoss
      /\ ~summary'.empty <=> ~summary.empty /\ ~(P = 0 /\ L > 0)
  BY DEF DataCollectTimeProc
<1>4. P = 0 => C = 0
  BY DEF LossPercent
<1>5. P # 0 => C * P <= L * 100 /\ L * 100 < (C + 1) * P
  <2>1. L * 100 \in Nat
    BY <1>2
  <2>2. P # 0 => C = (L * 100) \div P
    BY DEF LossPercent
  <2>. QED
    BY <1>2, <2>1, <2>2, Percentage
<1>6. p > 0 => p \in Nat /\ summary.minLoss * p <= l * 100
  BY <1>1 DEF AverageWithin
<1>7. p > 0 /\ ~summary.empty => l * 100 < (summary.maxLoss + 1) * p
  BY DEF AverageWithin
<1>8. p = 0 /\ ~summary.empty => l = 0
  BY DEF SummaryInv
<1>. HIDE DEF p, l, P, L, C
<1>9. p \in Nat /\ l \in Nat
  BY <1>1 DEF p, l
<1>10. ASSUME summary'.packets > 0
       PROVE  summary'.minLoss * summary'.packets <= summary'.loss * 100
  BY <1>1, <1>2, <1>3, <1>4, <1>5, <1>6, <1>9, <1>10, OneMoreCollection
<1>11. ASSUME summary'.packets > 0, ~summary'.empty
       PROVE  summary'.loss * 100 < (summary'.maxLoss + 1) * summary'.packets
  <2>1. ~summary.empty /\ (P = 0 => L = 0)
    BY <1>2, <1>3, <1>11
  <2>2. (l + L) * 100 < ((IF C > summary.maxLoss THEN C ELSE summary.maxLoss) + 1) * (p + P)
    BY <1>1, <1>2, <1>3, <1>5, <1>7, <1>8, <1>9, <1>11, <2>1, OneMoreNonemptyCollection
  <2>. QED
    BY <1>3, <2>2
<1>12. SummaryInv'
  <2>1. ASSUME summary'.packets = 0, ~summary'.empty
        PROVE  summary'.loss = 0
    BY <1>2, <1>3, <1>8, <1>9, <2>1
  <2>. QED
    BY <2>1 DEF SummaryInv
<1>. QED
  BY <1>10, <1>11, <1>12 DEF AverageWithin

----------------------------------------------------------------------------
(* IInv is inductive.                                                        *)

LEMMA InitInvariance == Init => IInv
<1>. SUFFICES ASSUME Init PROVE IInv
  OBVIOUS
<1>1. SummaryInv /\ AverageWithin
  BY DEF Init, SummaryInv, AverageWithin
<1>. QED
  BY <1>1, InitType, InitNotify DEF IInv

LEMMA NextInvariance == IInv /\ [Next]_vars => IInv'
<1>. SUFFICES ASSUME IInv, [Next]_vars PROVE IInv'
  OBVIOUS
<1>. USE DEF IInv
<1>1. CASE Tick
  <2>1. now' \in Epoch..(Epoch + MaxTime)
    BY <1>1, ConstantTypes DEF Tick, TypeOK
  <2>2. PacketsOK'
    BY <1>1, PacketsUnchanged DEF Tick, TypeOK
  <2>3. TypeOK'
    BY <1>1, <2>1, <2>2 DEF Tick, TypeOK
  <2>. QED
    BY <1>1, <2>3, NotifyUnchanged, SummaryUnchanged DEF Tick, StepsInv
<1>2. CASE Network
  BY <1>2, SendType, NotifyUnchanged, SummaryUnchanged DEF Network, ServerSend
<1>3. CASE OnDataReceived
  <2>1. TypeOK'
    <3>1. CASE RecvBindingRequest
      <4>1. PacketsOK'
        BY <3>1, PacketsUnchanged DEF RecvBindingRequest, TypeOK
      <4>2. completed' = TRUE /\ state' \in {"none", "running", "error"}
        BY <3>1 DEF RecvBindingRequest
      <4>. QED
        BY <3>1, <4>1, <4>2 DEF RecvBindingRequest, TypeOK
    <3>. QED
      BY <1>3, <3>1, ReceiveType, StepType DEF OnDataReceived
  <2>2. summary' = summary
    BY <1>3 DEF OnDataReceived, RecvBindingRequest, RecvRtp, StoreStart, LoadCounter,
                StoreCounter, StoreLast, NotifyStart
  <2>. QED
    BY <1>3, <2>1, <2>2, AnnouncementKept, SummaryUnchanged
<1>4. CASE GetTrafficCollectData
  <2>1. UNCHANGED <<todo, started, notified, next>>
    BY <1>4 DEF GetTrafficCollectData, CollectStart, CollectCopy, CollectAdvance, CollectClear
  <2>2. summary' = summary \/ DataCollectTimeProc
    BY <1>4 DEF GetTrafficCollectData, CollectStart, CollectCopy, CollectAdvance, CollectClear
  <2>3. SummaryInv' /\ AverageWithin'
    BY <2>2, SummaryUnchanged, SummaryKept
  <2>. QED
    BY <1>4, <2>1, <2>3, CollectType, NotifyUnchanged DEF StepsInv
<1>5. CASE UNCHANGED vars
  <2>1. TypeOK'
    BY <1>5, PacketsUnchanged DEF vars, TypeOK
  <2>. QED
    BY <1>5, <2>1, NotifyUnchanged, SummaryUnchanged DEF vars, StepsInv
<1>. QED
  BY <1>1, <1>2, <1>3, <1>4, <1>5 DEF Next

(* The inductive invariant holds of every session.                           *)
THEOREM Invariance == Spec => []IInv
  BY InitInvariance, NextInvariance, PTL DEF Spec

(* When the handler of a packet is over, OnRtpStart_DtlsTransport has been   *)
(* called if and only if both tracks are measured, and never twice           *)
(* (SetVideoTraffic, SetAudioTraffic, the end of OnDataReceived).            *)
THEOREM AnnouncedOnce == Spec => []StartAnnouncedOnce
<1>1. IInv => StartAnnouncedOnce
  BY DEF IInv
<1>. QED
  BY <1>1, Invariance, PTL

(* The average loss DataCollectTimeProc prints lies between the lowest and   *)
(* the highest it prints, whatever a lost clear does to the counters, as     *)
(* long as no collection lost packets and received none.                     *)
THEOREM AverageInRange == Spec => []AverageWithin
<1>1. IInv => AverageWithin
  BY DEF IInv
<1>. QED
  BY <1>1, Invariance, PTL

----------------------------------------------------------------------------
(* Numbers that wrap.                                                        *)

LEMMA QuotientGrows ==
    ASSUME NEW m \in Nat, NEW q \in Nat, NEW r \in Nat, q < r
    PROVE  q * m + m <= r * m
<1>1. r = q + 1 + (r - q - 1) /\ r - q - 1 \in Nat
  OBVIOUS
<1>2. PICK k \in Nat : r = q + 1 + k
  BY <1>1
<1>3. r * m = q * m + m + k * m
  BY <1>2
<1>. QED
  BY <1>3

LEMMA Remainder ==
    ASSUME NEW a \in Nat, NEW m \in Nat \ {0}
    PROVE  a % m = a - (a \div m) * m
  OBVIOUS

LEMMA Division ==
    ASSUME NEW a \in Nat, NEW m \in Nat \ {0}
    PROVE  /\ (a % m) \in 0..(m - 1)
           /\ \E q \in Nat : q * m \in Nat /\ a = q * m + (a % m)
<1>1. a \div m \in Nat /\ (a % m) \in 0..(m - 1)
  OBVIOUS
<1>2. (a % m) = a - (a \div m) * m
  BY Remainder
<1>3. PICK q \in Nat : (a % m) = a - q * m
  BY <1>1, <1>2
<1>4. q * m \in Nat
  OBVIOUS
<1>5. a = q * m + (a % m)
  <2>1. PICK x \in Nat, y \in Nat : x = q * m /\ y = (a % m)
    BY <1>1, <1>4
  <2>2. y = a - x
    BY <1>3, <2>1
  <2>3. a = x + y
    BY <2>2
  <2>. QED
    BY <2>1, <2>3, Zenon
<1>. QED
  BY <1>1, <1>4, <1>5

LEMMA Differences ==
    ASSUME NEW m \in Nat \ {0}, NEW x \in Nat, NEW y \in Nat,
           NEW s \in 0..(m - 1), NEW u \in 0..(m - 1),
           x = y \/ x + m <= y \/ y + m <= x, x + s <= y + u
    PROVE  /\ u - s <= (y + u) - (x + s)
           /\ u < s => u + m - s <= (y + u) - (x + s)
  OBVIOUS

(* Between two numbers counted modulo m there are at most as many as between *)
(* the two that were counted.                                                *)
LEMMA ModularDistance ==
    ASSUME NEW a \in Nat, NEW b \in Nat, NEW m \in Nat \ {0}, a <= b
    PROVE  /\ (b % m) - (a % m) <= b - a
           /\ (b % m) < (a % m) => (b % m) + m - (a % m) <= b - a
<1>1. PICK s \in 0..(m - 1), u \in 0..(m - 1) : s = (a % m) /\ u = (b % m)
  BY Division
<1>2. PICK q \in Nat : q * m \in Nat /\ a = q * m + s
  BY <1>1, Division
<1>3. PICK r \in Nat : r * m \in Nat /\ b = r * m + u
  BY <1>1, Division
<1>4. q = r \/ q * m + m <= r * m \/ r * m + m <= q * m
  BY QuotientGrows
<1>5. q = r => q * m = r * m
  OBVIOUS
<1>6. PICK x \in Nat, y \in Nat : x = q * m /\ y = r * m
  BY <1>2, <1>3
<1>7. x = y \/ x + m <= y \/ y + m <= x
  BY <1>4, <1>5, <1>6
<1>8. a = x + s /\ b = y + u
  BY <1>2, <1>3, <1>6
<1>9. u - s <= b - a /\ (u < s => u + m - s <= b - a)
  BY <1>1, <1>6, <1>7, <1>8, Differences
<1>. QED
  BY <1>1, <1>9

(* Whatever wraps, no more packets are called lost than were sent between.   *)
LEMMA LossBound ==
    ASSUME NEW t \in Tracks, NEW n \in 1..Len(Timestamps[t]), NEW p \in 1..n,
           last[t].seq = Sequence(t, p)
    PROVE  Unwrapped(t, n) - (last[t].seq + 1) <= n - p - 1
<1>1. /\ FirstSeq[t] \in Nat /\ SeqMod \in Nat \ {0} /\ NearWrap \in Nat /\ FarFromWrap \in Nat
      /\ FarFromWrap <= NearWrap /\ n \in Nat /\ p \in Nat /\ p <= n
  BY ConstantTypes, DtlsTransportAssumption DEF DtlsTransportAssumption
<1>. DEFINE a == FirstSeq[t] + p
            b == FirstSeq[t] + n
<1>2. a \in Nat /\ b \in Nat /\ a <= b /\ b - a = n - p
  BY <1>1
<1>3. Sequence(t, p) = (a % SeqMod) /\ Sequence(t, n) = (b % SeqMod)
  BY DEF Sequence
<1>. HIDE DEF a, b
<1>4. /\ (b % SeqMod) - (a % SeqMod) <= b - a
      /\ (b % SeqMod) < (a % SeqMod) => (b % SeqMod) + SeqMod - (a % SeqMod) <= b - a
  BY <1>1, <1>2, ModularDistance
<1>5. (a % SeqMod) \in Nat /\ (b % SeqMod) \in Nat
  BY <1>1, <1>2
<1>6. PICK x \in Nat, y \in Nat : x = Sequence(t, p) /\ y = Sequence(t, n)
  BY <1>3, <1>5
<1>7. /\ y - x <= n - p
      /\ y < x => y + SeqMod - x <= n - p
  <2>1. x = (a % SeqMod) /\ y = (b % SeqMod)
    BY <1>3, <1>6
  <2>2. y - x <= b - a /\ (y < x => y + SeqMod - x <= b - a)
    BY <1>4, <2>1, Zenon
  <2>. QED
    BY <1>2, <2>2
<1>8. Unwrapped(t, n) = IF x > NearWrap /\ y < FarFromWrap THEN y + (SeqMod - 1) ELSE y
  BY <1>6 DEF Unwrapped
<1>. QED
  BY <1>1, <1>6, <1>7, <1>8

----------------------------------------------------------------------------
(* The truth and how it grows.                                               *)

LEMMA FramesFinite ==
    ASSUME NEW t \in Tracks, NEW S, IsFiniteSet(S)
    PROVE  IsFiniteSet({Timestamp(t, n) : n \in S})
<1>. DEFINE T == {Timestamp(t, n) : n \in S}
            f == [n \in S |-> Timestamp(t, n)]
<1>1. f \in Surjection(S, T)
  BY DEF Surjection
<1>. QED
  BY <1>1, FS_Surjection

LEMMA FiniteBelow ==
    ASSUME NEW n \in Nat, NEW S \in SUBSET (1..n)
    PROVE  IsFiniteSet(S)
<1>1. IsFiniteSet(1..n)
  BY FS_Interval
<1>. QED
  BY <1>1, FS_Subset

LEMMA GapSize ==
    ASSUME NEW p \in Nat, NEW n \in Nat, p < n
    PROVE  /\ IsFiniteSet((p + 1)..(n - 1))
           /\ Cardinality((p + 1)..(n - 1)) = n - p - 1
<1>1. PICK a \in Int, b \in Int : a = p + 1 /\ b = n - 1
  OBVIOUS
<1>2. IsFiniteSet(a..b) /\ Cardinality(a..b) = IF a > b THEN 0 ELSE b - a + 1
  BY FS_Interval
<1>3. (IF a > b THEN 0 ELSE b - a + 1) = n - p - 1
  BY <1>1
<1>. QED
  BY <1>1, <1>2, <1>3

FramesOf(t, S) == {Timestamp(t, n) : n \in S}

LEMMA HistoryFinite ==
    ASSUME TypeOK, NEW t \in Tracks
    PROVE  /\ IsFiniteSet(delivered[t]) /\ IsFiniteSet(missed[t])
           /\ IsFiniteSet(FramesOf(t, delivered[t]))
           /\ Cardinality(missed[t]) \in Nat
           /\ Cardinality(FramesOf(t, delivered[t])) \in Nat
           /\ arrivals[t] \in Nat
<1>1. /\ delivered[t] \subseteq 1..next[t] /\ missed[t] \subseteq 1..next[t]
      /\ next[t] \in Nat /\ arrivals[t] \in Nat
  BY DEF TypeOK, PacketsOK
<1>2. IsFiniteSet(1..next[t])
  BY <1>1, FS_Interval
<1>3. IsFiniteSet(delivered[t]) /\ IsFiniteSet(missed[t])
  BY <1>1, <1>2, FS_Subset
<1>. QED
  BY <1>1, <1>3, FramesFinite, FS_CardinalityType DEF FramesOf

LEMMA TruthFields ==
    ASSUME NEW t \in Tracks
    PROVE  /\ Truth(t)["packets"] = arrivals[t]
           /\ Truth(t)["frames"] = Cardinality(FramesOf(t, delivered[t]))
           /\ Truth(t)["loss"] = Cardinality(missed[t])
  BY DEF Truth, FramesOf

(* The packets a delivery finds missing.                                     *)
Gap(t, n) ==
    {m \in 1..(n - 1) : m \notin delivered[t] /\ \E first \in delivered[t] : first < m}

LEMMA Recorded ==
    ASSUME TypeOK, NEW t \in Tracks, NEW n \in 1..next[t], RecordArrival(t, n)
    PROVE  /\ delivered'[t] = delivered[t] \cup {n}
           /\ missed'[t] = missed[t] \cup Gap(t, n)
           /\ arrivals'[t] = arrivals[t] + 1
           /\ \A u \in Tracks : u # t => /\ delivered'[u] = delivered[u] /\ missed'[u] = missed[u]
                                         /\ arrivals'[u] = arrivals[u]
<1>1. /\ DOMAIN delivered = Tracks /\ DOMAIN missed = Tracks /\ DOMAIN arrivals = Tracks
  BY DEF TypeOK, PacketsOK
<1>2. missed' = [missed EXCEPT ![t] = missed[t] \cup Gap(t, n)]
  BY DEF RecordArrival, Gap
<1>3. /\ delivered' = [delivered EXCEPT ![t] = delivered[t] \cup {n}]
      /\ arrivals' = [arrivals EXCEPT ![t] = arrivals[t] + 1]
  BY DEF RecordArrival
<1>. QED
  BY <1>1, <1>2, <1>3

LEMMA TruthGrows ==
    ASSUME TypeOK, NEW t \in Tracks, NEW n \in 1..next[t], RecordArrival(t, n)
    PROVE  /\ Truth(t)'["packets"] = Truth(t)["packets"] + 1
           /\ Truth(t)["frames"] <= Truth(t)'["frames"]
           /\ Truth(t)["loss"] <= Truth(t)'["loss"]
           /\ \A u \in Tracks : u # t => Truth(u)' = Truth(u)
<1>1. /\ delivered'[t] = delivered[t] \cup {n}
      /\ missed'[t] = missed[t] \cup Gap(t, n)
      /\ arrivals'[t] = arrivals[t] + 1
      /\ \A u \in Tracks : u # t => /\ delivered'[u] = delivered[u] /\ missed'[u] = missed[u]
                                    /\ arrivals'[u] = arrivals[u]
  BY Recorded
<1>2. IsFiniteSet(delivered'[t]) /\ IsFiniteSet(missed'[t])
  <2>1. next[t] \in Nat /\ n \in Nat
    BY DEF TypeOK, PacketsOK
  <2>2. Gap(t, n) \in SUBSET (1..n)
    BY <2>1 DEF Gap
  <2>3. IsFiniteSet(Gap(t, n))
    BY <2>1, <2>2, FiniteBelow
  <2>4. IsFiniteSet(delivered[t]) /\ IsFiniteSet(missed[t])
    BY HistoryFinite
  <2>5. IsFiniteSet(delivered[t] \cup {n})
    BY <2>4, FS_AddElement
  <2>6. IsFiniteSet(missed[t] \cup Gap(t, n))
    BY <2>3, <2>4, FS_Union
  <2>. QED
    BY <1>1, <2>5, <2>6
<1>3. FramesOf(t, delivered[t]) \in SUBSET FramesOf(t, delivered'[t])
  BY <1>1 DEF FramesOf
<1>4. IsFiniteSet(FramesOf(t, delivered'[t]))
  BY <1>2, FramesFinite DEF FramesOf
<1>5. Cardinality(FramesOf(t, delivered[t])) <= Cardinality(FramesOf(t, delivered'[t]))
  BY <1>3, <1>4, FS_Subset
<1>6. Cardinality(missed[t]) <= Cardinality(missed'[t])
  BY <1>1, <1>2, FS_Subset
<1>7. Truth(t)' = [packets |-> arrivals'[t], frames |-> Cardinality(FramesOf(t, delivered'[t])),
                   loss |-> Cardinality(missed'[t])]
  BY DEF Truth, FramesOf
<1>8. \A u \in Tracks : u # t => Truth(u)' = Truth(u)
  BY <1>1 DEF Truth
<1>. QED
  BY <1>1, <1>5, <1>6, <1>7, <1>8, TruthFields

(* A packet with a timestamp of its own shows one more frame.                *)
LEMMA FrameSeen ==
    ASSUME TypeOK, NEW t \in Tracks, NEW n \in 1..next[t], RecordArrival(t, n),
           \A d \in delivered[t] : Timestamp(t, d) # Timestamp(t, n)
    PROVE  Truth(t)'["frames"] = Truth(t)["frames"] + 1
<1>1. delivered'[t] = delivered[t] \cup {n}
  BY Recorded
<1>2. FramesOf(t, delivered'[t]) = FramesOf(t, delivered[t]) \cup {Timestamp(t, n)}
  BY <1>1 DEF FramesOf
<1>3. Timestamp(t, n) \notin FramesOf(t, delivered[t])
  BY DEF FramesOf
<1>4. Cardinality(FramesOf(t, delivered'[t])) = Cardinality(FramesOf(t, delivered[t])) + 1
  BY <1>2, <1>3, HistoryFinite, FS_AddElement
<1>5. Truth(t)'["frames"] = Cardinality(FramesOf(t, delivered'[t]))
  BY DEF Truth, FramesOf
<1>. QED
  BY <1>4, <1>5, TruthFields

(* A packet finds missing all between it and the latest before it.           *)
LEMMA LossSeen ==
    ASSUME TypeOK, NEW t \in Tracks, NEW n \in 1..next[t], RecordArrival(t, n),
           NEW p \in delivered[t], p < n, \A d \in delivered[t] \cup missed[t] : d <= p
    PROVE  Truth(t)["loss"] + (n - p - 1) <= Truth(t)'["loss"]
<1>1. missed'[t] = missed[t] \cup Gap(t, n)
  BY Recorded
<1>2. /\ next[t] \in Nat /\ n \in Nat /\ p \in Nat
      /\ delivered[t] \subseteq Nat /\ missed[t] \subseteq Nat
  BY DEF TypeOK, PacketsOK
<1>3. (p + 1)..(n - 1) \subseteq Gap(t, n)
  BY <1>2 DEF Gap
<1>4. IsFiniteSet((p + 1)..(n - 1)) /\ Cardinality((p + 1)..(n - 1)) = n - p - 1
  BY <1>2, GapSize
<1>5. missed[t] \cap ((p + 1)..(n - 1)) = {}
  BY <1>2
<1>6. IsFiniteSet(missed[t]) /\ Cardinality(missed[t]) \in Nat
  BY HistoryFinite
<1>7. Cardinality(missed[t] \cup ((p + 1)..(n - 1))) = Cardinality(missed[t]) + (n - p - 1)
  <2>. DEFINE S == (p + 1)..(n - 1)
  <2>1. missed[t] \cap S = {} /\ IsFiniteSet(S) /\ Cardinality(S) = n - p - 1
    BY <1>4, <1>5
  <2>. HIDE DEF S
  <2>2. Cardinality(missed[t] \cup S)
            = Cardinality(missed[t]) + Cardinality(S) - Cardinality(missed[t] \cap S)
    BY <1>6, <2>1, FS_Union
  <2>3. Cardinality(missed[t] \cap S) = 0
    BY <2>1, FS_EmptySet
  <2>4. Cardinality(missed[t] \cup S) = Cardinality(missed[t]) + (n - p - 1)
    BY <1>2, <1>6, <2>1, <2>2, <2>3
  <2>. QED
    BY <2>4 DEF S
<1>8. IsFiniteSet(missed'[t])
  <2>1. Gap(t, n) \in SUBSET (1..n)
    BY <1>2 DEF Gap
  <2>2. IsFiniteSet(Gap(t, n))
    BY <1>2, <2>1, FiniteBelow
  <2>. QED
    BY <1>1, <1>6, <2>2, FS_Union
<1>9. missed[t] \cup ((p + 1)..(n - 1)) \in SUBSET missed'[t]
  BY <1>1, <1>3
<1>10. Cardinality(missed[t]) + (n - p - 1) <= Cardinality(missed'[t])
  BY <1>7, <1>8, <1>9, FS_Subset
<1>11. Truth(t)'["loss"] = Cardinality(missed'[t])
  BY DEF Truth
<1>. QED
  BY <1>10, <1>11, TruthFields

----------------------------------------------------------------------------
(* What a packet adds.                                                       *)

LEMMA AddFields ==
    ASSUME NEW t, NEW f, NEW k
    PROVE  /\ Add(t, f, k).op = "add" /\ Add(t, f, k).track = t
           /\ Add(t, f, k).field = f /\ Add(t, f, k).by = k
  BY DEF Add

LEMMA RememberFields ==
    ASSUME NEW t, NEW n, NEW op \in Remembers
    PROVE  /\ Remember(op, t, n).op \in Remembers /\ Remember(op, t, n).op # "add"
           /\ Remember(op, t, n).track = t /\ Remember(op, t, n).packet = n
  BY DEF Remember, Remembers

(* The steps of q add to the counters in F of track t no more than g, once   *)
(* to each, and remember no packet but n.                                    *)
AddsOnly(q, t, n, g, F) ==
    /\ \A i \in DOMAIN q : q[i].op = "add" =>
          /\ q[i].track = t /\ q[i].field \in F /\ q[i].by <= g[q[i].field]
          /\ \A j \in DOMAIN q : q[j].op = "add" /\ q[j].field = q[i].field => j = i
    /\ \A i \in DOMAIN q : q[i].op \in Remembers => q[i].track = t /\ q[i].packet = n

RemembersOne(q) == \E i \in DOMAIN q : q[i].op \in Remembers

LEMMA Joined ==
    ASSUME NEW q \in Seq(Step), NEW r \in Seq(Step), NEW t, NEW n, NEW g,
           NEW F, NEW G, F \cap G = {},
           AddsOnly(q, t, n, g, F), AddsOnly(r, t, n, g, G)
    PROVE  /\ q \o r \in Seq(Step)
           /\ AddsOnly(q \o r, t, n, g, F \cup G)
<1>. DEFINE s == q \o r
<1>1. /\ s \in Seq(Step) /\ Len(q) \in Nat /\ Len(r) \in Nat
      /\ DOMAIN q = 1..Len(q) /\ DOMAIN r = 1..Len(r) /\ DOMAIN s = 1..(Len(q) + Len(r))
      /\ \A i \in DOMAIN q : s[i] = q[i]
      /\ \A i \in DOMAIN s \ DOMAIN q : i - Len(q) \in DOMAIN r /\ s[i] = r[i - Len(q)]
  BY ConcatProperties
<1>. HIDE DEF s
<1>2. \A i \in DOMAIN q : s[i].op = "add" =>
        /\ s[i].track = t /\ s[i].field \in F /\ s[i].by <= g[s[i].field]
        /\ \A j \in DOMAIN q : s[j].op = "add" /\ s[j].field = s[i].field => j = i
  BY <1>1 DEF AddsOnly
<1>3. \A i \in DOMAIN s \ DOMAIN q : s[i].op = "add" =>
        /\ s[i].track = t /\ s[i].field \in G /\ s[i].by <= g[s[i].field]
        /\ \A j \in DOMAIN s \ DOMAIN q : s[j].op = "add" /\ s[j].field = s[i].field => j = i
  BY <1>1 DEF AddsOnly
<1>4. \A i \in DOMAIN s : s[i].op = "add" =>
        /\ s[i].track = t /\ s[i].field \in F \cup G /\ s[i].by <= g[s[i].field]
        /\ \A j \in DOMAIN s : s[j].op = "add" /\ s[j].field = s[i].field => j = i
  BY <1>2, <1>3
<1>5. \A i \in DOMAIN s : s[i].op \in Remembers => s[i].track = t /\ s[i].packet = n
  BY <1>1 DEF AddsOnly
<1>. QED
  BY <1>1, <1>4, <1>5 DEF AddsOnly, s

LEMMA OneAdd ==
    ASSUME NEW t \in Tracks, NEW n, NEW g, NEW f \in Fields, NEW k \in Nat, k <= g[f]
    PROVE  <<Add(t, f, k)>> \in Seq(Step) /\ AddsOnly(<<Add(t, f, k)>>, t, n, g, {f})
<1>1. Add(t, f, k) \in Step
  BY AddStep DEF StepsFor
<1>2. Add(t, f, k).op \notin Remembers
  BY AddFields DEF Remembers
<1>. QED
  BY <1>1, <1>2, AddFields DEF AddsOnly

LEMMA OneRemember ==
    ASSUME NEW t \in Tracks, NEW n \in Nat, NEW g, NEW op \in Remembers, now \in Nat
    PROVE  /\ <<Remember(op, t, n)>> \in Seq(Step)
           /\ AddsOnly(<<Remember(op, t, n)>>, t, n, g, {})
<1>1. Remember(op, t, n) \in Step
  BY RememberStep DEF StepsFor
<1>. QED
  BY <1>1, RememberFields DEF AddsOnly

LEMMA OneNotify ==
    ASSUME NEW t, NEW n, NEW g
    PROVE  <<Notify>> \in Seq(Step) /\ AddsOnly(<<Notify>>, t, n, g, {})
<1>1. Notify.op # "add" /\ Notify.op \notin Remembers
  BY NotifyIsStep DEF Remembers
<1>. QED
  BY <1>1, NotifyIsStep DEF AddsOnly

LEMMA NoSteps ==
    ASSUME NEW t, NEW n, NEW g, NEW F
    PROVE  <<>> \in Seq(Step) /\ AddsOnly(<<>>, t, n, g, F)
  BY EmptySeq DEF AddsOnly

LEMMA LossAdds ==
    ASSUME TypeOK, NEW t \in Tracks, NEW n \in 1..Len(Timestamps[t]), NEW g,
           Unwrapped(t, n) > last[t].seq + 1 =>
                Unwrapped(t, n) - (last[t].seq + 1) <= g["loss"]
    PROVE  Loss(t, n) \in Seq(Step) /\ AddsOnly(Loss(t, n), t, n, g, {"loss"})
<1>1. CASE Unwrapped(t, n) > last[t].seq + 1
  <2>1. Unwrapped(t, n) \in Int /\ last[t].seq \in Int
    <3>1. Sequence(t, n) \in Int /\ SeqMod \in Int
      BY PacketTypes, ConstantTypes
    <3>. QED
      BY <3>1 DEF Unwrapped, TypeOK
  <2>2. Unwrapped(t, n) - (last[t].seq + 1) \in Nat
    BY <1>1, <2>1
  <2>. QED
    BY <1>1, <2>2, OneAdd DEF Loss, Fields
<1>2. CASE ~(Unwrapped(t, n) > last[t].seq + 1)
  BY <1>2, NoSteps DEF Loss
<1>. QED
  BY <1>1, <1>2

LEMMA MeasureAdds ==
    ASSUME TypeOK, NEW t \in Tracks, NEW n \in 1..Len(Timestamps[t]), NEW g,
           1 <= g["packets"],
           last[t].ts < Timestamp(t, n) => 1 <= g["frames"],
           (last[t].ts < Timestamp(t, n) \/ last[t].ts = Timestamp(t, n))
              /\ Unwrapped(t, n) > last[t].seq + 1
              => Unwrapped(t, n) - (last[t].seq + 1) <= g["loss"]
    PROVE  AddsOnly(Measure(t, n) \o <<Notify>>, t, n, g, Fields)
<1>1. now \in Nat /\ n \in Nat
  BY ConstantTypes DEF TypeOK
<1>2. <<Add(t, "packets", 1)>> \in Seq(Step)
      /\ AddsOnly(<<Add(t, "packets", 1)>>, t, n, g, {"packets"})
  BY OneAdd DEF Fields
<1>3. PICK q \in Seq(Step) : /\ Measure(t, n) = <<Add(t, "packets", 1)>> \o q
                             /\ AddsOnly(q, t, n, g, {"frames", "loss"})
  <2>1. CASE last[t].ts < Timestamp(t, n)
    <3>. DEFINE q == <<Add(t, "frames", 1)>> \o Loss(t, n) \o <<Remember("turn", t, n)>>
    <3>1. Measure(t, n) = <<Add(t, "packets", 1)>> \o q
      BY <2>1 DEF Measure
    <3>2. <<Add(t, "frames", 1)>> \in Seq(Step)
          /\ AddsOnly(<<Add(t, "frames", 1)>>, t, n, g, {"frames"})
      BY <2>1, OneAdd DEF Fields
    <3>3. Loss(t, n) \in Seq(Step) /\ AddsOnly(Loss(t, n), t, n, g, {"loss"})
      BY <2>1, LossAdds
    <3>4. /\ <<Add(t, "frames", 1)>> \o Loss(t, n) \in Seq(Step)
          /\ AddsOnly(<<Add(t, "frames", 1)>> \o Loss(t, n), t, n, g, {"frames"} \cup {"loss"})
      BY <3>2, <3>3, Joined
    <3>5. /\ <<Remember("turn", t, n)>> \in Seq(Step)
          /\ AddsOnly(<<Remember("turn", t, n)>>, t, n, g, {})
      BY <1>1, OneRemember DEF Remembers
    <3>6. q \in Seq(Step) /\ AddsOnly(q, t, n, g, ({"frames"} \cup {"loss"}) \cup {})
      BY <3>4, <3>5, Joined
    <3>7. ({"frames"} \cup {"loss"}) \cup {} = {"frames", "loss"}
      OBVIOUS
    <3>. HIDE DEF q
    <3>. QED
      BY <3>1, <3>6, <3>7
  <2>2. CASE ~(last[t].ts < Timestamp(t, n)) /\ last[t].ts = Timestamp(t, n) /\ t = "video"
    <3>. DEFINE q == Loss(t, n) \o <<Remember("move", t, n)>>
    <3>1. Measure(t, n) = <<Add(t, "packets", 1)>> \o q
      BY <2>2 DEF Measure
    <3>2. Loss(t, n) \in Seq(Step) /\ AddsOnly(Loss(t, n), t, n, g, {"loss"})
      BY <2>2, LossAdds
    <3>3. /\ <<Remember("move", t, n)>> \in Seq(Step)
          /\ AddsOnly(<<Remember("move", t, n)>>, t, n, g, {})
      BY <1>1, OneRemember DEF Remembers
    <3>4. q \in Seq(Step) /\ AddsOnly(q, t, n, g, {"loss"} \cup {})
      BY <3>2, <3>3, Joined
    <3>. HIDE DEF q
    <3>5. AddsOnly(q, t, n, g, {"frames", "loss"})
      BY <3>4 DEF AddsOnly
    <3>. QED
      BY <3>1, <3>4, <3>5
  <2>3. CASE ~(last[t].ts < Timestamp(t, n)) /\ ~(last[t].ts = Timestamp(t, n) /\ t = "video")
    <3>1. Measure(t, n) = <<Add(t, "packets", 1)>> \o <<>>
      BY <2>3 DEF Measure
    <3>. QED
      BY <3>1, NoSteps
  <2>. QED
    BY <2>1, <2>2, <2>3
<1>4. /\ Measure(t, n) \in Seq(Step)
      /\ AddsOnly(Measure(t, n), t, n, g, {"packets"} \cup {"frames", "loss"})
  <2>1. {"packets"} \cap {"frames", "loss"} = {}
    OBVIOUS
  <2>2. /\ <<Add(t, "packets", 1)>> \o q \in Seq(Step)
        /\ AddsOnly(<<Add(t, "packets", 1)>> \o q, t, n, g, {"packets"} \cup {"frames", "loss"})
    BY <1>2, <1>3, <2>1, Joined
  <2>. QED
    BY <1>3, <2>2
<1>5. AddsOnly(Measure(t, n) \o <<Notify>>, t, n, g, ({"packets"} \cup {"frames", "loss"}) \cup {})
  BY <1>4, OneNotify, Joined
<1>6. ({"packets"} \cup {"frames", "loss"}) \cup {} = Fields
  BY DEF Fields
<1>. QED
  BY <1>5, <1>6

LEMMA BeginAdds ==
    ASSUME TypeOK, NEW t \in Tracks, NEW n \in Nat, NEW g, 1 <= g["packets"]
    PROVE  AddsOnly(Begin(t, n) \o <<Notify>>, t, n, g, Fields)
<1>1. now \in Nat
  BY ConstantTypes DEF TypeOK
<1>2. /\ <<Remember("begin", t, n)>> \in Seq(Step)
      /\ AddsOnly(<<Remember("begin", t, n)>>, t, n, g, {})
  BY <1>1, OneRemember DEF Remembers
<1>3. PICK q \in Seq(Step) : /\ Begin(t, n) = <<Remember("begin", t, n)>> \o q
                             /\ AddsOnly(q, t, n, g, Fields)
  <2>1. CASE t = "audio"
    <3>1. <<Add(t, "packets", 1)>> \in Seq(Step)
          /\ AddsOnly(<<Add(t, "packets", 1)>>, t, n, g, {"packets"})
      BY OneAdd DEF Fields
    <3>2. AddsOnly(<<Add(t, "packets", 1)>>, t, n, g, Fields)
      BY <3>1 DEF AddsOnly, Fields
    <3>3. Begin(t, n) = <<Remember("begin", t, n)>> \o <<Add(t, "packets", 1)>>
      BY <2>1 DEF Begin
    <3>. QED
      BY <3>1, <3>2, <3>3
  <2>2. CASE t # "audio"
    <3>1. Begin(t, n) = <<Remember("begin", t, n)>> \o <<>>
      BY <2>2 DEF Begin
    <3>. QED
      BY <3>1, NoSteps
  <2>. QED
    BY <2>1, <2>2
<1>4. Begin(t, n) \in Seq(Step) /\ AddsOnly(Begin(t, n), t, n, g, {} \cup Fields)
  <2>1. {} \cap Fields = {}
    OBVIOUS
  <2>2. /\ <<Remember("begin", t, n)>> \o q \in Seq(Step)
        /\ AddsOnly(<<Remember("begin", t, n)>> \o q, t, n, g, {} \cup Fields)
    BY <1>2, <1>3, <2>1, Joined
  <2>. QED
    BY <1>3, <2>2
<1>5. AddsOnly(Begin(t, n) \o <<Notify>>, t, n, g, ({} \cup Fields) \cup {})
  BY <1>4, OneNotify, Joined
<1>6. ({} \cup Fields) \cup {} = Fields
  OBVIOUS
<1>. QED
  BY <1>5, <1>6

LEMMA RemembersJoined ==
    ASSUME NEW q \in Seq(Step), NEW r \in Seq(Step), RemembersOne(q) \/ RemembersOne(r)
    PROVE  RemembersOne(q \o r)
<1>1. /\ Len(q) \in Nat /\ Len(r) \in Nat
      /\ DOMAIN q = 1..Len(q) /\ DOMAIN r = 1..Len(r) /\ DOMAIN (q \o r) = 1..(Len(q) + Len(r))
      /\ \A i \in DOMAIN q : (q \o r)[i] = q[i]
      /\ \A i \in DOMAIN r : i + Len(q) \in DOMAIN (q \o r) /\ (q \o r)[i + Len(q)] = r[i]
  BY ConcatProperties
<1>2. CASE RemembersOne(q)
  <2>1. PICK i \in DOMAIN q : q[i].op \in Remembers
    BY <1>2 DEF RemembersOne
  <2>2. i \in DOMAIN (q \o r) /\ (q \o r)[i].op \in Remembers
    BY <1>1, <2>1
  <2>. QED
    BY <2>2 DEF RemembersOne
<1>3. CASE RemembersOne(r)
  <2>1. PICK i \in DOMAIN r : r[i].op \in Remembers
    BY <1>3 DEF RemembersOne
  <2>2. i + Len(q) \in DOMAIN (q \o r) /\ (q \o r)[i + Len(q)].op \in Remembers
    BY <1>1, <2>1
  <2>. QED
    BY <2>2 DEF RemembersOne
<1>. QED
  BY <1>2, <1>3

LEMMA OneRemembers ==
    ASSUME NEW t, NEW n, NEW op \in Remembers
    PROVE  RemembersOne(<<Remember(op, t, n)>>)
<1>1. <<Remember(op, t, n)>>[1].op \in Remembers /\ 1 \in DOMAIN <<Remember(op, t, n)>>
  BY RememberFields
<1>. QED
  BY <1>1 DEF RemembersOne

LEMMA BeginRemembers ==
    ASSUME TypeOK, NEW t \in Tracks, NEW n \in Nat
    PROVE  RemembersOne(Begin(t, n) \o <<Notify>>)
<1>1. now \in Nat
  BY ConstantTypes DEF TypeOK
<1>2. <<Remember("begin", t, n)>> \in Seq(Step) /\ RemembersOne(<<Remember("begin", t, n)>>)
  BY <1>1, OneRemember, OneRemembers DEF Remembers
<1>3. PICK q \in Seq(Step) : Begin(t, n) = <<Remember("begin", t, n)>> \o q
  <2>1. <<Add(t, "packets", 1)>> \in Seq(Step) /\ <<>> \in Seq(Step)
    <3>1. Add(t, "packets", 1) \in Step
      BY AddStep DEF StepsFor, Fields
    <3>. QED
      BY <3>1, EmptySeq
  <2>. QED
    BY <2>1 DEF Begin
<1>4. /\ <<Remember("begin", t, n)>> \o q \in Seq(Step)
      /\ RemembersOne(<<Remember("begin", t, n)>> \o q)
  BY <1>2, <1>3, RemembersJoined, ConcatProperties
<1>5. Begin(t, n) \in Seq(Step) /\ RemembersOne(Begin(t, n))
  BY <1>3, <1>4
<1>6. <<Notify>> \in Seq(Step)
  BY NotifyIsStep
<1>. QED
  BY <1>5, <1>6, RemembersJoined

LEMMA MeasureRemembers ==
    ASSUME TypeOK, NEW t \in Tracks, NEW n \in 1..Len(Timestamps[t]),
           \/ last[t].ts < Timestamp(t, n)
           \/ last[t].ts = Timestamp(t, n) /\ t = "video"
    PROVE  RemembersOne(Measure(t, n) \o <<Notify>>)
<1>1. now \in Nat /\ n \in Nat
  BY ConstantTypes DEF TypeOK
<1>2. \A op \in Remembers : /\ <<Remember(op, t, n)>> \in Seq(Step)
                            /\ RemembersOne(<<Remember(op, t, n)>>)
  BY <1>1, OneRemember, OneRemembers
<1>3. /\ <<Add(t, "packets", 1)>> \in Seq(Step) /\ <<Add(t, "frames", 1)>> \in Seq(Step)
  <2>1. Add(t, "packets", 1) \in Step /\ Add(t, "frames", 1) \in Step
    BY AddStep DEF StepsFor, Fields
  <2>. QED
    BY <2>1
<1>4. Loss(t, n) \in Seq(Step)
  <2>1. Loss(t, n) \in Seq(StepsFor(t, n)) /\ StepsFor(t, n) \subseteq Step
    BY LossSteps DEF StepsFor
  <2>. QED
    BY <2>1
<1>5. PICK q \in Seq(Step) : Measure(t, n) = <<Add(t, "packets", 1)>> \o q /\ RemembersOne(q)
  <2>1. CASE last[t].ts < Timestamp(t, n)
    <3>1. <<Add(t, "frames", 1)>> \o Loss(t, n) \in Seq(Step)
      BY <1>3, <1>4, ConcatProperties
    <3>2. /\ <<Add(t, "frames", 1)>> \o Loss(t, n) \o <<Remember("turn", t, n)>> \in Seq(Step)
          /\ RemembersOne(<<Add(t, "frames", 1)>> \o Loss(t, n) \o <<Remember("turn", t, n)>>)
      BY <1>2, <3>1, RemembersJoined, ConcatProperties DEF Remembers
    <3>3. Measure(t, n) = <<Add(t, "packets", 1)>> \o
            (<<Add(t, "frames", 1)>> \o Loss(t, n) \o <<Remember("turn", t, n)>>)
      BY <2>1 DEF Measure
    <3>. QED
      BY <3>2, <3>3
  <2>2. CASE ~(last[t].ts < Timestamp(t, n)) /\ last[t].ts = Timestamp(t, n) /\ t = "video"
    <3>1. /\ Loss(t, n) \o <<Remember("move", t, n)>> \in Seq(Step)
          /\ RemembersOne(Loss(t, n) \o <<Remember("move", t, n)>>)
      BY <1>2, <1>4, RemembersJoined, ConcatProperties DEF Remembers
    <3>2. Measure(t, n) = <<Add(t, "packets", 1)>> \o (Loss(t, n) \o <<Remember("move", t, n)>>)
      BY <2>2 DEF Measure
    <3>. QED
      BY <3>1, <3>2
  <2>. QED
    BY <2>1, <2>2
<1>6. /\ <<Add(t, "packets", 1)>> \o q \in Seq(Step)
      /\ RemembersOne(<<Add(t, "packets", 1)>> \o q)
  BY <1>3, <1>5, RemembersJoined, ConcatProperties
<1>7. Measure(t, n) \in Seq(Step) /\ RemembersOne(Measure(t, n))
  BY <1>5, <1>6
<1>8. <<Notify>> \in Seq(Step)
  BY NotifyIsStep
<1>. QED
  BY <1>7, <1>8, RemembersJoined

(* A late packet leaves only its arrival to be counted.                      *)
LEMMA LateRemembersNone ==
    ASSUME TypeOK, NEW t \in Tracks, NEW n,
           ~(last[t].ts < Timestamp(t, n)), last[t].ts # Timestamp(t, n)
    PROVE  ~RemembersOne(Measure(t, n) \o <<Notify>>)
<1>1. Measure(t, n) = <<Add(t, "packets", 1)>> \o <<>>
  BY DEF Measure
<1>2. <<Add(t, "packets", 1)>> \in Seq(Step)
  <2>1. Add(t, "packets", 1) \in Step
    BY AddStep DEF StepsFor, Fields
  <2>. QED
    BY <2>1
<1>3. Measure(t, n) = <<Add(t, "packets", 1)>>
  BY <1>1, <1>2, ConcatEmptySeq
<1>4. LET q == <<Add(t, "packets", 1)>> \o <<Notify>> IN
      DOMAIN q = 1..2 /\ q[1] = Add(t, "packets", 1) /\ q[2] = Notify
  OBVIOUS
<1>5. Add(t, "packets", 1).op \notin Remembers /\ Notify.op \notin Remembers
  BY AddFields, NotifyIsStep DEF Remembers
<1>. QED
  BY <1>3, <1>4, <1>5 DEF RemembersOne

----------------------------------------------------------------------------
(* The latest packet.                                                        *)

LEMMA LatestUnchanged ==
    ASSUME LatestInv, UNCHANGED <<started, delivered, missed, wire, todo, last>>
    PROVE  LatestInv'
  BY DEF LatestInv, IsLatest, Remembering

LEMMA LatestOfOther ==
    ASSUME NEW u \in Tracks, Idle, wire'[u] = wire[u], last'[u] = last[u],
           delivered'[u] = delivered[u], missed'[u] = missed[u],
           \A i \in DOMAIN todo' : todo'[i].op \in Remembers => todo'[i].track # u
    PROVE  \A p \in delivered[u] : IsLatest(u, p) => IsLatest(u, p)'
<1>1. DOMAIN todo = {}
  BY DEF Idle
<1>. QED
  BY <1>1 DEF IsLatest, Remembering, Remembers

(* What is there of a packet that is measured.                               *)
LEMMA InHand ==
    ASSUME TypeOK, NEW t \in Tracks, RecvRtp(t)
    PROVE  \E n \in wire[t] :
             /\ n \in 1..next[t] /\ n \in 1..Len(Timestamps[t]) /\ n \in Nat
             /\ Deliverable(t, n)
             /\ wire'[t] \subseteq wire[t]
             /\ \A u \in Tracks : u # t => wire'[u] = wire[u]
             /\ TrackStarts(t, n) \/ TrackWaits(t, n) \/ TrackMeasured(t, n)
<1>1. PICK n \in wire[t] : /\ Deliverable(t, n) /\ TakeOff(t, n)
                           /\ TrackStarts(t, n) \/ TrackWaits(t, n) \/ TrackMeasured(t, n)
  BY DEF RecvRtp
<1>2. /\ wire \in [Tracks -> SUBSET Nat] /\ wire[t] \subseteq 1..next[t]
      /\ next[t] \in 0..Len(Timestamps[t]) /\ Len(Timestamps[t]) \in Nat
  BY ConstantTypes DEF TypeOK, PacketsOK
<1>3. n \in 1..next[t] /\ n \in 1..Len(Timestamps[t]) /\ n \in Nat
  BY <1>1, <1>2
<1>4. /\ wire'[t] \subseteq wire[t]
      /\ \A u \in Tracks : u # t => wire'[u] = wire[u]
  BY <1>1, <1>2 DEF TakeOff
<1>. QED
  BY <1>1, <1>3, <1>4

(* The latest packet of a track that is measured, and one that arrives.      *)
LEMMA Latest ==
    ASSUME TypeOK, LatestInv, Idle, NEW t \in Tracks, started[t]
    PROVE  \E p \in delivered[t] :
             /\ p \in 1..next[t] /\ p \in 1..Len(Timestamps[t]) /\ p \in Nat
             /\ IsLatest(t, p)
             /\ \A d \in delivered[t] \cup missed[t] : d <= p
             /\ \A m \in wire[t] : m < p => Timestamp(t, m) # Timestamp(t, p)
             /\ last[t].seq = Sequence(t, p) /\ last[t].ts = Timestamp(t, p)
<1>1. PICK p \in delivered[t] : IsLatest(t, p)
  BY DEF LatestInv
<1>2. /\ delivered[t] \subseteq 1..next[t]
      /\ next[t] \in 0..Len(Timestamps[t]) /\ Len(Timestamps[t]) \in Nat
  BY ConstantTypes DEF TypeOK, PacketsOK
<1>3. Remembering(t) = {}
  BY DEF Remembering, Idle
<1>4. last[t] = [seq |-> Sequence(t, p), ts |-> Timestamp(t, p)]
  BY <1>1, <1>3 DEF IsLatest
<1>5. p \in 1..next[t] /\ p \in 1..Len(Timestamps[t]) /\ p \in Nat
  BY <1>2
<1>. QED
  BY <1>1, <1>4, <1>5 DEF IsLatest

(* What measuring packet n adds is what the truth grows by.                  *)
Grows(t, g) ==
    \A f \in Fields : Truth(t)[f] + g[f] <= Truth(t)'[f]

LEMMA TruthType ==
    ASSUME TypeOK, NEW t \in Tracks, NEW f \in Fields
    PROVE  Truth(t)[f] \in Nat
  BY TruthFields, HistoryFinite DEF Fields

LEMMA TruthTypeNext ==
    TypeOK' => (\A t \in Tracks, f \in Fields : Truth(t)[f] \in Nat)'
<1>1. TypeOK => \A t \in Tracks, f \in Fields : Truth(t)[f] \in Nat
  BY TruthType
<1>. QED
  BY <1>1, PTL

LEMMA TypedGain ==
    ASSUME NEW a \in Nat, NEW b \in Nat, NEW c \in Nat
    PROVE  /\ [packets |-> a, frames |-> b, loss |-> c] \in Counters
           /\ [packets |-> a, frames |-> b, loss |-> c]["packets"] = a
           /\ [packets |-> a, frames |-> b, loss |-> c]["frames"] = b
           /\ [packets |-> a, frames |-> b, loss |-> c]["loss"] = c
  BY DEF Counters

LEMMA OrderedPackets ==
    ASSUME Ordered, NEW t \in Tracks,
           NEW m \in 1..Len(Timestamps[t]), NEW n \in 1..Len(Timestamps[t]), m < n
    PROVE  /\ Timestamp(t, m) \in Nat /\ Timestamp(t, n) \in Nat
           /\ Timestamp(t, m) <= Timestamp(t, n)
           /\ t = "audio" => Timestamp(t, m) # Timestamp(t, n)
<1>1. DOMAIN Timestamps[t] = 1..Len(Timestamps[t])
  BY ConstantTypes
<1>. QED
  BY <1>1, PacketTypes DEF Ordered

LEMMA MeasureGrows ==
    ASSUME Ordered, TypeOK, LatestInv, Idle, NEW t \in Tracks,
           NEW n \in wire[t], n \in 1..next[t], n \in 1..Len(Timestamps[t]), TrackMeasured(t, n)
    PROVE  \E g \in Counters : AddsOnly(todo', t, n, g, Fields) /\ Grows(t, g)
<1>1. started[t] /\ RecordArrival(t, n) /\ todo' = Measure(t, n) \o <<Notify>>
  BY DEF TrackMeasured
<1>2. PICK p \in delivered[t] :
             /\ p \in 1..next[t] /\ p \in 1..Len(Timestamps[t]) /\ p \in Nat
             /\ \A d \in delivered[t] \cup missed[t] : d <= p
             /\ \A m \in wire[t] : m < p => Timestamp(t, m) # Timestamp(t, p)
             /\ last[t].seq = Sequence(t, p) /\ last[t].ts = Timestamp(t, p)
  BY <1>1, Latest
<1>3. n \in Nat /\ Timestamp(t, n) \in Nat /\ Timestamp(t, p) \in Nat
  <2>1. Len(Timestamps[t]) \in Nat
    BY ConstantTypes
  <2>. QED
    BY <1>2, <2>1, PacketTypes
<1>. DEFINE b == IF Timestamp(t, p) < Timestamp(t, n) THEN 1 ELSE 0
            c == IF p < n THEN n - p - 1 ELSE 0
            g == [packets |-> 1, frames |-> b, loss |-> c]
<1>4. b \in Nat /\ c \in Nat
  BY <1>2, <1>3
<1>5. g \in Counters /\ g["packets"] = 1 /\ g["frames"] = b /\ g["loss"] = c
  BY <1>4, TypedGain
<1>6. n < p => Timestamp(t, n) < Timestamp(t, p)
  BY <1>2, <1>3, OrderedPackets
<1>7. ASSUME Unwrapped(t, n) > last[t].seq + 1,
             last[t].ts < Timestamp(t, n) \/ last[t].ts = Timestamp(t, n)
      PROVE  Unwrapped(t, n) - (last[t].seq + 1) <= c
  <2>1. p <= n
    BY <1>2, <1>3, <1>6, <1>7
  <2>2. Unwrapped(t, n) - (last[t].seq + 1) <= n - p - 1
    BY <1>2, <1>3, <2>1, LossBound
  <2>3. last[t].seq \in Int /\ Unwrapped(t, n) \in Int
    <3>1. Sequence(t, n) \in Int /\ Sequence(t, p) \in Int /\ SeqMod \in Int
      BY <1>2, PacketTypes, ConstantTypes
    <3>. QED
      BY <1>2, <3>1 DEF Unwrapped
  <2>. QED
    BY <1>2, <1>3, <1>7, <2>1, <2>2, <2>3
<1>8. AddsOnly(todo', t, n, g, Fields)
  <2>1. last[t].ts < Timestamp(t, n) => 1 <= g["frames"]
    BY <1>2, <1>5
  <2>. HIDE DEF g, c, b
  <2>. QED
    BY <1>1, <1>5, <1>7, <2>1, MeasureAdds
<1>9. Truth(t)["packets"] + 1 <= Truth(t)'["packets"]
  BY <1>1, TruthGrows, TruthType DEF Fields
<1>10. Truth(t)["frames"] + b <= Truth(t)'["frames"]
  <2>1. CASE Timestamp(t, p) < Timestamp(t, n)
    <3>1. ASSUME NEW d \in delivered[t]
          PROVE  Timestamp(t, d) # Timestamp(t, n)
      <4>1. d \in 1..Len(Timestamps[t]) /\ d \in Nat
        BY ConstantTypes DEF TypeOK, PacketsOK
      <4>2. d <= p
        BY <1>2
      <4>3. Timestamp(t, d) <= Timestamp(t, p) /\ Timestamp(t, d) \in Nat
        <5>1. CASE d = p
          BY <1>3, <5>1
        <5>2. CASE d < p
          BY <1>2, <4>1, <5>2, OrderedPackets
        <5>. QED
          BY <1>2, <4>1, <4>2, <5>1, <5>2
      <4>. QED
        BY <1>3, <2>1, <4>3
    <3>2. Truth(t)'["frames"] = Truth(t)["frames"] + 1
      BY <1>1, <3>1, FrameSeen
    <3>3. Truth(t)["frames"] \in Nat
      BY TruthType DEF Fields
    <3>. QED
      BY <2>1, <3>2, <3>3
  <2>2. CASE ~(Timestamp(t, p) < Timestamp(t, n))
    <3>1. Truth(t)["frames"] \in Nat
      BY TruthType DEF Fields
    <3>. QED
      BY <1>1, <2>2, <3>1, TruthGrows
  <2>. QED
    BY <2>1, <2>2
<1>11. Truth(t)["loss"] + c <= Truth(t)'["loss"]
  <2>1. CASE p < n
    BY <1>1, <1>2, <2>1, LossSeen
  <2>2. CASE ~(p < n)
    <3>1. Truth(t)["loss"] \in Nat
      BY TruthType DEF Fields
    <3>. QED
      BY <1>1, <2>2, <3>1, TruthGrows
  <2>. QED
    BY <2>1, <2>2
<1>12. Grows(t, g)
  <2>. HIDE DEF g, b, c
  <2>. QED
    BY <1>5, <1>9, <1>10, <1>11 DEF Grows, Fields
<1>. QED
  BY <1>5, <1>8, <1>12

LEMMA StartGrows ==
    ASSUME TypeOK, NEW t \in Tracks, NEW n \in 1..next[t], TrackStarts(t, n)
    PROVE  \E g \in Counters : AddsOnly(todo', t, n, g, Fields) /\ Grows(t, g)
<1>. DEFINE g == [packets |-> 1, frames |-> 0, loss |-> 0]
<1>1. g \in Counters /\ g["packets"] = 1 /\ g["frames"] = 0 /\ g["loss"] = 0
  BY TypedGain
<1>2. RecordArrival(t, n) /\ todo' = Begin(t, n) \o <<Notify>>
  BY DEF TrackStarts
<1>. HIDE DEF g
<1>3. AddsOnly(todo', t, n, g, Fields)
  BY <1>1, <1>2, BeginAdds
<1>4. \A f \in Fields : Truth(t)[f] \in Nat
  BY TruthType
<1>5. Grows(t, g)
  BY <1>1, <1>2, <1>4, TruthGrows DEF Grows, Fields
<1>. QED
  BY <1>1, <1>3, <1>5

LEMMA LatestReceived ==
    ASSUME Ordered, FramesKeepOrder, TypeOK, LatestInv, Idle, NEW t \in Tracks, RecvRtp(t)
    PROVE  LatestInv'
<1>1. PICK n \in wire[t] :
             /\ n \in 1..next[t] /\ n \in 1..Len(Timestamps[t]) /\ n \in Nat
             /\ Deliverable(t, n)
             /\ wire'[t] \subseteq wire[t]
             /\ \A u \in Tracks : u # t => wire'[u] = wire[u]
             /\ TrackStarts(t, n) \/ TrackWaits(t, n) \/ TrackMeasured(t, n)
  BY InHand
<1>2. /\ started \in [Tracks -> BOOLEAN] /\ wire \in [Tracks -> SUBSET Nat]
      /\ \A u \in Tracks : delivered[u] \subseteq Nat /\ missed[u] \subseteq Nat
      /\ DOMAIN last = Tracks
  BY DEF TypeOK, PacketsOK
<1>3. \A u \in Tracks : u # t => started'[u] = started[u] /\ last'[u] = last[u]
  BY <1>1, <1>2 DEF TrackStarts, TrackWaits, TrackMeasured
<1>4. \A u \in Tracks : u # t => delivered'[u] = delivered[u] /\ missed'[u] = missed[u]
  BY <1>1, Recorded DEF TrackStarts, TrackWaits, TrackMeasured
<1>5. \A i \in DOMAIN todo' : todo'[i].op \in Remembers => todo'[i].track = t /\ todo'[i].packet = n
  <2>1. CASE TrackStarts(t, n)
    BY <1>1, <2>1, StartGrows DEF AddsOnly
  <2>2. CASE TrackWaits(t, n)
    <3>1. todo' = <<Notify>> /\ Notify.op \notin Remembers
      BY <2>2, NotifyIsStep DEF TrackWaits, Remembers
    <3>. QED
      BY <3>1
  <2>3. CASE TrackMeasured(t, n)
    BY <1>1, <2>3, MeasureGrows DEF AddsOnly
  <2>. QED
    BY <1>1, <2>1, <2>2, <2>3
<1>6. ASSUME NEW u \in Tracks, u # t
      PROVE  IF started'[u] THEN \E p \in delivered'[u] : IsLatest(u, p)'
             ELSE delivered'[u] = {} /\ missed'[u] = {}
  <2>1. \A p \in delivered[u] : IsLatest(u, p) => IsLatest(u, p)'
    BY <1>1, <1>3, <1>4, <1>5, <1>6, LatestOfOther
  <2>2. started'[u] = started[u] /\ delivered'[u] = delivered[u] /\ missed'[u] = missed[u]
    BY <1>3, <1>4, <1>6
  <2>. QED
    BY <2>1, <2>2 DEF LatestInv
<1>7. CASE TrackStarts(t, n)
  <2>1. delivered'[t] = {n} /\ missed'[t] = {}
    <3>1. ~started[t] /\ RecordArrival(t, n)
      BY <1>7 DEF TrackStarts, Starts
    <3>2. delivered[t] = {} /\ missed[t] = {}
      BY <3>1 DEF LatestInv
    <3>3. Gap(t, n) = {}
      BY <3>2 DEF Gap
    <3>. QED
      BY <1>1, <3>1, <3>2, <3>3, Recorded
  <2>2. started'[t]
    BY <1>2, <1>7 DEF TrackStarts
  <2>3. Remembering(t)' # {}
    <3>1. todo' = Begin(t, n) \o <<Notify>>
      BY <1>7 DEF TrackStarts
    <3>2. PICK i \in DOMAIN todo' : todo'[i].op \in Remembers
      BY <1>1, <3>1, BeginRemembers DEF RemembersOne
    <3>. QED
      BY <1>5, <3>2 DEF Remembering, Remembers
  <2>4. \A m \in wire'[t] : m < n => Timestamp(t, m) # Timestamp(t, n)
    BY <1>1 DEF Deliverable
  <2>5. IsLatest(t, n)'
    BY <1>1, <1>5, <2>1, <2>3, <2>4 DEF IsLatest, Remembering, Remembers
  <2>. QED
    BY <1>6, <2>1, <2>2, <2>5 DEF LatestInv
<1>8. CASE TrackWaits(t, n)
  <2>1. ~started[t] /\ ~started'[t] /\ delivered'[t] = delivered[t] /\ missed'[t] = missed[t]
    BY <1>8 DEF TrackWaits
  <2>. QED
    BY <1>6, <2>1 DEF LatestInv
<1>9. CASE TrackMeasured(t, n)
  <2>1. started[t] /\ started'[t] /\ last' = last /\ RecordArrival(t, n)
        /\ todo' = Measure(t, n) \o <<Notify>>
    BY <1>9 DEF TrackMeasured
  <2>2. PICK p \in delivered[t] :
             /\ p \in 1..next[t] /\ p \in 1..Len(Timestamps[t]) /\ p \in Nat
             /\ IsLatest(t, p)
             /\ \A d \in delivered[t] \cup missed[t] : d <= p
             /\ \A m \in wire[t] : m < p => Timestamp(t, m) # Timestamp(t, p)
             /\ last[t].seq = Sequence(t, p) /\ last[t].ts = Timestamp(t, p)
    BY <2>1, Latest
  <2>3. last[t] = [seq |-> Sequence(t, p), ts |-> Timestamp(t, p)]
    <3>1. DOMAIN last[t] = {"seq", "ts"}
      BY DEF TypeOK
    <3>2. Remembering(t) = {}
      BY DEF Remembering, Idle
    <3>. QED
      BY <2>2, <3>2 DEF IsLatest
  <2>4. delivered'[t] = delivered[t] \cup {n} /\ missed'[t] = missed[t] \cup Gap(t, n)
    BY <1>1, <2>1, Recorded
  <2>5. \A m \in Gap(t, n) : m \in Nat /\ m < n
    BY <1>1 DEF Gap
  <2>6. CASE n <= p
    <3>1. \A d \in delivered'[t] \cup missed'[t] : d <= p
      BY <1>1, <2>2, <2>4, <2>5, <2>6
    <3>2. \A m \in wire'[t] : m < p => Timestamp(t, m) # Timestamp(t, p)
      BY <1>1, <2>2
    <3>3. \A i \in Remembering(t)' : todo'[i].packet = p
      <4>1. CASE n = p
        BY <1>5, <4>1 DEF Remembering, Remembers
      <4>2. CASE n < p
        <5>1. Timestamp(t, n) < last[t].ts /\ Timestamp(t, n) \in Nat /\ last[t].ts \in Nat
          BY <1>1, <2>2, <4>2, OrderedPackets
        <5>2. ~RemembersOne(todo')
          BY <2>1, <5>1, LateRemembersNone
        <5>. QED
          BY <5>2 DEF RemembersOne, Remembering, Remembers
      <4>. QED
        BY <1>1, <2>2, <2>6, <4>1, <4>2
    <3>4. IsLatest(t, p)'
      BY <2>1, <2>3, <3>1, <3>2, <3>3 DEF IsLatest
    <3>. QED
      BY <1>6, <2>1, <2>4, <3>4 DEF LatestInv
  <2>7. CASE p < n
    <3>1. \A d \in delivered'[t] \cup missed'[t] : d <= n
      BY <1>1, <1>2, <2>2, <2>4, <2>5, <2>7
    <3>2. \A m \in wire'[t] : m < n => Timestamp(t, m) # Timestamp(t, n)
      BY <1>1 DEF Deliverable
    <3>3. Remembering(t)' # {}
      <4>1. /\ Timestamp(t, p) <= Timestamp(t, n)
            /\ Timestamp(t, p) \in Nat /\ Timestamp(t, n) \in Nat
            /\ t = "audio" => Timestamp(t, p) # Timestamp(t, n)
        BY <1>1, <2>2, <2>7, OrderedPackets
      <4>2. \/ last[t].ts < Timestamp(t, n)
            \/ last[t].ts = Timestamp(t, n) /\ t = "video"
        BY <2>2, <4>1 DEF Tracks
      <4>3. RemembersOne(todo')
        BY <1>1, <2>1, <4>2, MeasureRemembers
      <4>. QED
        BY <1>5, <4>3 DEF RemembersOne, Remembering, Remembers
    <3>4. IsLatest(t, n)'
      BY <1>5, <3>1, <3>2, <3>3 DEF IsLatest, Remembering, Remembers
    <3>. QED
      BY <1>6, <2>1, <2>4, <3>4 DEF LatestInv
  <2>. QED
    BY <1>1, <2>2, <2>6, <2>7
<1>. QED
  BY <1>1, <1>7, <1>8, <1>9

(* The steps left are those that were left without the first.                *)
LEMMA TailOfSteps ==
    ASSUME todo \in Seq(Step), ~Idle, Done
    PROVE  /\ Head(todo) = todo[1] /\ 1 \in DOMAIN todo /\ Head(todo) \in Step
           /\ \A i \in DOMAIN todo' : i + 1 \in DOMAIN todo /\ todo'[i] = todo[i + 1] /\ i \in Nat \ {0}
           /\ \A i \in DOMAIN todo : i # 1 => i - 1 \in DOMAIN todo' /\ todo'[i - 1] = todo[i]
<1>1. /\ todo # <<>> /\ Head(todo) = todo[1] /\ Head(todo) \in Step
      /\ todo' \in Seq(Step) /\ Len(todo') = Len(todo) - 1
      /\ \A i \in 1..Len(todo') : todo'[i] = todo[i + 1]
      /\ Len(todo) \in Nat \ {0}
  BY HeadTailProperties, EmptySeq DEF Idle, Done
<1>2. DOMAIN todo = 1..Len(todo) /\ DOMAIN todo' = 1..Len(todo')
  BY <1>1
<1>. QED
  BY <1>1, <1>2

LEMMA LatestOnTheWay ==
    ASSUME TypeOK, LatestInv, ~Idle, Done, UNCHANGED <<started, delivered, missed, wire>>,
           \/ Head(todo).op \notin Remembers /\ last' = last
           \/ /\ Head(todo).op \in Remembers
              /\ last' = [last EXCEPT ![Head(todo).track] = LastOf(Head(todo))]
    PROVE  LatestInv'
<1>. DEFINE s == Head(todo)
<1>1. /\ s = todo[1] /\ 1 \in DOMAIN todo /\ s \in Step
      /\ \A i \in DOMAIN todo' : i + 1 \in DOMAIN todo /\ todo'[i] = todo[i + 1]
      /\ \A i \in DOMAIN todo : i # 1 => i - 1 \in DOMAIN todo' /\ todo'[i - 1] = todo[i]
  BY TailOfSteps DEF TypeOK
<1>2. DOMAIN last = Tracks
  BY DEF TypeOK
<1>. HIDE DEF s
<1>3. ASSUME NEW t \in Tracks, NEW p \in delivered[t], IsLatest(t, p)
      PROVE  IsLatest(t, p)'
  <2>1. \A i \in Remembering(t)' : todo'[i].packet = p
    BY <1>1, <1>3 DEF IsLatest, Remembering
  <2>2. ASSUME Remembering(t)' = {}
        PROVE  last'[t] = [seq |-> Sequence(t, p), ts |-> Timestamp(t, p)]
    <3>1. Remembering(t) \subseteq {1}
      BY <1>1, <2>2 DEF Remembering
    <3>2. CASE s.op \in Remembers /\ s.track = t
      <4>1. 1 \in Remembering(t)
        BY <1>1, <3>2 DEF Remembering, Remembers
      <4>2. s.packet = p
        BY <1>1, <1>3, <4>1 DEF IsLatest
      <4>3. last'[t] = LastOf(s)
        BY <1>2, <3>2 DEF s
      <4>. QED
        BY <3>2, <4>2, <4>3 DEF LastOf
    <3>3. CASE ~(s.op \in Remembers /\ s.track = t)
      <4>1. Remembering(t) = {}
        BY <1>1, <3>1, <3>3 DEF Remembering, Remembers
      <4>2. last[t] = [seq |-> Sequence(t, p), ts |-> Timestamp(t, p)]
        BY <1>3, <4>1 DEF IsLatest
      <4>3. last'[t] = last[t]
        BY <1>2, <3>3 DEF s
      <4>. QED
        BY <4>2, <4>3
    <3>. QED
      BY <3>2, <3>3
  <2>. QED
    BY <1>3, <2>1, <2>2 DEF IsLatest
<1>. QED
  BY <1>3 DEF LatestInv

LEMMA LatestSent ==
    ASSUME TypeOK, LatestInv, NEW t \in Tracks, ServerSend(t)
    PROVE  LatestInv'
<1>1. /\ next \in [Tracks -> Nat] /\ wire \in [Tracks -> SUBSET Nat]
      /\ \A u \in Tracks : delivered[u] \subseteq 1..next[u]
  BY DEF TypeOK, PacketsOK
<1>2. \A u \in Tracks : \A m \in wire'[u] : m \in wire[u] \/ m = next[u] + 1
  <2>1. next' = [next EXCEPT ![t] = next[t] + 1]
    BY DEF ServerSend
  <2>2. next'[t] = next[t] + 1
    BY <1>1, <2>1
  <2>3. wire' = wire \/ wire' = [wire EXCEPT ![t] = wire[t] \cup {next[t] + 1}]
    BY <2>2 DEF ServerSend
  <2>. QED
    BY <1>1, <2>3
<1>3. UNCHANGED <<started, delivered, missed, todo, last>>
  BY DEF ServerSend
<1>4. ASSUME NEW u \in Tracks, NEW p \in delivered[u], IsLatest(u, p)
      PROVE  IsLatest(u, p)'
  <2>1. p \in Nat /\ p <= next[u] /\ next[u] \in Nat
    BY <1>1
  <2>2. \A m \in wire'[u] : m < p => Timestamp(u, m) # Timestamp(u, p)
    BY <1>2, <1>4, <2>1 DEF IsLatest
  <2>. QED
    BY <1>3, <1>4, <2>2 DEF IsLatest, Remembering
<1>. QED
  BY <1>3, <1>4 DEF LatestInv

LEMMA LatestStep ==
    ASSUME Ordered, FramesKeepOrder, TypeOK, LatestInv, [Next]_vars
    PROVE  LatestInv'
<1>1. CASE Tick \/ GetTrafficCollectData \/ RecvBindingRequest \/ LoadCounter \/ UNCHANGED vars
  <2>1. UNCHANGED <<started, delivered, missed, wire, todo, last>>
    BY <1>1 DEF Tick, GetTrafficCollectData, CollectStart, CollectCopy, CollectAdvance,
                CollectClear, RecvBindingRequest, LoadCounter, vars
  <2>. QED
    BY <2>1, LatestUnchanged
<1>2. CASE Network
  BY <1>2, LatestSent DEF Network
<1>3. ASSUME NEW t \in Tracks, RecvRtp(t)
      PROVE  LatestInv'
  <2>1. Idle
    BY <1>3 DEF RecvRtp
  <2>. QED
    BY <1>3, <2>1, LatestReceived
<1>4. CASE StoreStart \/ StoreLast
  <2>1. /\ ~Idle /\ Done /\ UNCHANGED <<started, delivered, missed, wire>>
        /\ Head(todo).op \in Remembers
        /\ last' = [last EXCEPT ![Head(todo).track] = LastOf(Head(todo))]
    BY <1>4 DEF StoreStart, StoreLast, Doing, Remembers
  <2>. QED
    BY <2>1, LatestOnTheWay
<1>5. CASE StoreCounter \/ NotifyStart
  <2>1. /\ ~Idle /\ Done /\ UNCHANGED <<started, delivered, missed, wire, last>>
        /\ Head(todo).op \notin Remembers
    BY <1>5 DEF StoreCounter, NotifyStart, Doing, Remembers
  <2>. QED
    BY <2>1, LatestOnTheWay
<1>. QED
  BY <1>1, <1>2, <1>3, <1>4, <1>5 DEF Next, OnDataReceived

----------------------------------------------------------------------------
(* The counters.                                                             *)

LEMMA CounterTypes ==
    ASSUME TypeOK, NEW t \in Tracks, NEW f \in Fields
    PROVE  data[t][f] \in Nat /\ reports[t][f] \in Nat /\ Truth(t)[f] \in Nat
<1>1. data[t] \in Counters /\ reports[t] \in Counters
  BY DEF TypeOK
<1>. QED
  BY <1>1, CounterRead, TruthType

LEMMA StepsTyped ==
    ASSUME TypeOK, NEW i \in DOMAIN todo, todo[i].op = "add"
    PROVE  todo[i].track \in Tracks /\ todo[i].field \in Fields /\ todo[i].by \in Nat
<1>1. todo[i] \in Step
  BY DEF TypeOK
<1>. QED
  BY <1>1, StepTypes

LEMMA TruthUnchanged ==
    ASSUME UNCHANGED history, NEW t \in Tracks
    PROVE  Truth(t)' = Truth(t)
  BY DEF Truth, history

LEMMA CountersUnchanged ==
    ASSUME CountersInv, UNCHANGED <<data, reports, todo, loaded, history>>
    PROVE  CountersInv'
<1>1. \A t \in Tracks : Truth(t)' = Truth(t)
  BY TruthUnchanged
<1>. QED
  BY <1>1 DEF CountersInv, Doing, Idle

(* The timer thread copies and clears.                                       *)
LEMMA CountersCollected ==
    ASSUME TypeOK, CountersInv, GetTrafficCollectData
    PROVE  CountersInv'
<1>. USE FieldsOfCounters
<1>1. UNCHANGED <<todo, loaded, history>>
  BY DEF GetTrafficCollectData, CollectStart, CollectCopy, CollectAdvance, CollectClear
<1>2. \A t \in Tracks : Truth(t)' = Truth(t)
  BY <1>1, TruthUnchanged
<1>3. \A t \in Tracks, f \in Fields :
         data'[t][f] <= data[t][f] /\ data'[t][f] \in Nat
  <2>1. CASE data' = data
    BY <2>1, CounterTypes
  <2>2. ASSUME NEW u \in Tracks, data' = [data EXCEPT ![u] = Cleared]
        PROVE  \A t \in Tracks, f \in Fields : data'[t][f] <= data[t][f] /\ data'[t][f] \in Nat
    <3>1. \A f \in Fields : Cleared[f] = 0
      BY DEF Cleared, Fields
    <3>2. DOMAIN data = Tracks
      BY DEF TypeOK
    <3>3. \A t \in Tracks : data'[t] = IF t = u THEN Cleared ELSE data[t]
      BY <2>2, <3>2
    <3>. QED
      BY <3>1, <3>3, CounterTypes
  <2>. QED
    BY <2>1, <2>2 DEF GetTrafficCollectData, CollectStart, CollectCopy, CollectAdvance, CollectClear
<1>4. reports' = reports \/ reports' = data
  BY DEF GetTrafficCollectData, CollectStart, CollectCopy, CollectAdvance, CollectClear
<1>5. ASSUME NEW t \in Tracks, NEW f \in Fields
      PROVE  data'[t][f] <= Truth(t)'[f] /\ reports'[t][f] <= Truth(t)'[f]
  BY <1>2, <1>3, <1>4, CounterTypes DEF CountersInv
<1>6. ASSUME NEW i \in DOMAIN todo, NEW t \in Tracks, NEW f \in Fields,
             todo[i].op = "add", todo[i].track = t, todo[i].field = f
      PROVE  /\ data'[t][f] + todo[i].by <= Truth(t)'[f]
             /\ loaded # NotLoaded /\ i = 1 => loaded + todo[i].by <= Truth(t)'[f]
             /\ \A j \in DOMAIN todo : todo[j].op = "add" /\ todo[j].field = f => j = i
  <2>1. /\ data[t][f] + todo[i].by <= Truth(t)[f]
        /\ loaded # NotLoaded /\ i = 1 => loaded + todo[i].by <= Truth(t)[f]
        /\ \A j \in DOMAIN todo : todo[j].op = "add" /\ todo[j].field = f => j = i
    BY <1>6 DEF CountersInv
  <2>2. todo[i].by \in Nat
    BY <1>6, StepsTyped
  <2>3. data'[t][f] + todo[i].by <= Truth(t)[f]
    BY <1>3, <2>1, <2>2, CounterTypes
  <2>. QED
    BY <1>2, <2>1, <2>3
<1>7. loaded # NotLoaded => Doing("add")
  BY DEF CountersInv
<1>. QED
  BY <1>1, <1>5, <1>6, <1>7 DEF CountersInv, Doing, Idle

(* The io_service thread reads the counter it is about to increase.          *)
LEMMA CountersLoaded ==
    ASSUME TypeOK, CountersInv, LoadCounter
    PROVE  CountersInv'
<1>. USE FieldsOfCounters
<1>1. /\ UNCHANGED <<data, reports, todo, history>>
      /\ Doing("add") /\ loaded' = data[todo[1].track][todo[1].field]
  BY DEF LoadCounter, collecting, Doing, Idle
<1>2. \A t \in Tracks : Truth(t)' = Truth(t)
  BY <1>1, TruthUnchanged
<1>3. ASSUME NEW i \in DOMAIN todo, NEW t \in Tracks, NEW f \in Fields,
             todo[i].op = "add", todo[i].track = t, todo[i].field = f, i = 1
      PROVE  loaded' + todo[i].by <= Truth(t)[f]
  BY <1>1, <1>3 DEF CountersInv
<1>. QED
  BY <1>1, <1>2, <1>3 DEF CountersInv, Doing, Idle

(* A step is over: what is left of the packet is what was left behind it.    *)
LEMMA CountersOnTheWay ==
    ASSUME TypeOK, CountersInv, ~Idle, Done, loaded' = NotLoaded,
           UNCHANGED <<reports, history>>,
           \A t \in Tracks, f \in Fields : data'[t][f] <= Truth(t)[f],
           \A t \in Tracks, f \in Fields :
              data'[t][f] = data[t][f] \/ (Head(todo).op = "add" /\ Head(todo).field = f)
    PROVE  CountersInv'
<1>. USE FieldsOfCounters
<1>1. /\ Head(todo) = todo[1] /\ 1 \in DOMAIN todo
      /\ \A i \in DOMAIN todo' : i + 1 \in DOMAIN todo /\ todo'[i] = todo[i + 1] /\ i \in Nat \ {0}
  BY TailOfSteps DEF TypeOK
<1>2. \A t \in Tracks : Truth(t)' = Truth(t)
  BY TruthUnchanged
<1>3. ASSUME NEW i \in DOMAIN todo', NEW t \in Tracks, NEW f \in Fields,
             todo'[i].op = "add", todo'[i].track = t, todo'[i].field = f
      PROVE  /\ data'[t][f] + todo'[i].by <= Truth(t)[f]
             /\ \A j \in DOMAIN todo' : todo'[j].op = "add" /\ todo'[j].field = f => j = i
  <2>1. /\ i + 1 \in DOMAIN todo /\ todo'[i] = todo[i + 1] /\ i \in Nat \ {0}
        /\ todo[i + 1].op = "add" /\ todo[i + 1].track = t /\ todo[i + 1].field = f
    BY <1>1, <1>3
  <2>2. /\ data[t][f] + todo[i + 1].by <= Truth(t)[f]
        /\ \A j \in DOMAIN todo : todo[j].op = "add" /\ todo[j].field = f => j = i + 1
    BY <2>1 DEF CountersInv
  <2>3. i + 1 # 1
    BY <2>1
  <2>4. ~(Head(todo).op = "add" /\ Head(todo).field = f)
    BY <1>1, <2>2, <2>3
  <2>5. data'[t][f] = data[t][f]
    BY <2>4
  <2>6. ASSUME NEW j \in DOMAIN todo', todo'[j].op = "add", todo'[j].field = f
        PROVE  j = i
    <3>1. j + 1 \in DOMAIN todo /\ todo'[j] = todo[j + 1] /\ j \in Nat
      BY <1>1
    <3>2. j + 1 = i + 1
      BY <2>2, <2>6, <3>1
    <3>. QED
      BY <2>1, <3>1, <3>2
  <2>. QED
    BY <2>1, <2>2, <2>5, <2>6
<1>4. \A t \in Tracks, f \in Fields : reports'[t][f] <= Truth(t)[f]
  BY DEF CountersInv
<1>. QED
  BY <1>2, <1>3, <1>4 DEF CountersInv

(* It writes back what it read, increased.                                   *)
LEMMA CountersStored ==
    ASSUME TypeOK, CountersInv, StoreCounter
    PROVE  CountersInv'
<1>. USE FieldsOfCounters
<1>. DEFINE s == Head(todo)
<1>1. /\ s = todo[1] /\ 1 \in DOMAIN todo
  BY TailOfSteps DEF StoreCounter, Doing, TypeOK
<1>2. /\ s.op = "add" /\ loaded # NotLoaded
      /\ data' = [data EXCEPT ![s.track][s.field] = loaded + s.by]
  BY DEF StoreCounter, Doing
<1>3. s.track \in Tracks /\ s.field \in Fields
  BY <1>1, <1>2, StepsTyped
<1>4. loaded + s.by <= Truth(s.track)[s.field]
  BY <1>1, <1>2, <1>3 DEF CountersInv
<1>5. data \in [Tracks -> Counters] /\ \A t \in Tracks : DOMAIN data[t] = Fields
  BY DEF TypeOK, Counters, Fields
<1>6. \A t \in Tracks, f \in Fields :
         data'[t][f] = IF t = s.track /\ f = s.field THEN loaded + s.by ELSE data[t][f]
  BY <1>2, <1>3, <1>5
<1>. HIDE DEF s
<1>7. \A t \in Tracks, f \in Fields : data'[t][f] <= Truth(t)[f]
  BY <1>4, <1>6 DEF CountersInv
<1>8. \A t \in Tracks, f \in Fields :
         data'[t][f] = data[t][f] \/ (s.op = "add" /\ s.field = f)
  <2>1. s.op = "add"
    BY <1>2
  <2>. QED
    BY <1>6, <2>1
<1>9. ~Idle /\ Done /\ loaded' = NotLoaded /\ UNCHANGED <<reports, history>>
  BY DEF StoreCounter, Doing, collecting
<1>. QED
  BY <1>7, <1>8, <1>9, CountersOnTheWay DEF s

(* A packet is received: what it adds is within the truth after it.          *)
LEMMA CountersReceived ==
    ASSUME Ordered, FramesKeepOrder, IInv, LatestInv, CountersInv, NEW t \in Tracks, RecvRtp(t)
    PROVE  CountersInv'
<1>. USE FieldsOfCounters
<1>. TypeOK
  BY DEF IInv
<1>1. Idle /\ loaded = NotLoaded /\ UNCHANGED <<data, reports, loaded>>
  BY DEF RecvRtp, CountersInv, Doing, collecting
<1>2. PICK n \in wire[t] :
             /\ n \in 1..next[t] /\ n \in 1..Len(Timestamps[t]) /\ n \in Nat
             /\ Deliverable(t, n)
             /\ wire'[t] \subseteq wire[t]
             /\ \A u \in Tracks : u # t => wire'[u] = wire[u]
             /\ TrackStarts(t, n) \/ TrackWaits(t, n) \/ TrackMeasured(t, n)
  BY InHand
<1>3. CASE TrackWaits(t, n)
  <2>1. todo' = <<Notify>> /\ UNCHANGED history
    BY <1>3 DEF TrackWaits
  <2>2. \A u \in Tracks : Truth(u)' = Truth(u)
    BY <2>1, TruthUnchanged
  <2>3. \A i \in DOMAIN todo' : todo'[i].op # "add"
    BY <2>1 DEF Notify
  <2>. QED
    BY <1>1, <2>2, <2>3 DEF CountersInv
<1>4. CASE TrackStarts(t, n) \/ TrackMeasured(t, n)
  <2>1. PICK g \in Counters : AddsOnly(todo', t, n, g, Fields) /\ Grows(t, g)
    BY <1>1, <1>2, <1>4, StartGrows, MeasureGrows
  <2>2. \A f \in Fields : g[f] \in Nat
    BY <2>1, CounterRead
  <2>3. RecordArrival(t, n)
    BY <1>4 DEF TrackStarts, TrackMeasured
  <2>4. ASSUME NEW u \in Tracks, NEW f \in Fields
        PROVE  /\ Truth(u)[f] <= Truth(u)'[f]
               /\ u = t => Truth(u)[f] + g[f] <= Truth(u)'[f]
    <3>1. CASE u = t
      <4>1. Truth(t)[f] + g[f] <= Truth(t)'[f]
        BY <2>1 DEF Grows
      <4>2. Truth(t)[f] <= Truth(t)'[f]
        BY <1>2, <2>3, TruthGrows, CounterTypes DEF Fields
      <4>. QED
        BY <3>1, <4>1, <4>2
    <3>2. CASE u # t
      <4>1. Truth(u)' = Truth(u)
        BY <1>2, <2>3, <3>2, TruthGrows
      <4>. QED
        BY <3>2, <4>1, CounterTypes
    <3>. QED
      BY <3>1, <3>2
  <2>5. ASSUME NEW u \in Tracks, NEW f \in Fields
        PROVE  Truth(u)'[f] \in Nat
    <3>1. TypeOK'
      BY NextInvariance DEF IInv, Next, OnDataReceived
    <3>. QED
      BY <3>1, TruthTypeNext
  <2>6. ASSUME NEW u \in Tracks, NEW f \in Fields
        PROVE  data'[u][f] <= Truth(u)'[f] /\ reports'[u][f] <= Truth(u)'[f]
    BY <1>1, <2>4, <2>5, CounterTypes DEF CountersInv
  <2>7. ASSUME NEW i \in DOMAIN todo', NEW u \in Tracks, NEW f \in Fields,
               todo'[i].op = "add", todo'[i].track = u, todo'[i].field = f
        PROVE  /\ data'[u][f] + todo'[i].by <= Truth(u)'[f]
               /\ \A j \in DOMAIN todo' : todo'[j].op = "add" /\ todo'[j].field = f => j = i
    <3>1. /\ u = t /\ todo'[i].by <= g[f]
          /\ \A j \in DOMAIN todo' : todo'[j].op = "add" /\ todo'[j].field = f => j = i
      BY <2>1, <2>7 DEF AddsOnly
    <3>2. todo'[i].by \in Nat
      <4>1. todo' \in Seq(Step)
        BY NextInvariance DEF IInv, TypeOK, Next, OnDataReceived
      <4>2. todo'[i] \in Step
        BY <4>1
      <4>. QED
        BY <2>7, <4>2, StepTypes
    <3>3. data[u][f] <= Truth(u)[f]
      BY DEF CountersInv
    <3>. QED
      BY <1>1, <2>2, <2>4, <2>5, <3>1, <3>2, <3>3, CounterTypes
  <2>. QED
    BY <1>1, <2>6, <2>7 DEF CountersInv
<1>. QED
  BY <1>2, <1>3, <1>4

LEMMA CountInit == Init => CountInv
<1>. SUFFICES ASSUME Init PROVE CountInv
  OBVIOUS
<1>1. \A t \in Tracks : ~started[t] /\ delivered[t] = {} /\ missed[t] = {}
  BY DEF Init
<1>2. TypeOK
  BY InitInvariance DEF IInv
<1>3. \A t \in Tracks, f \in Fields : data[t][f] = 0 /\ reports[t][f] = 0
  BY DEF Init, Cleared, Fields
<1>4. todo = <<>> /\ loaded = NotLoaded
  BY DEF Init
<1>5. \A t \in Tracks, f \in Fields : data[t][f] <= Truth(t)[f] /\ reports[t][f] <= Truth(t)[f]
  BY <1>2, <1>3, CounterTypes
<1>. QED
  BY <1>1, <1>4, <1>5, FieldsOfCounters DEF CountInv, LatestInv, CountersInv

LEMMA CountStep == Ordered /\ FramesKeepOrder /\ IInv /\ CountInv /\ [Next]_vars => CountInv'
<1>. SUFFICES ASSUME Ordered, FramesKeepOrder, IInv, CountInv, [Next]_vars
              PROVE  CountInv'
  OBVIOUS
<1>. LatestInv /\ CountersInv /\ TypeOK
  BY DEF CountInv, IInv
<1>1. LatestInv'
  BY LatestStep
<1>2. CountersInv'
  <2>1. CASE Tick \/ Network \/ RecvBindingRequest \/ UNCHANGED vars
    <3>1. UNCHANGED <<data, reports, todo, loaded, history>>
      BY <2>1 DEF Tick, Network, ServerSend, RecvBindingRequest, vars, collecting
    <3>. QED
      BY <3>1, CountersUnchanged
  <2>2. ASSUME NEW t \in Tracks, RecvRtp(t)
        PROVE  CountersInv'
    BY <2>2, CountersReceived
  <2>3. CASE StoreStart \/ StoreLast \/ NotifyStart
    <3>1. /\ ~Idle /\ Done /\ loaded' = loaded /\ Head(todo).op # "add"
          /\ UNCHANGED <<data, reports, history>>
      BY <2>3 DEF StoreStart, StoreLast, NotifyStart, Doing, collecting
    <3>2. loaded = NotLoaded
      BY <3>1 DEF CountersInv, Doing
    <3>3. \A t \in Tracks, f \in Fields : data'[t][f] <= Truth(t)[f]
      BY <3>1, FieldsOfCounters DEF CountersInv
    <3>4. \A t \in Tracks, f \in Fields : data'[t][f] = data[t][f]
      BY <3>1
    <3>5. loaded' = NotLoaded
      BY <3>1, <3>2
    <3>. HIDE DEF Idle, Done
    <3>. QED
      BY <3>1, <3>3, <3>4, <3>5, CountersOnTheWay
  <2>. QED
    BY <2>1, <2>2, <2>3, CountersLoaded, CountersStored, CountersCollected
       DEF Next, OnDataReceived
<1>. QED
  BY <1>1, <1>2 DEF CountInv

(* No counter of a CollectData and nothing handed over by                    *)
(* GetTrafficCollectData says more than what happened since measuring began: *)
(* not more packets than came, not more frames than were seen, and no packet *)
(* called lost that was there in its turn. This for every network that is    *)
(* one of the model's, every wrap of the sequence numbers, every packet late *)
(* or doubled, and every place the timer thread may clear a counter that     *)
(* SetVideoTraffic or SetAudioTraffic has read and not yet written back; and *)
(* for timestamps as RTP has them: they do not go back, and no two packets   *)
(* of audio have the same; and a network that keeps the order in a frame.    *)
THEOREM CountersWithinTruth == Ordered /\ FramesKeepOrder => (Spec => []CountedWithinTruth)
<1>. SUFFICES ASSUME Ordered, FramesKeepOrder PROVE Spec => []CountedWithinTruth
  OBVIOUS
<1>1. Init => IInv /\ CountInv
  BY InitInvariance, CountInit
<1>2. IInv /\ CountInv /\ [Next]_vars => (IInv /\ CountInv)'
  BY NextInvariance, CountStep
<1>3. IInv /\ CountInv => CountedWithinTruth
  <2>1. ASSUME TypeOK, CountersInv, NEW t \in Tracks
        PROVE  Within(data[t], t) /\ Within(reports[t], t)
    <3>1. DOMAIN data[t] = Fields /\ DOMAIN reports[t] = Fields
      BY <2>1 DEF TypeOK, Counters, Fields
    <3>. QED
      BY <2>1, <3>1, FieldsOfCounters DEF CountersInv, Within
  <2>. QED
    BY <2>1 DEF IInv, CountInv, CountedWithinTruth
<1>. QED
  BY <1>1, <1>2, <1>3, PTL DEF Spec
=============================================================================
