--------------------------- MODULE StreamSession ---------------------------
(***************************************************************************)
(* The life of a test stream: MainObject, StreamManager, SignallingServer- *)
(* Map/Object and OmeStreamMap/Object working on it from three kinds of    *)
(* thread.                                                                 *)
(*                                                                         *)
(*  - the timer thread creates streams (StartTimeProc,                     *)
(*    StreamCreateTimeProc) and collects them (GarbageCheckTimeProc);      *)
(*  - the service thread of a stream's TCP socket runs the signalling      *)
(*    handlers, one at a time;                                             *)
(*  - the service thread of each UDP socket runs the media handlers, one   *)
(*    at a time.                                                           *)
(*                                                                         *)
(* A step is what a thread does between two points where another thread    *)
(* can see or change the same state: one critical section of               *)
(* _stream_info_map_mutex or _network_info_map_mutex, or one unprotected   *)
(* read or write of a StreamInfo found earlier.                            *)
(***************************************************************************)
EXTENDS Integers, FiniteSets

CONSTANTS
    MaxStreams,      \* bound: streams the program gets to create
    MaxOffers,       \* bound: offers one signalling connection receives
    ManagerCount,    \* STREAM_MANAGER_OBJECT_COUNT
    StartCount,      \* streaming_start_count
    CreateInterval,  \* streaming_create_interval
    CreateCount,     \* streaming_create_count
    MaxCount,        \* streaming_max_count, 0 is unlimited
    Faults           \* which failures the environment may produce

ASSUME StreamSessionAssumption ==
    /\ MaxStreams \in Nat
    /\ MaxOffers \in Nat
    /\ ManagerCount \in Nat \ {0}
    /\ StartCount \in 0 .. MaxStreams
    /\ CreateInterval \in Nat
    /\ CreateCount \in Nat
    /\ MaxCount \in Nat
    /\ Faults \subseteq {"connect", "handshake", "json", "tcp", "dtls", "udp", "keys"}

Streams == 0 .. MaxStreams - 1          \* values of stream_key
Sessions == Streams \X (1 .. MaxOffers) \* the OmeStreamObject of a stream's n-th offer
NoKey == -1

Status == {"Ready", "SignallingComplete", "StunComplete", "Streaming"}
Error == {"None", "SignallingServer", "StreamCompleteTimerOver",
          "SignallingConnectionClose", "SignallingJsonDataFail"}
Socket == {"none", "open", "posted", "closed"}

VARIABLES
    \* timer thread
    timerPc,          \* what the timer thread is doing
    timerLeft,        \* iterations left of a creation loop
    createTimer,      \* STREAM_CREATE_TIMER_ID has been set
    streamIndexKey,   \* MainObject::_stream_index_key
    gcManager,        \* the StreamManager GarbageCheck works on
    gcTodo,           \* its streams not looked at yet
    gcSigKeys,        \* signalling_server_keys collected and not removed yet
    gcOmeKeys,        \* ome_stream_keys collected and not removed yet
    \* StreamManager
    live,             \* keys in the _stream_info_map of all managers
    old,              \* streams created more than STREAMING_STATUS_MAX_WAIT_TIME ago
    status, error, sigKey, omeKey,     \* StreamInfo
    \* SignallingServerMap and its objects, one per stream
    sigPc,            \* what the object's service thread is doing
    sigErr,           \* the argument of the SetError being executed
    handshaked,       \* _handshake_complete
    offers,           \* offers received so far
    sigClosing,       \* _is_closeing
    sigSock,          \* the socket; "posted" when PostClose armed its timer
    sigNet,           \* objects in _network_info_map
    sigKeyOf,         \* _index_key of an object
    sigNextKey,       \* _index_key of the map
    \* OmeStreamMap and its objects
    omePc, omeSet,    \* thread, and the argument of the SetStatus being executed
    omePhase,         \* how far the media session is
    omeClosing, omeSock, omeNet, omeKeyOf, omeNextKey,
    \* history, in no guard
    announced         \* sessions whose SetStatus(SignallingComplete) found the stream

timerVars == <<timerPc, timerLeft, createTimer, streamIndexKey>>
gcVars == <<gcManager, gcTodo, gcSigKeys, gcOmeKeys>>
infoVars == <<status, error, sigKey, omeKey>>
streamVars == <<live, old, infoVars>>
sigVars == <<sigPc, sigErr, handshaked, offers, sigClosing, sigSock, sigNet,
             sigKeyOf, sigNextKey>>
omeVars == <<omePc, omeSet, omePhase, omeClosing, omeSock, omeNet, omeKeyOf,
             omeNextKey, announced>>
vars == <<timerVars, gcVars, streamVars, sigVars, omeVars>>

GcPcs == {"scan", "eraseFailed", "eraseLate", "removeSignalling", "removeOme"}
TimerPcs == {"boot", "idle", "start", "create"} \cup GcPcs
SigPcs == {"none", "connecting", "gone", "inserted", "idle", "offer", "omeInsert",
           "omeFind", "omeWrite", "statusFind", "statusWrite", "errFind",
           "errCheck", "errWrite", "close", "remove", "done"}
OmePcs == {"none", "idle", "statusFind", "statusWrite", "remove"}
OmePhases == {"new", "asked", "stun", "stunFailed", "rtp"}

TypeOK ==
    /\ timerPc \in TimerPcs
    /\ timerLeft \in Nat
    /\ createTimer \in BOOLEAN
    /\ streamIndexKey \in 0 .. MaxStreams
    /\ gcManager \in 0 .. ManagerCount - 1
    /\ gcTodo \subseteq Streams
    /\ gcSigKeys \subseteq Int
    /\ gcOmeKeys \subseteq Int
    /\ live \subseteq Streams
    /\ old \subseteq Streams
    /\ status \in [Streams -> Status]
    /\ error \in [Streams -> Error]
    /\ sigKey \in [Streams -> Int]
    /\ omeKey \in [Streams -> Int]
    /\ sigPc \in [Streams -> SigPcs]
    /\ sigErr \in [Streams -> Error]
    /\ handshaked \in [Streams -> BOOLEAN]
    /\ offers \in [Streams -> 0 .. MaxOffers]
    /\ sigClosing \in [Streams -> BOOLEAN]
    /\ sigSock \in [Streams -> Socket]
    /\ sigNet \subseteq Streams
    /\ sigKeyOf \in [Streams -> Int]
    /\ sigNextKey \in Nat
    /\ omePc \in [Sessions -> OmePcs]
    /\ omeSet \in [Sessions -> Status]
    /\ omePhase \in [Sessions -> OmePhases]
    /\ omeClosing \in [Sessions -> BOOLEAN]
    /\ omeSock \in [Sessions -> Socket]
    /\ omeNet \subseteq Sessions
    /\ omeKeyOf \in [Sessions -> Int]
    /\ omeNextKey \in Nat
    /\ announced \subseteq Sessions

----------------------------------------------------------------------------
(* GarbageCheck holds the _stream_info_map_mutex of one manager from its    *)
(* scan to its last PostClose; every other user of a manager takes the      *)
(* mutex for a single lookup.                                               *)

ManagerOf(s) == s % ManagerCount
StreamMapFree(s) == ~(timerPc \in GcPcs /\ gcManager = ManagerOf(s))

(* Find(key, erase = true) followed by PostClose, in either network map.    *)
SigWithKey(k) == {s \in sigNet : sigKeyOf[s] = k}
OmeWithKey(k) == {o \in omeNet : omeKeyOf[o] = k}

PostCloseSig(S) ==
    /\ sigClosing' = [s \in Streams |-> s \in S \/ sigClosing[s]]
    /\ sigSock' = [s \in Streams |-> IF s \in S /\ sigSock[s] = "open"
                                     THEN "posted" ELSE sigSock[s]]
PostCloseOme(O) ==
    /\ omeClosing' = [o \in Sessions |-> o \in O \/ omeClosing[o]]
    /\ omeSock' = [o \in Sessions |-> IF o \in O /\ omeSock[o] = "open"
                                      THEN "posted" ELSE omeSock[o]]

RemoveSig(k) ==
    /\ sigNet' = sigNet \ SigWithKey(k)
    /\ PostCloseSig(SigWithKey(k))
(* Mutant: Remove does not erase the entry. *)
RemoveOmeKeepsEntry(k) ==
    /\ UNCHANGED omeNet
    /\ PostCloseOme(OmeWithKey(k))
(* Mutant: Remove erases the entry and does not close the object. *)
RemoveOmeWithoutClose(k) ==
    /\ omeNet' = omeNet \ OmeWithKey(k)
    /\ UNCHANGED <<omeClosing, omeSock>>
RemoveOme(k) ==
    /\ omeNet' = omeNet \ OmeWithKey(k)
    /\ PostCloseOme(OmeWithKey(k))

----------------------------------------------------------------------------
Init ==
    /\ timerPc = "boot"
    /\ timerLeft = 0
    /\ createTimer = FALSE
    /\ streamIndexKey = 0
    /\ gcManager = 0
    /\ gcTodo = {} /\ gcSigKeys = {} /\ gcOmeKeys = {}
    /\ live = {} /\ old = {}
    /\ status = [s \in Streams |-> "Ready"]
    /\ error = [s \in Streams |-> "None"]
    /\ sigKey = [s \in Streams |-> NoKey]
    /\ omeKey = [s \in Streams |-> NoKey]
    /\ sigPc = [s \in Streams |-> "none"]
    /\ sigErr = [s \in Streams |-> "None"]
    /\ handshaked = [s \in Streams |-> FALSE]
    /\ offers = [s \in Streams |-> 0]
    /\ sigClosing = [s \in Streams |-> FALSE]
    /\ sigSock = [s \in Streams |-> "none"]
    /\ sigNet = {}
    /\ sigKeyOf = [s \in Streams |-> NoKey]
    /\ sigNextKey = 0
    /\ omePc = [o \in Sessions |-> "none"]
    /\ omeSet = [o \in Sessions |-> "Ready"]
    /\ omePhase = [o \in Sessions |-> "new"]
    /\ omeClosing = [o \in Sessions |-> FALSE]
    /\ omeSock = [o \in Sessions |-> "none"]
    /\ omeNet = {}
    /\ omeKeyOf = [o \in Sessions |-> NoKey]
    /\ omeNextKey = 0
    /\ announced = {}

----------------------------------------------------------------------------
(* The timer thread: creating streams                                       *)

(* CreateStream(_stream_index_key++, -1) and PostConnect, one iteration of  *)
(* either creation loop.                                                    *)
NewStream ==
    LET s == streamIndexKey IN
    /\ s \in Streams                          \* bound
    /\ streamIndexKey' = s + 1
    /\ live' = live \cup {s}
    /\ status' = [status EXCEPT ![s] = "Ready"]
    /\ error' = [error EXCEPT ![s] = "None"]
    /\ sigKey' = [sigKey EXCEPT ![s] = NoKey]
    /\ omeKey' = [omeKey EXCEPT ![s] = NoKey]
    /\ sigPc' = [sigPc EXCEPT ![s] = "connecting"]
    /\ UNCHANGED <<old, sigErr, handshaked, offers, sigClosing, sigSock, sigNet,
                   sigKeyOf, sigNextKey>>

StartTimer ==
    /\ timerPc = "boot"
    /\ timerPc' = "start"
    /\ timerLeft' = StartCount
    /\ UNCHANGED <<createTimer, streamIndexKey, gcVars, streamVars, sigVars, omeVars>>

StartStream ==
    /\ timerPc = "start" /\ timerLeft > 0
    /\ NewStream
    /\ timerLeft' = timerLeft - 1
    /\ UNCHANGED <<timerPc, createTimer, gcVars, omeVars>>

StartDone ==
    /\ timerPc = "start" /\ timerLeft = 0
    /\ timerPc' = "idle"
    /\ createTimer' = (CreateInterval # 0 /\ CreateCount # 0)
    /\ UNCHANGED <<timerLeft, streamIndexKey, gcVars, streamVars, sigVars, omeVars>>

MaxCountReached(n) == MaxCount # 0 /\ n >= MaxCount

CreateTimer ==
    /\ timerPc = "idle" /\ createTimer
    /\ ~MaxCountReached(streamIndexKey)
    /\ (IF MaxCount = 0 THEN streamIndexKey + CreateCount ELSE MaxCount)
          <= MaxStreams                       \* bound
    /\ timerPc' = "create"
    /\ timerLeft' = CreateCount
    /\ UNCHANGED <<createTimer, streamIndexKey, gcVars, streamVars, sigVars, omeVars>>

(* Mutant: the limit is compared before the stream is counted. *)
CreateNextLateLimit ==
    /\ timerPc = "create"
    /\ NewStream
    /\ timerLeft' = timerLeft - 1
    /\ timerPc' = IF timerLeft = 1 \/ MaxCountReached(streamIndexKey)
                  THEN "idle" ELSE "create"
    /\ UNCHANGED <<createTimer, gcVars, omeVars>>

CreateNext ==
    /\ timerPc = "create"
    /\ NewStream
    /\ timerLeft' = timerLeft - 1
    /\ timerPc' = IF timerLeft = 1 \/ MaxCountReached(streamIndexKey + 1)
                  THEN "idle" ELSE "create"
    /\ UNCHANGED <<createTimer, gcVars, omeVars>>

----------------------------------------------------------------------------
(* The timer thread: GarbageCheckTimeProc, manager after manager            *)

Lock(m) ==
    /\ gcManager' = m
    /\ gcTodo' = {s \in live : ManagerOf(s) = m}

GcStart ==
    /\ timerPc = "idle"
    /\ timerPc' = "scan"
    /\ Lock(0)
    /\ UNCHANGED <<timerLeft, createTimer, streamIndexKey, gcSigKeys, gcOmeKeys,
                   streamVars, sigVars, omeVars>>

IsNext(s) == s \in gcTodo /\ \A t \in gcTodo : s <= t

GcUnchanged == UNCHANGED <<timerLeft, createTimer, streamIndexKey, gcManager, gcSigKeys,
                            gcOmeKeys, streamVars, sigVars, omeVars>>

(* Mutant: an error alone does not remove a stream. *)
GcExamineIgnoresError(s) ==
    /\ timerPc = "scan" /\ IsNext(s)
    /\ IF status[s] # "Streaming" /\ s \in old
       THEN timerPc' = "eraseLate" /\ UNCHANGED gcTodo
       ELSE gcTodo' = gcTodo \ {s} /\ UNCHANGED timerPc
    /\ GcUnchanged
(* Mutant: only a stream that is still Ready is late. *)
GcExamineReadyOnly(s) ==
    /\ timerPc = "scan" /\ IsNext(s)
    /\ \/ error[s] # "None" /\ timerPc' = "eraseFailed" /\ UNCHANGED gcTodo
       \/ /\ error[s] = "None" /\ status[s] = "Ready" /\ s \in old
          /\ timerPc' = "eraseLate" /\ UNCHANGED gcTodo
       \/ /\ error[s] = "None" /\ ~(status[s] = "Ready" /\ s \in old)
          /\ gcTodo' = gcTodo \ {s} /\ UNCHANGED timerPc
    /\ GcUnchanged
(* Mutant: the age is not looked at. *)
GcExamineIgnoresAge(s) ==
    /\ timerPc = "scan" /\ IsNext(s)
    /\ \/ error[s] # "None" /\ timerPc' = "eraseFailed" /\ UNCHANGED gcTodo
       \/ /\ error[s] = "None" /\ status[s] # "Streaming"
          /\ timerPc' = "eraseLate" /\ UNCHANGED gcTodo
       \/ /\ error[s] = "None" /\ status[s] = "Streaming"
          /\ gcTodo' = gcTodo \ {s} /\ UNCHANGED timerPc
    /\ GcUnchanged

(* Reads error, status and the age; other threads may write them before     *)
(* GcErase.                                                                 *)
GcExamine(s) ==
    /\ timerPc = "scan" /\ IsNext(s)
    /\ \/ /\ error[s] # "None"
          /\ timerPc' = "eraseFailed"
          /\ UNCHANGED gcTodo
       \/ /\ error[s] = "None" /\ status[s] # "Streaming" /\ s \in old
          /\ timerPc' = "eraseLate"
          /\ UNCHANGED gcTodo
       \/ /\ error[s] = "None" /\ (status[s] = "Streaming" \/ s \notin old)
          /\ gcTodo' = gcTodo \ {s}
          /\ UNCHANGED timerPc
    /\ UNCHANGED <<timerLeft, createTimer, streamIndexKey, gcManager, gcSigKeys,
                   gcOmeKeys, streamVars, sigVars, omeVars>>

(* Mutant: the key of the media session is not collected. *)
GcEraseForgetsSession(s) ==
    /\ timerPc \in {"eraseFailed", "eraseLate"} /\ IsNext(s)
    /\ error' = IF timerPc = "eraseLate"
                THEN [error EXCEPT ![s] = "StreamCompleteTimerOver"] ELSE error
    /\ live' = live \ {s}
    /\ gcTodo' = gcTodo \ {s}
    /\ gcSigKeys' = gcSigKeys \cup {sigKey[s]}
    /\ timerPc' = "scan"
    /\ UNCHANGED <<timerLeft, createTimer, streamIndexKey, gcManager, gcOmeKeys, old,
                   status, sigKey, omeKey, sigVars, omeVars>>

GcErase(s) ==
    /\ timerPc \in {"eraseFailed", "eraseLate"} /\ IsNext(s)
    /\ error' = IF timerPc = "eraseLate"
                THEN [error EXCEPT ![s] = "StreamCompleteTimerOver"] ELSE error
    /\ live' = live \ {s}
    /\ gcTodo' = gcTodo \ {s}
    /\ gcSigKeys' = gcSigKeys \cup {sigKey[s]}
    /\ gcOmeKeys' = gcOmeKeys \cup {omeKey[s]}
    /\ timerPc' = "scan"
    /\ UNCHANGED <<timerLeft, createTimer, streamIndexKey, gcManager, old, status,
                   sigKey, omeKey, sigVars, omeVars>>

GcScanned ==
    /\ timerPc = "scan" /\ gcTodo = {}
    /\ timerPc' = "removeSignalling"
    /\ UNCHANGED <<timerLeft, createTimer, streamIndexKey, gcVars, streamVars,
                   sigVars, omeVars>>

GcRemoveSignalling(k) ==
    /\ timerPc = "removeSignalling" /\ k \in gcSigKeys
    /\ RemoveSig(k)
    /\ gcSigKeys' = gcSigKeys \ {k}
    /\ UNCHANGED <<timerVars, gcManager, gcTodo, gcOmeKeys, streamVars, sigPc,
                   sigErr, handshaked, offers, sigKeyOf, sigNextKey, omeVars>>

GcSignallingRemoved ==
    /\ timerPc = "removeSignalling" /\ gcSigKeys = {}
    /\ timerPc' = "removeOme"
    /\ UNCHANGED <<timerLeft, createTimer, streamIndexKey, gcVars, streamVars,
                   sigVars, omeVars>>

GcRemoveOme(k) ==
    /\ timerPc = "removeOme" /\ k \in gcOmeKeys
    /\ RemoveOme(k)
    /\ gcOmeKeys' = gcOmeKeys \ {k}
    /\ UNCHANGED <<timerVars, gcManager, gcTodo, gcSigKeys, streamVars, sigVars,
                   omePc, omeSet, omePhase, omeKeyOf, omeNextKey, announced>>

GcNextManager ==
    /\ timerPc = "removeOme" /\ gcOmeKeys = {}
    /\ IF gcManager + 1 < ManagerCount
       THEN timerPc' = "scan" /\ Lock(gcManager + 1)
       ELSE timerPc' = "idle" /\ UNCHANGED <<gcManager, gcTodo>>
    /\ UNCHANGED <<timerLeft, createTimer, streamIndexKey, gcSigKeys, gcOmeKeys,
                   streamVars, sigVars, omeVars>>

(* current_time - create_time passes STREAMING_STATUS_MAX_WAIT_TIME.        *)
Age(s) ==
    /\ s \in live \ old
    /\ old' = old \cup {s}
    /\ UNCHANGED <<timerVars, gcVars, live, infoVars, sigVars, omeVars>>

----------------------------------------------------------------------------
(* The signalling connection of stream s                                    *)

GoTo(s, pc) == sigPc' = [sigPc EXCEPT ![s] = pc]
At(s, pc) == sigPc[s] = pc

(* SetError(s, e) is called: the handler continues at "errFind".            *)
CallSetError(s, e) ==
    /\ GoTo(s, "errFind")
    /\ sigErr' = [sigErr EXCEPT ![s] = e]

(* OnConnected reports an error, or the socket throws in Create: the        *)
(* handler ends, the stream stays Ready without an error.                   *)
ConnectFail(s) ==
    /\ At(s, "connecting") /\ "connect" \in Faults
    /\ GoTo(s, "gone")
    /\ UNCHANGED <<timerVars, gcVars, streamVars, sigErr, handshaked, offers,
                   sigClosing, sigSock, sigNet, sigKeyOf, sigNextKey, omeVars>>

(* SignallingServerMap::ConnectAdd: Create, then Insert under the mutex of  *)
(* the map, which sets the index key and starts receiving.                  *)
ConnectAdd(s) ==
    /\ At(s, "connecting")
    /\ sigNet' = sigNet \cup {s}
    /\ sigKeyOf' = [sigKeyOf EXCEPT ![s] = sigNextKey]
    /\ sigNextKey' = sigNextKey + 1
    /\ sigSock' = [sigSock EXCEPT ![s] = "open"]
    /\ GoTo(s, "inserted")
    /\ UNCHANGED <<timerVars, gcVars, streamVars, sigErr, handshaked, offers,
                   sigClosing, omeVars>>

SendHandshake(s) ==
    /\ At(s, "inserted")
    /\ IF SigWithKey(sigKeyOf[s]) # {} /\ ~sigClosing[s]
       THEN GoTo(s, "idle") /\ UNCHANGED sigErr
       ELSE CallSetError(s, "SignallingServer")
    /\ UNCHANGED <<timerVars, gcVars, streamVars, handshaked, offers, sigClosing,
                   sigSock, sigNet, sigKeyOf, sigNextKey, omeVars>>

CanReceive(s) == At(s, "idle") /\ ~sigClosing[s] /\ sigSock[s] = "open"

RecvHandshake(s) ==
    /\ CanReceive(s) /\ ~handshaked[s]
    /\ handshaked' = [handshaked EXCEPT ![s] = TRUE]
    /\ UNCHANGED <<timerVars, gcVars, streamVars, sigPc, sigErr, offers, sigClosing,
                   sigSock, sigNet, sigKeyOf, sigNextKey, omeVars>>

(* Any answer but "101 Switching Protocols" makes RecvHandler return -1.    *)
RecvBadHandshake(s) ==
    /\ CanReceive(s) /\ ~handshaked[s] /\ "handshake" \in Faults
    /\ GoTo(s, "close")
    /\ UNCHANGED <<timerVars, gcVars, streamVars, sigErr, handshaked, offers,
                   sigClosing, sigSock, sigNet, sigKeyOf, sigNextKey, omeVars>>

(* A text frame with an offer: the answer is sent and                       *)
(* OnHandshakeComplete_SignallingServer starts.                             *)
RecvOffer(s) ==
    /\ CanReceive(s) /\ handshaked[s]
    /\ offers[s] < MaxOffers                  \* bound
    /\ offers' = [offers EXCEPT ![s] = @ + 1]
    /\ GoTo(s, "offer")
    /\ UNCHANGED <<timerVars, gcVars, streamVars, sigErr, handshaked, sigClosing,
                   sigSock, sigNet, sigKeyOf, sigNextKey, omeVars>>

(* A text frame that is not the JSON expected.                              *)
RecvBadJson(s) ==
    /\ CanReceive(s) /\ handshaked[s] /\ "json" \in Faults
    /\ CallSetError(s, "SignallingJsonDataFail")
    /\ UNCHANGED <<timerVars, gcVars, streamVars, handshaked, offers, sigClosing,
                   sigSock, sigNet, sigKeyOf, sigNextKey, omeVars>>

(* A read or write of the socket fails, or the peer closes.                 *)
SigError(s) ==
    /\ CanReceive(s) /\ "tcp" \in Faults
    /\ GoTo(s, "close")
    /\ UNCHANGED <<timerVars, gcVars, streamVars, sigErr, handshaked, offers,
                   sigClosing, sigSock, sigNet, sigKeyOf, sigNextKey, omeVars>>

(* if(_is_closeing == false) { _is_closeing = true; OnNetworkClose(...) }   *)
SigClose(s) ==
    /\ At(s, "close")
    /\ sigClosing' = [sigClosing EXCEPT ![s] = TRUE]
    /\ GoTo(s, IF sigClosing[s] THEN "done" ELSE "remove")
    /\ UNCHANGED <<timerVars, gcVars, streamVars, sigErr, handshaked, offers,
                   sigSock, sigNet, sigKeyOf, sigNextKey, omeVars>>

(* Mutant: the stream is not told. *)
SigRemoveWithoutError(s) ==
    /\ At(s, "remove")
    /\ RemoveSig(sigKeyOf[s])
    /\ GoTo(s, "done")
    /\ UNCHANGED <<timerVars, gcVars, streamVars, sigErr, handshaked, offers, sigKeyOf,
                   sigNextKey, omeVars>>

(* OnNetworkClose: GetStreamKey, Remove, and SetError when the object was   *)
(* still in the map.                                                        *)
SigRemove(s) ==
    /\ At(s, "remove")
    /\ RemoveSig(sigKeyOf[s])
    /\ IF SigWithKey(sigKeyOf[s]) # {}
       THEN CallSetError(s, "SignallingConnectionClose")
       ELSE GoTo(s, "done") /\ UNCHANGED sigErr
    /\ UNCHANGED <<timerVars, gcVars, streamVars, handshaked, offers, sigKeyOf,
                   sigNextKey, omeVars>>

(* Where a handler continues after SetError(s, e).                          *)
AfterSetError(e) ==
    CASE e = "SignallingJsonDataFail" -> "close"
      [] e = "SignallingConnectionClose" -> "done"
      [] OTHER -> "idle"

SetErrorFind(s) ==
    /\ At(s, "errFind") /\ StreamMapFree(s)
    /\ GoTo(s, IF s \in live THEN "errCheck" ELSE AfterSetError(sigErr[s]))
    /\ UNCHANGED <<timerVars, gcVars, streamVars, sigErr, handshaked, offers,
                   sigClosing, sigSock, sigNet, sigKeyOf, sigNextKey, omeVars>>

(* Mutant: the last error wins. *)
SetErrorAlways(s) ==
    /\ At(s, "errCheck")
    /\ GoTo(s, "errWrite")
    /\ UNCHANGED <<timerVars, gcVars, streamVars, sigErr, handshaked, offers,
                   sigClosing, sigSock, sigNet, sigKeyOf, sigNextKey, omeVars>>

SetErrorCheck(s) ==
    /\ At(s, "errCheck")
    /\ GoTo(s, IF error[s] = "None" THEN "errWrite" ELSE AfterSetError(sigErr[s]))
    /\ UNCHANGED <<timerVars, gcVars, streamVars, sigErr, handshaked, offers,
                   sigClosing, sigSock, sigNet, sigKeyOf, sigNextKey, omeVars>>

SetErrorWrite(s) ==
    /\ At(s, "errWrite")
    /\ error' = [error EXCEPT ![s] = sigErr[s]]
    /\ GoTo(s, AfterSetError(sigErr[s]))
    /\ UNCHANGED <<timerVars, gcVars, live, old, status, sigKey, omeKey, sigErr,
                   handshaked, offers, sigClosing, sigSock, sigNet, sigKeyOf,
                   sigNextKey, omeVars>>

----------------------------------------------------------------------------
(* OnHandshakeComplete_SignallingServer, on the same thread                 *)

CurrentSession(s) == <<s, offers[s]>>

(* OmeStreamObject::Create: the socket already receives and the keep-alive  *)
(* timer runs, while the object is in no map and has no key.                *)
OmeCreate(s) ==
    LET o == CurrentSession(s) IN
    /\ At(s, "offer")
    /\ omePc' = [omePc EXCEPT ![o] = "idle"]
    /\ omeSock' = [omeSock EXCEPT ![o] = "open"]
    /\ GoTo(s, "omeInsert")
    /\ UNCHANGED <<timerVars, gcVars, streamVars, sigErr, handshaked, offers,
                   sigClosing, sigSock, sigNet, sigKeyOf, sigNextKey, omeSet,
                   omePhase, omeClosing, omeNet, omeKeyOf, omeNextKey, announced>>

(* Mutant: the index key is not advanced. *)
OmeInsertSameKey(s) ==
    LET o == CurrentSession(s) IN
    /\ At(s, "omeInsert")
    /\ omeNet' = omeNet \cup {o}
    /\ omeKeyOf' = [omeKeyOf EXCEPT ![o] = omeNextKey]
    /\ GoTo(s, "omeFind")
    /\ UNCHANGED <<timerVars, gcVars, streamVars, sigErr, handshaked, offers,
                   sigClosing, sigSock, sigNet, sigKeyOf, sigNextKey, omePc, omeSet,
                   omePhase, omeClosing, omeSock, omeNextKey, announced>>

OmeInsert(s) ==
    LET o == CurrentSession(s) IN
    /\ At(s, "omeInsert")
    /\ omeNet' = omeNet \cup {o}
    /\ omeKeyOf' = [omeKeyOf EXCEPT ![o] = omeNextKey]
    /\ omeNextKey' = omeNextKey + 1
    /\ GoTo(s, "omeFind")
    /\ UNCHANGED <<timerVars, gcVars, streamVars, sigErr, handshaked, offers,
                   sigClosing, sigSock, sigNet, sigKeyOf, sigNextKey, omePc, omeSet,
                   omePhase, omeClosing, omeSock, announced>>

(* No index key is free (INDEX_KEY_MAX_SIZE): ConnectAdd fails, which is    *)
(* only logged. The session that Create has made goes on, in no map.        *)
OmeInsertFails(s) ==
    /\ At(s, "omeInsert") /\ "keys" \in Faults
    /\ GoTo(s, "idle")
    /\ UNCHANGED <<timerVars, gcVars, streamVars, sigErr, handshaked, offers,
                   sigClosing, sigSock, sigNet, sigKeyOf, sigNextKey, omeVars>>

(* SetOmeStreamInfo: FindStream under the mutex, the assignment outside it. *)
(* When the stream is gone the callback fails and is only logged.           *)
SetOmeStreamInfoFind(s) ==
    /\ At(s, "omeFind") /\ StreamMapFree(s)
    /\ GoTo(s, IF s \in live THEN "omeWrite" ELSE "idle")
    /\ UNCHANGED <<timerVars, gcVars, streamVars, sigErr, handshaked, offers,
                   sigClosing, sigSock, sigNet, sigKeyOf, sigNextKey, omeVars>>

SetOmeStreamInfoWrite(s) ==
    /\ At(s, "omeWrite")
    /\ omeKey' = [omeKey EXCEPT ![s] = omeKeyOf[CurrentSession(s)]]
    /\ GoTo(s, "statusFind")
    /\ UNCHANGED <<timerVars, gcVars, live, old, status, error, sigKey, sigErr,
                   handshaked, offers, sigClosing, sigSock, sigNet, sigKeyOf,
                   sigNextKey, omeVars>>

(* SetStatus(s, SignallingComplete).                                        *)
SignallingCompleteFind(s) ==
    /\ At(s, "statusFind") /\ StreamMapFree(s)
    /\ GoTo(s, IF s \in live THEN "statusWrite" ELSE "idle")
    /\ announced' = IF s \in live THEN announced \cup {CurrentSession(s)} ELSE announced
    /\ UNCHANGED <<timerVars, gcVars, streamVars, sigErr, handshaked, offers,
                   sigClosing, sigSock, sigNet, sigKeyOf, sigNextKey, omePc, omeSet,
                   omePhase, omeClosing, omeSock, omeNet, omeKeyOf, omeNextKey>>

SignallingCompleteWrite(s) ==
    /\ At(s, "statusWrite")
    /\ status' = [status EXCEPT ![s] = "SignallingComplete"]
    /\ GoTo(s, "idle")
    /\ UNCHANGED <<timerVars, gcVars, live, old, error, sigKey, omeKey, sigErr,
                   handshaked, offers, sigClosing, sigSock, sigNet, sigKeyOf,
                   sigNextKey, omeVars>>

(* PostCloseTimerProc closes the socket.                                    *)
SigCloseTimer(s) ==
    /\ sigSock[s] = "posted"
    /\ sigSock' = [sigSock EXCEPT ![s] = "closed"]
    /\ UNCHANGED <<timerVars, gcVars, streamVars, sigPc, sigErr, handshaked, offers,
                   sigClosing, sigNet, sigKeyOf, sigNextKey, omeVars>>

----------------------------------------------------------------------------
(* The media session o of stream o[1]                                       *)

OmeReady(o) == omePc[o] = "idle" /\ ~omeClosing[o] /\ omeSock[o] = "open"

(* The keep-alive timer sends the first binding request: from now on the    *)
(* server knows where to send.                                              *)
SendBindingRequest(o) ==
    /\ OmeReady(o) /\ omePhase[o] = "new"
    /\ omePhase' = [omePhase EXCEPT ![o] = "asked"]
    /\ UNCHANGED <<timerVars, gcVars, streamVars, sigVars, omePc, omeSet, omeClosing,
                   omeSock, omeNet, omeKeyOf, omeNextKey, announced>>

(* Mutant: every binding request completes STUN again (_is_completed is not looked at). *)
RecvBindingRequestAgain(o) ==
    /\ OmeReady(o) /\ omePhase[o] \in {"asked", "stun", "rtp"}
    /\ omePhase' = [omePhase EXCEPT ![o] = "stun"]
    /\ omePc' = [omePc EXCEPT ![o] = "statusFind"]
    /\ omeSet' = [omeSet EXCEPT ![o] = "StunComplete"]
    /\ UNCHANGED <<timerVars, gcVars, streamVars, sigVars, omeClosing, omeSock,
                   omeNet, omeKeyOf, omeNextKey, announced>>

(* The first binding request of the server: _is_completed is set, StartDTLS *)
(* runs, and only when it succeeds is OnStunComplete called.                *)
RecvBindingRequest(o) ==
    /\ OmeReady(o) /\ omePhase[o] = "asked"
    /\ \/ /\ omePhase' = [omePhase EXCEPT ![o] = "stun"]
          /\ omePc' = [omePc EXCEPT ![o] = "statusFind"]
          /\ omeSet' = [omeSet EXCEPT ![o] = "StunComplete"]
       \/ /\ "dtls" \in Faults
          /\ omePhase' = [omePhase EXCEPT ![o] = "stunFailed"]
          /\ UNCHANGED <<omePc, omeSet>>
    /\ UNCHANGED <<timerVars, gcVars, streamVars, sigVars, omeClosing, omeSock,
                   omeNet, omeKeyOf, omeNextKey, announced>>

(* Both tracks have started: OnRtpStart_DtlsTransport, once.                *)
RtpStart(o) ==
    /\ OmeReady(o) /\ omePhase[o] = "stun"
    /\ omePhase' = [omePhase EXCEPT ![o] = "rtp"]
    /\ omePc' = [omePc EXCEPT ![o] = "statusFind"]
    /\ omeSet' = [omeSet EXCEPT ![o] = "Streaming"]
    /\ UNCHANGED <<timerVars, gcVars, streamVars, sigVars, omeClosing, omeSock,
                   omeNet, omeKeyOf, omeNextKey, announced>>

OmeSetStatusFind(o) ==
    /\ omePc[o] = "statusFind" /\ StreamMapFree(o[1])
    /\ omePc' = [omePc EXCEPT ![o] = IF o[1] \in live THEN "statusWrite" ELSE "idle"]
    /\ UNCHANGED <<timerVars, gcVars, streamVars, sigVars, omeSet, omePhase,
                   omeClosing, omeSock, omeNet, omeKeyOf, omeNextKey, announced>>

OmeSetStatusWrite(o) ==
    /\ omePc[o] = "statusWrite"
    /\ status' = [status EXCEPT ![o[1]] = omeSet[o]]
    /\ omePc' = [omePc EXCEPT ![o] = "idle"]
    /\ UNCHANGED <<timerVars, gcVars, live, old, error, sigKey, omeKey, sigVars,
                   omeSet, omePhase, omeClosing, omeSock, omeNet, omeKeyOf,
                   omeNextKey, announced>>

(* OnReceive or OnSend reports an error.                                    *)
OmeError(o) ==
    /\ OmeReady(o) /\ "udp" \in Faults
    /\ omeClosing' = [omeClosing EXCEPT ![o] = TRUE]
    /\ omePc' = [omePc EXCEPT ![o] = "remove"]
    /\ UNCHANGED <<timerVars, gcVars, streamVars, sigVars, omeSet, omePhase, omeSock,
                   omeNet, omeKeyOf, omeNextKey, announced>>

(* OnNetworkClose for an OmeStream: Remove(_index_key), nothing else; the   *)
(* key is still -1 when Insert has not run.                                 *)
OmeRemove(o) ==
    /\ omePc[o] = "remove"
    /\ RemoveOme(omeKeyOf[o])
    /\ omePc' = [omePc EXCEPT ![o] = "idle"]
    /\ UNCHANGED <<timerVars, gcVars, streamVars, sigVars, omeSet, omePhase,
                   omeKeyOf, omeNextKey, announced>>

OmeCloseTimer(o) ==
    /\ omeSock[o] = "posted"
    /\ omeSock' = [omeSock EXCEPT ![o] = "closed"]
    /\ UNCHANGED <<timerVars, gcVars, streamVars, sigVars, omePc, omeSet, omePhase,
                   omeClosing, omeNet, omeKeyOf, omeNextKey, announced>>

----------------------------------------------------------------------------
TimerThread ==
    \/ StartTimer \/ StartStream \/ StartDone
    \/ CreateTimer \/ CreateNext
    \/ GcStart \/ GcScanned \/ GcSignallingRemoved \/ GcNextManager
    \/ \E s \in Streams : GcExamine(s) \/ GcErase(s)
    \/ \E k \in gcSigKeys : GcRemoveSignalling(k)
    \/ \E k \in gcOmeKeys : GcRemoveOme(k)

(* What the network decides: results, messages, errors.                     *)
SigNetwork(s) ==
    \/ ConnectFail(s) \/ ConnectAdd(s)
    \/ RecvHandshake(s) \/ RecvBadHandshake(s) \/ RecvOffer(s) \/ RecvBadJson(s)
    \/ SigError(s)

(* What a handler goes on with once it runs.                                *)
SigHandler(s) ==
    \/ SendHandshake(s) \/ SigClose(s) \/ SigRemove(s)
    \/ SetErrorFind(s) \/ SetErrorCheck(s) \/ SetErrorWrite(s)
    \/ OmeCreate(s) \/ OmeInsert(s) \/ OmeInsertFails(s)
    \/ SetOmeStreamInfoFind(s) \/ SetOmeStreamInfoWrite(s)
    \/ SignallingCompleteFind(s) \/ SignallingCompleteWrite(s)

OmeNetwork(o) == RecvBindingRequest(o) \/ RtpStart(o) \/ OmeError(o)

OmeHandler(o) == OmeSetStatusFind(o) \/ OmeSetStatusWrite(o) \/ OmeRemove(o)

Next ==
    \/ TimerThread
    \/ \E s \in Streams :
          Age(s) \/ SigNetwork(s) \/ SigHandler(s) \/ SigCloseTimer(s)
    \/ \E o \in Sessions :
          \/ SendBindingRequest(o) \/ OmeNetwork(o) \/ OmeHandler(o)
          \/ OmeCloseTimer(o)

Spec == Init /\ [][Next]_vars

(* Time passes, the timer thread runs, and a service thread finishes the    *)
(* handler it is in and runs the timers that are due. Nothing is assumed    *)
(* about the network.                                                       *)
Fairness ==
    /\ WF_vars(TimerThread)
    /\ \A s \in Streams : /\ WF_vars(Age(s))
                          /\ WF_vars(SigCloseTimer(s))
                          /\ SF_vars(SigHandler(s))
    /\ \A o \in Sessions : /\ WF_vars(OmeCloseTimer(o))
                           /\ SF_vars(OmeHandler(o))

FairSpec == Spec /\ Fairness
----------------------------------------------------------------------------
(* Safety                                                                   *)

Created == 0 .. streamIndexKey - 1

(* Closing by key reaches the right object: the session a live stream has   *)
(* registered (SetOmeStreamInfo) is its own, and the keys GarbageCheck has  *)
(* collected name no session of a stream that is still live.                *)
KeysReachTheRightSession ==
    /\ \A s \in live : \A o \in OmeWithKey(omeKey[s]) : o[1] = s
    /\ \A k \in gcOmeKeys : \A o \in OmeWithKey(k) : o[1] \notin live

(* Once SetStatus(SignallingComplete) has found the stream of a session,    *)
(* the session stays closable for as long as it is in the map: its stream   *)
(* is live and names it, GarbageCheck has collected its key, or a later     *)
(* offer of the same stream has taken its place in StreamInfo. Nothing of   *)
(* the kind holds before that point, where the stream may be collected      *)
(* between ConnectAdd and SetOmeStreamInfo.                                 *)
Registered(o) == omeKey[o[1]] = omeKeyOf[o]
Replaced(o) ==
    \E n \in 1 .. MaxOffers : n > o[2] /\ omeKey[o[1]] = omeKeyOf[<<o[1], n>>]
AnnouncedSessionClosable ==
    \A o \in omeNet \cap announced :
        \/ o[1] \in live /\ Registered(o)
        \/ omeKeyOf[o] \in gcOmeKeys
        \/ Replaced(o)

(* An object whose close timer is armed or has run is in no map, so no      *)
(* other thread can find it: neither the error path of its own thread nor   *)
(* GarbageCheck ever closes an object and leaves it registered.             *)
ClosedIsUnregistered ==
    /\ \A s \in sigNet : sigSock[s] = "open"
    /\ \A o \in omeNet : omeSock[o] = "open"

(* "First error wins" (SetError): once a stream that stays in the manager   *)
(* has an error, only GarbageCheck, removing it in the same step, can       *)
(* replace that error.                                                      *)
FirstErrorKeptStep ==
    \A s \in live : error[s] # "None" /\ error'[s] # error[s] => s \notin live'
FirstErrorKept == [][FirstErrorKeptStep]_vars

(* A stream that reached Streaming loses that status only to the signalling *)
(* thread, which may run SetStatus(SignallingComplete) late, or to a second *)
(* session of the same stream; the media thread's own two notifications     *)
(* cannot swap.                                                             *)
StreamingLostStep ==
    \A s \in live : status[s] = "Streaming" /\ status'[s] # "Streaming"
                      => At(s, "statusWrite") \/ offers[s] > 1
StreamingLostOnlyToSignalling == [][StreamingLostStep]_vars

(* The number of streams ever created stays below the larger of the two     *)
(* configured limits, whatever streaming_create_count adds per tick.        *)
CreatedWithinLimits ==
    MaxCount # 0 => streamIndexKey <= MaxCount \/ streamIndexKey <= StartCount

(* Why they hold: the inductive invariant of the proofs.                    *)

(* The creation loops run at least once and only over streams not created.  *)
TimerInv ==
    /\ createTimer => CreateCount # 0
    /\ timerPc = "create" => timerLeft > 0
    /\ live \subseteq Created
    /\ \A s \in Streams : sigPc[s] # "none" => s \in Created

(* How far a creation loop still may count.                                 *)
LimitInv ==
    /\ timerPc = "boot" => streamIndexKey = 0
    /\ timerPc = "start" => streamIndexKey + timerLeft <= StartCount
    /\ timerPc = "create" => ~MaxCountReached(streamIndexKey)

(* What the signalling thread knows of the session it is setting up: it has *)
(* no entry in the map until OmeInsert.                                     *)
SetupPcs == {"offer", "omeInsert", "omeFind", "omeWrite", "statusFind", "statusWrite"}
SetupInv ==
    /\ \A s \in Streams : sigPc[s] \in SetupPcs => offers[s] > 0
    /\ \A s \in Streams : sigPc[s] \in {"offer", "omeInsert"} =>
                                CurrentSession(s) \notin omeNet
    /\ \A s \in Streams : sigPc[s] = "omeInsert" =>
                                omeSock[CurrentSession(s)] = "open"
    /\ \A o \in omeNet : o[2] <= offers[o[1]]

(* Keys of sessions are given once, and a StreamInfo and GarbageCheck hold  *)
(* keys of sessions of the right streams only.                              *)
KeyInv ==
    /\ \A o \in Sessions : omeKeyOf[o] \in NoKey .. omeNextKey - 1
    /\ \A o \in Sessions : omeKeyOf[o] # NoKey => o[1] \in Created
    /\ \A o, p \in Sessions : omeKeyOf[o] = omeKeyOf[p] /\ omeKeyOf[o] # NoKey => o = p
    /\ \A o \in omeNet : omeKeyOf[o] # NoKey
    /\ \A s \in Streams :
          /\ omeKey[s] \in NoKey .. omeNextKey - 1
          /\ \A o \in Sessions : omeKeyOf[o] = omeKey[s] /\ omeKey[s] # NoKey => o[1] = s
    /\ \A k \in gcOmeKeys :
          /\ k \in NoKey .. omeNextKey - 1
          /\ \A o \in Sessions : omeKeyOf[o] = k /\ k # NoKey => o[1] \notin live

(* What GarbageCheck and SetError know between their read and their write.  *)
CheckInv ==
    /\ gcTodo \subseteq live
    /\ timerPc = "eraseFailed" => \A s \in gcTodo : IsNext(s) => error[s] # "None"
    /\ timerPc = "eraseLate" => \A s \in gcTodo : IsNext(s) => s \in old
    /\ \A s \in Streams : sigPc[s] \in {"errFind", "errCheck", "errWrite"} =>
                                sigErr[s] # "None"
    /\ \A s \in live : sigPc[s] = "errWrite" => error[s] = "None"

(* A session gets its key once, and its stream names it when it is announced. *)
KeyedPcs == {"omeFind", "omeWrite", "statusFind", "statusWrite"}
AnnouncedInv ==
    /\ \A o \in Sessions : o[2] > offers[o[1]] => omeKeyOf[o] = NoKey
    /\ \A s \in Streams :
          LET o == CurrentSession(s) IN
          /\ sigPc[s] \in {"offer", "omeInsert"} => omeKeyOf[o] = NoKey
          /\ sigPc[s] \in KeyedPcs => omeKeyOf[o] # NoKey
          /\ sigPc[s] = "statusFind" => Registered(o)
          /\ sigPc[s] \in SetupPcs \ {"statusWrite"} => o \notin announced
    /\ \A o \in announced :
          /\ o[2] <= offers[o[1]]
          /\ omeKeyOf[o] # NoKey
          /\ omeKey[o[1]] # NoKey

(* A media session exists for an offer that came, tells what it has reached, *)
(* and a stream is Streaming when one of its sessions has started.           *)
MediaInv ==
    /\ \A o \in Sessions : omePc[o] # "none" \/ omePhase[o] # "new" => o[2] <= offers[o[1]]
    /\ \A o \in Sessions : omePc[o] \in {"statusFind", "statusWrite"} =>
            omeSet[o] = IF omePhase[o] = "rtp" THEN "Streaming" ELSE "StunComplete"
    /\ \A s \in Streams : status[s] = "Streaming" =>
            \E o \in Sessions : o[1] = s /\ omePhase[o] = "rtp"

IInv ==
    /\ TypeOK /\ TimerInv /\ LimitInv /\ CreatedWithinLimits
    /\ SetupInv /\ KeyInv /\ CheckInv /\ AnnouncedInv /\ MediaInv
    /\ ClosedIsUnregistered /\ AnnouncedSessionClosable

(* StreamInfo as the other components rely on it: keys in order, in the     *)
(* manager once, leaving for good and only failed or overdue.               *)
Registry == INSTANCE StreamRegistry
    WITH created <- streamIndexKey,
         present <- live,
         failed <- {s \in live : error[s] # "None"},
         overdue <- old
RegistrySpec == Registry!RegistrySpec

----------------------------------------------------------------------------
(* Liveness                                                                 *)

(* GarbageCheck removes every stream with an error (stream_manager.cpp,     *)
(* "Error" branch), whatever the network does.                              *)
FailedStreamIsCollected ==
    \A s \in Streams : s \in live /\ error[s] # "None" ~> s \notin live

(* No stream stays in the manager for ever without being Streaming.         *)
IdleStreamIsCollected ==
    \A s \in Streams : []<>(s \notin live \/ status[s] = "Streaming")

(* Losing the signalling connection closes its socket and, through SetError *)
(* and GarbageCheck, ends the stream.                                       *)
LostSignallingEndsStream ==
    \A s \in Streams : At(s, "close") ~> s \notin live /\ sigSock[s] = "closed"

(* A session GarbageCheck has collected is closed.                          *)
CollectedSessionCloses ==
    \A o \in Sessions :
        o \in omeNet /\ omeKeyOf[o] \in gcOmeKeys ~> omeSock[o] = "closed"
=============================================================================
