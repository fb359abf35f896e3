------------------------ MODULE StreamSession_proofs ------------------------
(***************************************************************************)
(* Proofs about StreamSession, for every number of streams, offers and     *)
(* managers and every choice of limits and faults: the inductive invariant *)
(* IInv, the safety properties it implies, and the refinement of           *)
(* StreamRegistry. One lemma per conjunct of IInv, one step per action     *)
(* that can disturb it; the actions that leave its variables alone are     *)
(* taken together.                                                         *)
(***************************************************************************)
EXTENDS StreamSession, TLAPS

USE StreamSessionAssumption
    DEF timerVars, gcVars, infoVars, streamVars, sigVars, omeVars

(* A handler that sets up a session has received an offer for it.           *)
LEMMA CurrentSessionType ==
    ASSUME TypeOK, SetupInv, NEW s \in Streams, sigPc[s] \in SetupPcs
    PROVE  CurrentSession(s) \in Sessions
  BY DEF TypeOK, SetupInv, CurrentSession, Sessions

----------------------------------------------------------------------------
(* Types. TimerInv and SetupInv are needed for the loop counter and for the *)
(* session a handler is setting up.                                         *)
LEMMA TypeStep ==
    ASSUME TypeOK, TimerInv, SetupInv, [Next]_vars
    PROVE  TypeOK'
<1>1. CASE StartStream \/ CreateNext
  <2>1. /\ streamIndexKey' \in 0 .. MaxStreams
        /\ live' \subseteq Streams
        /\ status' \in [Streams -> Status] /\ error' \in [Streams -> Error]
        /\ sigKey' \in [Streams -> Int] /\ omeKey' \in [Streams -> Int]
        /\ sigPc' \in [Streams -> SigPcs]
    <3>1. NewStream
      BY <1>1 DEF StartStream, CreateNext
    <3>. QED
      BY <3>1 DEF TypeOK, NewStream, Streams, NoKey, Status, Error, SigPcs
  <2>2. timerLeft' \in Nat /\ timerPc' \in TimerPcs
    BY <1>1 DEF TypeOK, TimerInv, StartStream, CreateNext, TimerPcs
  <2>3. UNCHANGED <<createTimer, gcVars, old, sigErr, handshaked, offers, sigClosing,
                    sigSock, sigNet, sigKeyOf, sigNextKey, omeVars>>
    BY <1>1 DEF StartStream, CreateNext, NewStream
  <2>. QED
    BY <2>1, <2>2, <2>3 DEF TypeOK
<1>2. CASE StartTimer
  BY <1>2 DEF TypeOK, StartTimer, TimerPcs, GcPcs
<1>3. CASE StartDone
  BY <1>3 DEF TypeOK, StartDone, TimerPcs, GcPcs
<1>4. CASE CreateTimer
  BY <1>4 DEF TypeOK, CreateTimer, TimerPcs, GcPcs
<1>5. CASE GcStart
  BY <1>5 DEF TypeOK, GcStart, Lock, TimerPcs, GcPcs
<1>6. CASE GcScanned \/ GcSignallingRemoved
  BY <1>6 DEF TypeOK, GcScanned, GcSignallingRemoved, TimerPcs, GcPcs
<1>7. CASE GcNextManager
  BY <1>7 DEF TypeOK, GcNextManager, Lock, TimerPcs, GcPcs
<1>8. ASSUME NEW s \in Streams, GcExamine(s)
       PROVE  TypeOK'
  BY <1>8 DEF TypeOK, GcExamine, TimerPcs, GcPcs
<1>9. ASSUME NEW s \in Streams, GcErase(s)
       PROVE  TypeOK'
  BY <1>9 DEF TypeOK, GcErase, TimerPcs, GcPcs, Error, IsNext
<1>10. ASSUME NEW k \in gcSigKeys, GcRemoveSignalling(k)
       PROVE  TypeOK'
  BY <1>10 DEF TypeOK, GcRemoveSignalling, RemoveSig, PostCloseSig, Socket
<1>11. ASSUME NEW k \in gcOmeKeys, GcRemoveOme(k)
       PROVE  TypeOK'
  BY <1>11 DEF TypeOK, GcRemoveOme, RemoveOme, PostCloseOme, Socket
<1>12. ASSUME NEW s \in Streams, ConnectFail(s) \/ RecvHandshake(s) \/
   RecvBadHandshake(s) \/ SigError(s) \/ SigClose(s) \/
   SetOmeStreamInfoFind(s) \/ OmeInsertFails(s)
       PROVE  TypeOK'
  BY <1>12 DEF TypeOK, ConnectFail, GoTo, RecvHandshake, RecvBadHandshake,
     SigError, SigClose, SetOmeStreamInfoFind, OmeInsertFails, SigPcs
<1>13. ASSUME NEW s \in Streams, RecvOffer(s)
       PROVE  TypeOK'
  BY <1>13 DEF TypeOK, RecvOffer, GoTo, SigPcs
<1>14. ASSUME NEW s \in Streams, ConnectAdd(s)
       PROVE  TypeOK'
  BY <1>14 DEF TypeOK, ConnectAdd, GoTo, SigPcs, Socket
<1>15. ASSUME NEW s \in Streams, SigCloseTimer(s)
       PROVE  TypeOK'
  BY <1>15 DEF TypeOK, SigCloseTimer, Socket
<1>16. ASSUME NEW s \in Streams, SendHandshake(s) \/ RecvBadJson(s)
       PROVE  TypeOK'
  BY <1>16 DEF TypeOK, SendHandshake, GoTo, CallSetError, RecvBadJson, SigPcs,
     Error
<1>17. ASSUME NEW s \in Streams, SigRemove(s)
       PROVE  TypeOK'
  BY <1>17 DEF TypeOK, SigRemove, GoTo, CallSetError, RemoveSig, PostCloseSig,
     SigPcs, Error, Socket
<1>18. ASSUME NEW s \in Streams, SetErrorFind(s) \/ SetErrorCheck(s) \/
   SetErrorWrite(s)
       PROVE  TypeOK'
  BY <1>18 DEF TypeOK, SetErrorFind, GoTo, AfterSetError, SetErrorCheck,
     SetErrorWrite, SigPcs, Error
<1>19. ASSUME NEW s \in Streams, OmeCreate(s)
       PROVE  TypeOK'
  BY <1>19 DEF TypeOK, OmeCreate, GoTo, SigPcs, OmePcs, Socket
<1>20. ASSUME NEW s \in Streams, OmeInsert(s)
       PROVE  TypeOK'
  BY <1>20, CurrentSessionType DEF TypeOK, OmeInsert, GoTo, At, SetupPcs,
     SigPcs
<1>21. ASSUME NEW s \in Streams, SetOmeStreamInfoWrite(s)
       PROVE  TypeOK'
  BY <1>21, CurrentSessionType DEF TypeOK, SetOmeStreamInfoWrite, GoTo, At,
     SetupPcs, SigPcs
<1>22. ASSUME NEW s \in Streams, SignallingCompleteFind(s)
       PROVE  TypeOK'
  BY <1>22, CurrentSessionType DEF TypeOK, SignallingCompleteFind, GoTo, At,
     SetupPcs, SigPcs
<1>23. ASSUME NEW s \in Streams, SignallingCompleteWrite(s)
       PROVE  TypeOK'
  BY <1>23 DEF TypeOK, SignallingCompleteWrite, GoTo, SigPcs, Status
<1>24. ASSUME NEW s \in Streams, Age(s)
       PROVE  TypeOK'
  BY <1>24 DEF TypeOK, Age
<1>25. ASSUME NEW o \in Sessions, SendBindingRequest(o) \/
   RecvBindingRequest(o) \/ RtpStart(o) \/ OmeSetStatusFind(o) \/ OmeError(o)
       PROVE  TypeOK'
  BY <1>25 DEF TypeOK, SendBindingRequest, RecvBindingRequest, RtpStart,
     OmeSetStatusFind, OmeError, OmePcs, OmePhases, Status
<1>26. ASSUME NEW o \in Sessions, OmeSetStatusWrite(o)
       PROVE  TypeOK'
  BY <1>26 DEF TypeOK, OmeSetStatusWrite, OmePcs, Sessions
<1>27. ASSUME NEW o \in Sessions, OmeRemove(o)
       PROVE  TypeOK'
  BY <1>27 DEF TypeOK, OmeRemove, RemoveOme, PostCloseOme, OmePcs, Socket
<1>28. ASSUME NEW o \in Sessions, OmeCloseTimer(o)
       PROVE  TypeOK'
  BY <1>28 DEF TypeOK, OmeCloseTimer, Socket
<1>29. CASE UNCHANGED vars
  BY <1>29 DEF TypeOK, vars
<1>. QED
  BY <1>1, <1>2, <1>3, <1>4, <1>5, <1>6, <1>7, <1>8, <1>9, <1>10, <1>11,
     <1>12, <1>13, <1>14, <1>15, <1>16, <1>17, <1>18, <1>19, <1>20, <1>21,
     <1>22, <1>23, <1>24, <1>25, <1>26, <1>27, <1>28, <1>29 DEF Next,
     TimerThread, SigNetwork, SigHandler, OmeNetwork, OmeHandler

(* The creation loops count down from a positive number and create streams  *)
(* in key order; nothing runs for a stream that is not created.             *)
LEMMA TimerInvStep ==
    ASSUME TypeOK, TimerInv, [Next]_vars
    PROVE  TimerInv'
<1>1. CASE StartStream \/ CreateNext
  <2>1. NewStream
    BY <1>1 DEF StartStream, CreateNext
  <2>2. live' \subseteq Created' /\ \A s \in Streams : sigPc'[s] # "none" => s \in Created'
    BY <2>1 DEF NewStream, TypeOK, TimerInv, Created, Streams
  <2>3. createTimer' = createTimer /\ (timerPc' = "create" => timerLeft' > 0)
    BY <1>1 DEF StartStream, CreateNext, TypeOK, TimerInv
  <2>. QED
    BY <2>2, <2>3 DEF TimerInv
<1>2. CASE StartDone
  BY <1>2 DEF TypeOK, TimerInv, Created, At, StartDone
<1>3. CASE CreateTimer
  BY <1>3 DEF TypeOK, TimerInv, Created, At, CreateTimer
<1>4. ASSUME NEW s \in Streams, GcErase(s)
       PROVE  TimerInv'
  BY <1>4 DEF TypeOK, TimerInv, Created, At, GcErase
<1>5. ASSUME NEW s \in Streams, RecvBadHandshake(s)
       PROVE  TimerInv'
  BY <1>5 DEF TypeOK, TimerInv, Created, At, RecvBadHandshake, GoTo,
     CanReceive
<1>6. ASSUME NEW s \in Streams, RecvOffer(s)
       PROVE  TimerInv'
  BY <1>6 DEF TypeOK, TimerInv, Created, At, RecvOffer, GoTo, CanReceive
<1>7. ASSUME NEW s \in Streams, RecvBadJson(s)
       PROVE  TimerInv'
  BY <1>7 DEF TypeOK, TimerInv, Created, At, RecvBadJson, GoTo, CallSetError,
     CanReceive
<1>8. ASSUME NEW s \in Streams, SigError(s)
       PROVE  TimerInv'
  BY <1>8 DEF TypeOK, TimerInv, Created, At, SigError, GoTo, CanReceive
<1>9. ASSUME NEW s \in Streams, ConnectFail(s) \/ ConnectAdd(s) \/
   SendHandshake(s) \/ SigClose(s) \/ SigRemove(s) \/ SetErrorFind(s) \/
   SetErrorCheck(s) \/ SetErrorWrite(s) \/ OmeCreate(s) \/ OmeInsert(s) \/
   SetOmeStreamInfoFind(s) \/ OmeInsertFails(s) \/ SetOmeStreamInfoWrite(s) \/
   SignallingCompleteFind(s) \/ SignallingCompleteWrite(s)
       PROVE  TimerInv'
  BY <1>9 DEF TypeOK, TimerInv, Created, At, ConnectFail, GoTo, ConnectAdd,
     SendHandshake, CallSetError, SigClose, SigRemove, RemoveSig,
     PostCloseSig, SetErrorFind, AfterSetError, SetErrorCheck, SetErrorWrite,
     OmeCreate, OmeInsert, SetOmeStreamInfoFind, OmeInsertFails, SetOmeStreamInfoWrite,
     SignallingCompleteFind, SignallingCompleteWrite
<1>10. CASE StartTimer \/ GcStart \/ GcScanned \/ GcSignallingRemoved \/
   GcNextManager
  <2>1. /\ UNCHANGED <<createTimer, live, sigPc, streamIndexKey>>
        /\ timerPc' = "create" => UNCHANGED <<timerPc, timerLeft>>
    BY <1>10 DEF StartTimer, GcStart, Lock, GcScanned, GcSignallingRemoved,
       GcNextManager
  <2>. QED
    BY <2>1 DEF TimerInv, Created
<1>11. ASSUME NEW s \in Streams, GcExamine(s) \/ Age(s) \/ RecvHandshake(s) \/
   SigCloseTimer(s)
       PROVE  TimerInv'
  <2>1. /\ UNCHANGED <<createTimer, live, sigPc, streamIndexKey>>
        /\ timerPc' = "create" => UNCHANGED <<timerPc, timerLeft>>
    BY <1>11 DEF GcExamine, Age, RecvHandshake, SigCloseTimer
  <2>. QED
    BY <2>1 DEF TimerInv, Created
<1>12. ASSUME NEW k \in gcSigKeys, GcRemoveSignalling(k)
       PROVE  TimerInv'
  <2>1. /\ UNCHANGED <<createTimer, live, sigPc, streamIndexKey>>
        /\ timerPc' = "create" => UNCHANGED <<timerPc, timerLeft>>
    BY <1>12 DEF GcRemoveSignalling, RemoveSig, PostCloseSig
  <2>. QED
    BY <2>1 DEF TimerInv, Created
<1>13. ASSUME NEW k \in gcOmeKeys, GcRemoveOme(k)
       PROVE  TimerInv'
  <2>1. /\ UNCHANGED <<createTimer, live, sigPc, streamIndexKey>>
        /\ timerPc' = "create" => UNCHANGED <<timerPc, timerLeft>>
    BY <1>13 DEF GcRemoveOme, RemoveOme, PostCloseOme
  <2>. QED
    BY <2>1 DEF TimerInv, Created
<1>14. ASSUME NEW o \in Sessions, SendBindingRequest(o) \/
   RecvBindingRequest(o) \/ RtpStart(o) \/ OmeSetStatusFind(o) \/
   OmeSetStatusWrite(o) \/ OmeError(o) \/ OmeRemove(o) \/ OmeCloseTimer(o)
       PROVE  TimerInv'
  <2>1. /\ UNCHANGED <<createTimer, live, sigPc, streamIndexKey>>
        /\ timerPc' = "create" => UNCHANGED <<timerPc, timerLeft>>
    BY <1>14 DEF SendBindingRequest, RecvBindingRequest, RtpStart,
       OmeSetStatusFind, OmeSetStatusWrite, OmeError, OmeRemove, RemoveOme,
       PostCloseOme, OmeCloseTimer
  <2>. QED
    BY <2>1 DEF TimerInv, Created
<1>15. CASE UNCHANGED vars
  BY <1>15 DEF TimerInv, Created, vars
<1>. QED
  BY <1>1, <1>2, <1>3, <1>4, <1>5, <1>6, <1>7, <1>8, <1>9, <1>10, <1>11,
     <1>12, <1>13, <1>14, <1>15 DEF Next, TimerThread, SigNetwork, SigHandler,
     OmeNetwork, OmeHandler

(* Only the two creation loops count streams, and neither passes its limit. *)
LEMMA LimitStep ==
    ASSUME TypeOK, TimerInv, LimitInv, CreatedWithinLimits, [Next]_vars
    PROVE  LimitInv' /\ CreatedWithinLimits'
<1>. USE DEF LimitInv, CreatedWithinLimits, MaxCountReached
<1>1. CASE StartTimer \/ StartDone \/ CreateTimer
  BY <1>1 DEF TypeOK, StartTimer, StartDone, CreateTimer
<1>2. CASE StartStream
  BY <1>2 DEF TypeOK, StartStream, NewStream
<1>3. CASE CreateNext
  BY <1>3 DEF TypeOK, CreateNext, NewStream
<1>4. CASE GcStart \/ GcScanned \/ GcSignallingRemoved \/ GcNextManager
  BY <1>4 DEF GcStart, GcScanned, GcSignallingRemoved, GcNextManager
<1>5. ASSUME NEW s \in Streams, GcExamine(s) \/ GcErase(s)
       PROVE  LimitInv' /\ CreatedWithinLimits'
  BY <1>5 DEF GcExamine, GcErase
<1>6. ASSUME UNCHANGED timerVars
       PROVE  LimitInv' /\ CreatedWithinLimits'
  BY <1>6
<1>7. (\E k \in gcSigKeys : GcRemoveSignalling(k)) \/ (\E k \in gcOmeKeys : GcRemoveOme(k))
        => UNCHANGED timerVars
  BY DEF GcRemoveSignalling, GcRemoveOme
<1>8. ASSUME NEW s \in Streams, Age(s) \/ SigNetwork(s) \/ SigHandler(s) \/ SigCloseTimer(s)
       PROVE  UNCHANGED timerVars
  BY <1>8 DEF Age, SigNetwork, ConnectFail, ConnectAdd, RecvHandshake, RecvBadHandshake,
     RecvOffer, RecvBadJson, SigError, SigHandler, SendHandshake, SigClose, SigRemove,
     SetErrorFind, SetErrorCheck, SetErrorWrite, OmeCreate, OmeInsert, SetOmeStreamInfoFind, OmeInsertFails,
     SetOmeStreamInfoWrite, SignallingCompleteFind, SignallingCompleteWrite, SigCloseTimer
<1>9. ASSUME NEW o \in Sessions,
             SendBindingRequest(o) \/ OmeNetwork(o) \/ OmeHandler(o) \/ OmeCloseTimer(o)
       PROVE  UNCHANGED timerVars
  BY <1>9 DEF SendBindingRequest, OmeNetwork, RecvBindingRequest, RtpStart, OmeError,
     OmeHandler, OmeSetStatusFind, OmeSetStatusWrite, OmeRemove, OmeCloseTimer
<1>10. CASE UNCHANGED vars
  BY <1>10 DEF vars
<1>. QED
  BY <1>1, <1>2, <1>3, <1>4, <1>5, <1>6, <1>7, <1>8, <1>9, <1>10 DEF Next, TimerThread

(* What the signalling thread relies on while it sets up a session.         *)
LEMMA SetupInvStep ==
    ASSUME TypeOK, TimerInv, SetupInv, [Next]_vars
    PROVE  SetupInv'
<1>1. CASE StartStream \/ CreateNext
  BY <1>1 DEF TypeOK, SetupInv, SetupPcs, CurrentSession, At, StartStream,
     NewStream, CreateNext
<1>2. ASSUME NEW k \in gcOmeKeys, GcRemoveOme(k)
       PROVE  SetupInv'
  BY <1>2, CurrentSessionType DEF TypeOK, SetupInv, SetupPcs, CurrentSession,
     At, GcRemoveOme, RemoveOme, PostCloseOme, OmeWithKey
<1>3. ASSUME NEW s \in Streams, RecvOffer(s)
       PROVE  SetupInv'
  <2>1. offers' = [offers EXCEPT ![s] = offers[s] + 1] /\ offers[s] \in Nat
    BY <1>3 DEF RecvOffer, TypeOK
  <2>2. CurrentSession(s)' \notin omeNet
    BY <2>1 DEF SetupInv, CurrentSession, TypeOK
  <2>. QED
    BY <1>3, <2>1, <2>2 DEF RecvOffer, CanReceive, At, GoTo, SetupInv, SetupPcs,
                          CurrentSession, TypeOK, Sessions
<1>4. ASSUME NEW s \in Streams, ConnectFail(s) \/ ConnectAdd(s) \/
   SendHandshake(s) \/ RecvBadHandshake(s) \/ RecvBadJson(s) \/ SigError(s) \/
   SigClose(s) \/ SigRemove(s) \/ SetOmeStreamInfoFind(s) \/ OmeInsertFails(s) \/
   SetOmeStreamInfoWrite(s) \/ SignallingCompleteFind(s) \/
   SignallingCompleteWrite(s)
       PROVE  SetupInv'
  BY <1>4 DEF TypeOK, SetupInv, SetupPcs, CurrentSession, At, ConnectFail,
     GoTo, ConnectAdd, SendHandshake, CallSetError, RecvBadHandshake,
     RecvBadJson, SigError, SigClose, SigRemove, RemoveSig, PostCloseSig,
     SetOmeStreamInfoFind, OmeInsertFails, SetOmeStreamInfoWrite, SignallingCompleteFind,
     SignallingCompleteWrite
<1>5. ASSUME NEW s \in Streams, SetErrorFind(s) \/ SetErrorCheck(s) \/
   SetErrorWrite(s)
       PROVE  SetupInv'
  BY <1>5 DEF TypeOK, SetupInv, SetupPcs, CurrentSession, At, SetErrorFind,
     GoTo, AfterSetError, SetErrorCheck, SetErrorWrite
<1>6. ASSUME NEW s \in Streams, OmeCreate(s)
       PROVE  SetupInv'
  BY <1>6, CurrentSessionType DEF TypeOK, SetupInv, SetupPcs, CurrentSession,
     At, OmeCreate, GoTo
<1>7. ASSUME NEW s \in Streams, OmeInsert(s)
       PROVE  SetupInv'
  BY <1>7 DEF TypeOK, SetupInv, SetupPcs, CurrentSession, At, OmeInsert, GoTo
<1>8. ASSUME NEW o \in Sessions, OmeRemove(o)
       PROVE  SetupInv'
  BY <1>8, CurrentSessionType DEF TypeOK, SetupInv, SetupPcs, CurrentSession,
     At, OmeRemove, RemoveOme, PostCloseOme, OmeWithKey
<1>9. ASSUME NEW o \in Sessions, OmeCloseTimer(o)
       PROVE  SetupInv'
  BY <1>9 DEF TypeOK, SetupInv, SetupPcs, CurrentSession, At, OmeCloseTimer
<1>10. CASE StartTimer \/ StartDone \/ CreateTimer \/ GcStart \/ GcScanned \/
   GcSignallingRemoved \/ GcNextManager
  BY <1>10 DEF TypeOK, SetupInv, SetupPcs, CurrentSession, At, StartTimer,
     StartDone, CreateTimer, GcStart, Lock, GcScanned, GcSignallingRemoved,
     GcNextManager
<1>11. ASSUME NEW s \in Streams, GcExamine(s) \/ GcErase(s) \/ Age(s) \/
   RecvHandshake(s) \/ SigCloseTimer(s)
       PROVE  SetupInv'
  BY <1>11 DEF TypeOK, SetupInv, SetupPcs, CurrentSession, At, GcExamine,
     GcErase, Age, RecvHandshake, SigCloseTimer
<1>12. ASSUME NEW k \in gcSigKeys, GcRemoveSignalling(k)
       PROVE  SetupInv'
  BY <1>12 DEF TypeOK, SetupInv, SetupPcs, CurrentSession, At,
     GcRemoveSignalling, RemoveSig, PostCloseSig
<1>13. ASSUME NEW o \in Sessions, SendBindingRequest(o) \/
   RecvBindingRequest(o) \/ RtpStart(o) \/ OmeSetStatusFind(o) \/
   OmeSetStatusWrite(o) \/ OmeError(o)
       PROVE  SetupInv'
  BY <1>13 DEF TypeOK, SetupInv, SetupPcs, CurrentSession, At,
     SendBindingRequest, RecvBindingRequest, RtpStart, OmeSetStatusFind,
     OmeSetStatusWrite, OmeError
<1>14. CASE UNCHANGED vars
  BY <1>14 DEF TypeOK, SetupInv, SetupPcs, CurrentSession, At, vars
<1>. QED
  BY <1>1, <1>2, <1>3, <1>4, <1>5, <1>6, <1>7, <1>8, <1>9, <1>10, <1>11,
     <1>12, <1>13, <1>14 DEF Next, TimerThread, SigNetwork, SigHandler,
     OmeNetwork, OmeHandler

(* Keys of sessions: given once, held by the right StreamInfo, and collected *)
(* by GarbageCheck only together with the stream.                           *)
LEMMA KeyInvStep ==
    ASSUME TypeOK, TimerInv, SetupInv, KeyInv, [Next]_vars
    PROVE  KeyInv'
<1>1. CASE StartStream \/ CreateNext
  <2>1. NewStream /\ UNCHANGED omeVars /\ UNCHANGED gcVars
    BY <1>1 DEF StartStream, CreateNext
  <2>. QED
    BY <2>1 DEF NewStream, TypeOK, KeyInv, NoKey, Created
<1>2. ASSUME NEW s \in Streams, GcErase(s)
       PROVE  KeyInv'
  BY <1>2 DEF KeyInv, NoKey, Created, GcErase, TypeOK
<1>3. ASSUME NEW k \in gcOmeKeys, GcRemoveOme(k)
       PROVE  KeyInv'
  BY <1>3 DEF KeyInv, NoKey, Created, GcRemoveOme, RemoveOme, PostCloseOme
<1>4. ASSUME NEW s \in Streams, OmeInsert(s)
       PROVE  KeyInv'
  BY <1>4, CurrentSessionType DEF KeyInv, NoKey, Created, OmeInsert, GoTo, At,
     SetupPcs, TimerInv, TypeOK, CurrentSession
<1>5. ASSUME NEW s \in Streams, SetOmeStreamInfoWrite(s)
       PROVE  KeyInv'
  BY <1>5, CurrentSessionType DEF KeyInv, NoKey, Created,
     SetOmeStreamInfoWrite, GoTo, At, SetupPcs, CurrentSession, TypeOK
<1>6. ASSUME NEW o \in Sessions, OmeRemove(o)
       PROVE  KeyInv'
  BY <1>6 DEF KeyInv, NoKey, Created, OmeRemove, RemoveOme, PostCloseOme
<1>7. CASE StartTimer \/ StartDone \/ CreateTimer \/ GcStart \/ GcScanned \/
   GcSignallingRemoved \/ GcNextManager
  BY <1>7 DEF KeyInv, NoKey, Created, StartTimer, StartDone, CreateTimer,
     GcStart, Lock, GcScanned, GcSignallingRemoved, GcNextManager
<1>8. ASSUME NEW s \in Streams, GcExamine(s) \/ Age(s) \/ ConnectFail(s) \/
   ConnectAdd(s) \/ SendHandshake(s) \/ RecvHandshake(s) \/
   RecvBadHandshake(s) \/ RecvOffer(s) \/ RecvBadJson(s) \/ SigError(s) \/
   SigClose(s) \/ SigRemove(s) \/ SetErrorFind(s) \/ SetErrorCheck(s) \/
   SetErrorWrite(s) \/ OmeCreate(s) \/ SetOmeStreamInfoFind(s) \/ OmeInsertFails(s) \/
   SignallingCompleteFind(s) \/ SignallingCompleteWrite(s) \/ SigCloseTimer(s)
       PROVE  KeyInv'
  BY <1>8 DEF KeyInv, NoKey, Created, GcExamine, Age, ConnectFail, GoTo,
     ConnectAdd, SendHandshake, CallSetError, RecvHandshake, RecvBadHandshake,
     RecvOffer, RecvBadJson, SigError, SigClose, SigRemove, RemoveSig,
     PostCloseSig, SetErrorFind, AfterSetError, SetErrorCheck, SetErrorWrite,
     OmeCreate, SetOmeStreamInfoFind, OmeInsertFails, SignallingCompleteFind,
     SignallingCompleteWrite, SigCloseTimer
<1>9. ASSUME NEW k \in gcSigKeys, GcRemoveSignalling(k)
       PROVE  KeyInv'
  BY <1>9 DEF KeyInv, NoKey, Created, GcRemoveSignalling, RemoveSig,
     PostCloseSig
<1>10. ASSUME NEW o \in Sessions, SendBindingRequest(o) \/
   RecvBindingRequest(o) \/ RtpStart(o) \/ OmeSetStatusFind(o) \/
   OmeSetStatusWrite(o) \/ OmeError(o) \/ OmeCloseTimer(o)
       PROVE  KeyInv'
  BY <1>10 DEF KeyInv, NoKey, Created, SendBindingRequest, RecvBindingRequest,
     RtpStart, OmeSetStatusFind, OmeSetStatusWrite, OmeError, OmeCloseTimer
<1>11. CASE UNCHANGED vars
  BY <1>11 DEF KeyInv, NoKey, Created, vars
<1>. QED
  BY <1>1, <1>2, <1>3, <1>4, <1>5, <1>6, <1>7, <1>8, <1>9, <1>10, <1>11 DEF
     Next, TimerThread, SigNetwork, SigHandler, OmeNetwork, OmeHandler

(* No step closes an object that stays in a map, or inserts a closed one.   *)
LEMMA ClosedStep ==
    ASSUME TypeOK, SetupInv, ClosedIsUnregistered, [Next]_vars
    PROVE  ClosedIsUnregistered'
<1>1. ASSUME NEW k \in gcSigKeys, GcRemoveSignalling(k)
       PROVE  ClosedIsUnregistered'
  BY <1>1 DEF TypeOK, ClosedIsUnregistered, GcRemoveSignalling, RemoveSig,
     PostCloseSig
<1>2. ASSUME NEW k \in gcOmeKeys, GcRemoveOme(k)
       PROVE  ClosedIsUnregistered'
  BY <1>2 DEF TypeOK, ClosedIsUnregistered, GcRemoveOme, RemoveOme,
     PostCloseOme
<1>3. ASSUME NEW s \in Streams, ConnectAdd(s) \/ SigCloseTimer(s)
       PROVE  ClosedIsUnregistered'
  BY <1>3 DEF TypeOK, ClosedIsUnregistered, ConnectAdd, GoTo, SigCloseTimer
<1>4. ASSUME NEW s \in Streams, SigRemove(s)
       PROVE  ClosedIsUnregistered'
  BY <1>4 DEF TypeOK, ClosedIsUnregistered, SigRemove, GoTo, CallSetError,
     RemoveSig, PostCloseSig
<1>5. ASSUME NEW s \in Streams, OmeCreate(s)
       PROVE  ClosedIsUnregistered'
  BY <1>5 DEF TypeOK, ClosedIsUnregistered, OmeCreate, GoTo, SetupInv, At
<1>6. ASSUME NEW s \in Streams, OmeInsert(s)
       PROVE  ClosedIsUnregistered'
  BY <1>6 DEF TypeOK, ClosedIsUnregistered, OmeInsert, GoTo, SetupInv, At
<1>7. ASSUME NEW o \in Sessions, OmeRemove(o)
       PROVE  ClosedIsUnregistered'
  BY <1>7 DEF TypeOK, ClosedIsUnregistered, OmeRemove, RemoveOme, PostCloseOme
<1>8. ASSUME NEW o \in Sessions, OmeCloseTimer(o)
       PROVE  ClosedIsUnregistered'
  BY <1>8 DEF TypeOK, ClosedIsUnregistered, OmeCloseTimer
<1>9. CASE StartTimer \/ StartStream \/ StartDone \/ CreateTimer \/ CreateNext
   \/ GcStart \/ GcScanned \/ GcSignallingRemoved \/ GcNextManager
  BY <1>9 DEF TypeOK, ClosedIsUnregistered, StartTimer, StartStream,
     NewStream, StartDone, CreateTimer, CreateNext, GcStart, Lock, GcScanned,
     GcSignallingRemoved, GcNextManager
<1>10. ASSUME NEW s \in Streams, GcExamine(s) \/ GcErase(s) \/ Age(s) \/
   ConnectFail(s) \/ SendHandshake(s) \/ RecvHandshake(s) \/
   RecvBadHandshake(s) \/ RecvOffer(s) \/ RecvBadJson(s) \/ SigError(s) \/
   SigClose(s) \/ SetErrorFind(s) \/ SetErrorCheck(s) \/ SetErrorWrite(s) \/
   SetOmeStreamInfoFind(s) \/ OmeInsertFails(s) \/ SetOmeStreamInfoWrite(s) \/
   SignallingCompleteFind(s) \/ SignallingCompleteWrite(s)
       PROVE  ClosedIsUnregistered'
  BY <1>10 DEF TypeOK, ClosedIsUnregistered, GcExamine, GcErase, Age,
     ConnectFail, GoTo, SendHandshake, CallSetError, RecvHandshake,
     RecvBadHandshake, RecvOffer, RecvBadJson, SigError, SigClose,
     SetErrorFind, AfterSetError, SetErrorCheck, SetErrorWrite,
     SetOmeStreamInfoFind, OmeInsertFails, SetOmeStreamInfoWrite, SignallingCompleteFind,
     SignallingCompleteWrite
<1>11. ASSUME NEW o \in Sessions, SendBindingRequest(o) \/
   RecvBindingRequest(o) \/ RtpStart(o) \/ OmeSetStatusFind(o) \/
   OmeSetStatusWrite(o) \/ OmeError(o)
       PROVE  ClosedIsUnregistered'
  BY <1>11 DEF TypeOK, ClosedIsUnregistered, SendBindingRequest,
     RecvBindingRequest, RtpStart, OmeSetStatusFind, OmeSetStatusWrite,
     OmeError
<1>12. CASE UNCHANGED vars
  BY <1>12 DEF TypeOK, ClosedIsUnregistered, vars
<1>. QED
  BY <1>1, <1>2, <1>3, <1>4, <1>5, <1>6, <1>7, <1>8, <1>9, <1>10, <1>11, <1>12
     DEF Next, TimerThread, SigNetwork, SigHandler, OmeNetwork, OmeHandler

(* Between the read and the write of GarbageCheck and of SetError, nobody   *)
(* invalidates what was read.                                               *)
LEMMA CheckInvStep ==
    ASSUME TypeOK, TimerInv, CheckInv, [Next]_vars
    PROVE  CheckInv'
<1>1. CASE StartStream \/ CreateNext
  BY <1>1 DEF TypeOK, CheckInv, IsNext, At, StartStream, NewStream, CreateNext
<1>2. CASE GcStart \/ GcNextManager
  BY <1>2 DEF TypeOK, CheckInv, IsNext, At, GcStart, Lock, GcNextManager
<1>3. ASSUME NEW s \in Streams, GcExamine(s)
       PROVE  CheckInv'
  <2>1. \A t \in gcTodo : IsNext(t) => t = s
    BY <1>3 DEF GcExamine, IsNext, TypeOK, Streams
  <2>2. UNCHANGED <<live, error, old, sigPc, sigErr>> /\ gcTodo' \subseteq gcTodo
    BY <1>3 DEF GcExamine
  <2>3. CASE gcTodo' = gcTodo
    BY <1>3, <2>1, <2>2, <2>3 DEF GcExamine, IsNext, CheckInv
  <2>4. CASE timerPc' = timerPc
    BY <1>3, <2>2, <2>4 DEF GcExamine, CheckInv
  <2>. QED
    BY <1>3, <2>3, <2>4 DEF GcExamine
<1>4. ASSUME NEW s \in Streams, GcErase(s)
       PROVE  CheckInv'
  BY <1>4 DEF TypeOK, CheckInv, IsNext, At, GcErase
<1>5. ASSUME NEW s \in Streams, Age(s)
       PROVE  CheckInv'
  BY <1>5 DEF TypeOK, CheckInv, IsNext, At, Age
<1>6. ASSUME NEW s \in Streams, SetErrorFind(s)
       PROVE  CheckInv'
  BY <1>6 DEF TypeOK, CheckInv, IsNext, At, SetErrorFind, GoTo, AfterSetError
<1>7. ASSUME NEW s \in Streams, SetErrorCheck(s)
       PROVE  CheckInv'
  BY <1>7 DEF TypeOK, CheckInv, IsNext, At, SetErrorCheck, GoTo, AfterSetError
<1>8. ASSUME NEW s \in Streams, SetErrorWrite(s)
       PROVE  CheckInv'
  BY <1>8 DEF TypeOK, CheckInv, IsNext, At, SetErrorWrite, GoTo, AfterSetError
<1>9. ASSUME NEW s \in Streams, ConnectFail(s) \/ ConnectAdd(s) \/
   SendHandshake(s) \/ RecvBadHandshake(s) \/ RecvOffer(s) \/ RecvBadJson(s)
   \/ SigError(s) \/ SigClose(s) \/ SigRemove(s) \/ OmeCreate(s) \/
   OmeInsert(s) \/ SetOmeStreamInfoFind(s) \/ OmeInsertFails(s) \/ SetOmeStreamInfoWrite(s) \/
   SignallingCompleteFind(s) \/ SignallingCompleteWrite(s)
       PROVE  CheckInv'
  BY <1>9 DEF TypeOK, CheckInv, IsNext, At, ConnectFail, GoTo, ConnectAdd,
     SendHandshake, CallSetError, RecvBadHandshake, RecvOffer, RecvBadJson,
     SigError, SigClose, SigRemove, RemoveSig, PostCloseSig, OmeCreate,
     OmeInsert, SetOmeStreamInfoFind, OmeInsertFails, SetOmeStreamInfoWrite,
     SignallingCompleteFind, SignallingCompleteWrite
<1>10. CASE StartTimer \/ StartDone \/ CreateTimer \/ GcScanned \/
   GcSignallingRemoved
  BY <1>10 DEF TypeOK, CheckInv, IsNext, At, StartTimer, StartDone,
     CreateTimer, GcScanned, GcSignallingRemoved
<1>11. ASSUME NEW s \in Streams, RecvHandshake(s) \/ SigCloseTimer(s)
       PROVE  CheckInv'
  BY <1>11 DEF TypeOK, CheckInv, IsNext, At, RecvHandshake, SigCloseTimer
<1>12. ASSUME NEW k \in gcSigKeys, GcRemoveSignalling(k)
       PROVE  CheckInv'
  BY <1>12 DEF TypeOK, CheckInv, IsNext, At, GcRemoveSignalling, RemoveSig,
     PostCloseSig
<1>13. ASSUME NEW k \in gcOmeKeys, GcRemoveOme(k)
       PROVE  CheckInv'
  BY <1>13 DEF TypeOK, CheckInv, IsNext, At, GcRemoveOme, RemoveOme,
     PostCloseOme
<1>14. ASSUME NEW o \in Sessions, SendBindingRequest(o) \/
   RecvBindingRequest(o) \/ RtpStart(o) \/ OmeSetStatusFind(o) \/
   OmeSetStatusWrite(o) \/ OmeError(o) \/ OmeRemove(o) \/ OmeCloseTimer(o)
       PROVE  CheckInv'
  BY <1>14 DEF TypeOK, CheckInv, IsNext, At, SendBindingRequest,
     RecvBindingRequest, RtpStart, OmeSetStatusFind, OmeSetStatusWrite,
     OmeError, OmeRemove, RemoveOme, PostCloseOme, OmeCloseTimer
<1>15. CASE UNCHANGED vars
  BY <1>15 DEF TypeOK, CheckInv, IsNext, At, vars
<1>. QED
  BY <1>1, <1>2, <1>3, <1>4, <1>5, <1>6, <1>7, <1>8, <1>9, <1>10, <1>11,
     <1>12, <1>13, <1>14, <1>15 DEF Next, TimerThread, SigNetwork, SigHandler,
     OmeNetwork, OmeHandler

(* An error of a stream that stays in the manager is never replaced.        *)
LEMMA FirstErrorStep ==
    ASSUME TypeOK, TimerInv, CheckInv, [Next]_vars
    PROVE  FirstErrorKeptStep
<1>1. CASE StartStream \/ CreateNext
  <2>1. streamIndexKey \notin live /\ error' = [error EXCEPT ![streamIndexKey] = "None"]
    BY <1>1 DEF StartStream, CreateNext, NewStream, TimerInv, Created, TypeOK
  <2>. QED
    BY <2>1 DEF TypeOK, FirstErrorKeptStep
<1>2. ASSUME NEW s \in Streams, GcErase(s)
       PROVE  FirstErrorKeptStep
  BY <1>2 DEF FirstErrorKeptStep, TypeOK, GcErase
<1>3. ASSUME NEW s \in Streams, SetErrorWrite(s)
       PROVE  FirstErrorKeptStep
  BY <1>3 DEF FirstErrorKeptStep, TypeOK, SetErrorWrite, GoTo, AfterSetError,
     At, CheckInv
<1>4. CASE StartTimer \/ StartDone \/ CreateTimer \/ GcStart \/ GcScanned \/
   GcSignallingRemoved \/ GcNextManager
  <2>1. UNCHANGED error
    BY <1>4 DEF StartTimer, StartDone, CreateTimer, GcStart, Lock, GcScanned,
       GcSignallingRemoved, GcNextManager
  <2>. QED
    BY <2>1 DEF FirstErrorKeptStep
<1>5. ASSUME NEW s \in Streams, GcExamine(s) \/ Age(s) \/ ConnectFail(s) \/
   ConnectAdd(s) \/ SendHandshake(s) \/ RecvHandshake(s) \/
   RecvBadHandshake(s) \/ RecvOffer(s) \/ RecvBadJson(s) \/ SigError(s) \/
   SigClose(s) \/ SigRemove(s) \/ SetErrorFind(s) \/ SetErrorCheck(s) \/
   OmeCreate(s) \/ OmeInsert(s) \/ SetOmeStreamInfoFind(s) \/ OmeInsertFails(s) \/
   SetOmeStreamInfoWrite(s) \/ SignallingCompleteFind(s) \/
   SignallingCompleteWrite(s) \/ SigCloseTimer(s)
       PROVE  FirstErrorKeptStep
  <2>1. UNCHANGED error
    BY <1>5 DEF GcExamine, Age, ConnectFail, GoTo, ConnectAdd, SendHandshake,
       CallSetError, RecvHandshake, RecvBadHandshake, RecvOffer, RecvBadJson,
       SigError, SigClose, SigRemove, RemoveSig, PostCloseSig, SetErrorFind,
       AfterSetError, SetErrorCheck, OmeCreate, OmeInsert,
       SetOmeStreamInfoFind, OmeInsertFails, SetOmeStreamInfoWrite, SignallingCompleteFind,
       SignallingCompleteWrite, SigCloseTimer
  <2>. QED
    BY <2>1 DEF FirstErrorKeptStep
<1>6. ASSUME NEW k \in gcSigKeys, GcRemoveSignalling(k)
       PROVE  FirstErrorKeptStep
  <2>1. UNCHANGED error
    BY <1>6 DEF GcRemoveSignalling, RemoveSig, PostCloseSig
  <2>. QED
    BY <2>1 DEF FirstErrorKeptStep
<1>7. ASSUME NEW k \in gcOmeKeys, GcRemoveOme(k)
       PROVE  FirstErrorKeptStep
  <2>1. UNCHANGED error
    BY <1>7 DEF GcRemoveOme, RemoveOme, PostCloseOme
  <2>. QED
    BY <2>1 DEF FirstErrorKeptStep
<1>8. ASSUME NEW o \in Sessions, SendBindingRequest(o) \/
   RecvBindingRequest(o) \/ RtpStart(o) \/ OmeSetStatusFind(o) \/
   OmeSetStatusWrite(o) \/ OmeError(o) \/ OmeRemove(o) \/ OmeCloseTimer(o)
       PROVE  FirstErrorKeptStep
  <2>1. UNCHANGED error
    BY <1>8 DEF SendBindingRequest, RecvBindingRequest, RtpStart,
       OmeSetStatusFind, OmeSetStatusWrite, OmeError, OmeRemove, RemoveOme,
       PostCloseOme, OmeCloseTimer
  <2>. QED
    BY <2>1 DEF FirstErrorKeptStep
<1>9. CASE UNCHANGED vars
  BY <1>9 DEF FirstErrorKeptStep, vars
<1>. QED
  BY <1>1, <1>2, <1>3, <1>4, <1>5, <1>6, <1>7, <1>8, <1>9 DEF Next,
     TimerThread, SigNetwork, SigHandler, OmeNetwork, OmeHandler

(* A step of neither the signalling nor the media thread's set-up gives no   *)
(* stream the status Streaming.                                              *)
LEMMA MediaKept ==
    ASSUME MediaInv, UNCHANGED <<omePc, omeSet, omePhase, offers>>,
           \A s \in Streams : status'[s] = "Streaming" => status[s] = "Streaming"
    PROVE  MediaInv'
  BY DEF MediaInv

(* A stream is Streaming because a media session of it has started, and what *)
(* a session that has started still tells is just that.                      *)
LEMMA MediaInvStep ==
    ASSUME TypeOK, SetupInv, MediaInv, [Next]_vars
    PROVE  MediaInv'
<1>1. CASE StartStream \/ CreateNext
  <2>1. /\ UNCHANGED <<omePc, omeSet, omePhase, offers>>
        /\ status' = [status EXCEPT ![streamIndexKey] = "Ready"]
    BY <1>1 DEF StartStream, CreateNext, NewStream
  <2>. QED
    BY <2>1, MediaKept DEF TypeOK
<1>2. ASSUME NEW s \in Streams, RecvOffer(s)
      PROVE  MediaInv'
  <2>1. /\ UNCHANGED <<omePc, omeSet, omePhase, status>>
        /\ offers' = [offers EXCEPT ![s] = @ + 1]
    BY <1>2 DEF RecvOffer
  <2>2. \A t \in Streams : offers[t] <= offers'[t] /\ offers[t] \in Nat /\ offers'[t] \in Nat
    BY <2>1 DEF TypeOK
  <2>3. \A o \in Sessions : o[1] \in Streams /\ o[2] \in Nat
    BY DEF Sessions
  <2>. QED
    BY <2>1, <2>2, <2>3 DEF MediaInv
<1>3. ASSUME NEW s \in Streams, OmeCreate(s)
      PROVE  MediaInv'
  <2>1. /\ UNCHANGED <<omeSet, omePhase, status, offers>>
        /\ omePc' = [omePc EXCEPT ![CurrentSession(s)] = "idle"]
    BY <1>3 DEF OmeCreate
  <2>2. offers[s] <= offers[s]
    BY DEF TypeOK
  <2>. QED
    BY <2>1, <2>2 DEF MediaInv, TypeOK, CurrentSession
<1>4. ASSUME NEW s \in Streams, SignallingCompleteWrite(s)
      PROVE  MediaInv'
  <2>1. /\ UNCHANGED <<omePc, omeSet, omePhase, offers>>
        /\ status' = [status EXCEPT ![s] = "SignallingComplete"]
    BY <1>4 DEF SignallingCompleteWrite
  <2>. QED
    BY <2>1, MediaKept DEF TypeOK
<1>5. ASSUME NEW o \in Sessions, SendBindingRequest(o) \/ RecvBindingRequest(o) \/ RtpStart(o)
      PROVE  MediaInv'
  <2>1. UNCHANGED <<status, offers>> /\ omePc[o] = "idle"
    BY <1>5 DEF SendBindingRequest, RecvBindingRequest, RtpStart, OmeReady
  <2>2. \A p \in Sessions \ {o} : /\ omePc'[p] = omePc[p] /\ omeSet'[p] = omeSet[p]
                                  /\ omePhase'[p] = omePhase[p]
    BY <1>5 DEF SendBindingRequest, RecvBindingRequest, RtpStart, TypeOK
  <2>3. omePhase[o] = "rtp" => omePhase'[o] = "rtp"
    BY <1>5 DEF SendBindingRequest, RecvBindingRequest, RtpStart
  <2>4. omePc'[o] \in {"statusFind", "statusWrite"} =>
            omeSet'[o] = IF omePhase'[o] = "rtp" THEN "Streaming" ELSE "StunComplete"
    BY <1>5, <2>1 DEF SendBindingRequest, RecvBindingRequest, RtpStart, TypeOK
  <2>. QED
    BY <2>1, <2>2, <2>3, <2>4 DEF MediaInv
<1>6. ASSUME NEW o \in Sessions, OmeSetStatusFind(o) \/ OmeError(o) \/ OmeRemove(o)
      PROVE  MediaInv'
  <2>1. /\ UNCHANGED <<omeSet, omePhase, status, offers>>
        /\ \E pc \in {"statusWrite", "idle", "remove"} :
              /\ omePc' = [omePc EXCEPT ![o] = pc]
              /\ pc = "statusWrite" => omePc[o] = "statusFind"
        /\ omePc[o] # "none"
    BY <1>6 DEF OmeSetStatusFind, OmeError, OmeRemove, OmeReady
  <2>. QED
    BY <2>1 DEF MediaInv, TypeOK
<1>7. ASSUME NEW o \in Sessions, OmeSetStatusWrite(o)
      PROVE  MediaInv'
  <2>1. /\ UNCHANGED <<omeSet, omePhase, offers>> /\ omePc[o] = "statusWrite"
        /\ omePc' = [omePc EXCEPT ![o] = "idle"]
        /\ status' = [status EXCEPT ![o[1]] = omeSet[o]]
    BY <1>7 DEF OmeSetStatusWrite
  <2>2. omeSet[o] = "Streaming" => omePhase[o] = "rtp"
    BY <2>1 DEF MediaInv
  <2>3. ASSUME NEW s \in Streams, status'[s] = "Streaming"
        PROVE  \E p \in Sessions : p[1] = s /\ omePhase'[p] = "rtp"
    BY <2>1, <2>2, <2>3 DEF MediaInv, TypeOK
  <2>. QED
    BY <2>1, <2>3 DEF MediaInv, TypeOK
<1>8. CASE StartTimer \/ StartDone \/ CreateTimer \/ GcStart \/ GcScanned \/
   GcSignallingRemoved \/ GcNextManager
  <2>1. UNCHANGED <<omePc, omeSet, omePhase, offers, status>>
    BY <1>8 DEF StartTimer, StartDone, CreateTimer, GcStart, Lock, GcScanned,
       GcSignallingRemoved, GcNextManager
  <2>. QED
    BY <2>1, MediaKept
<1>9. ASSUME NEW s \in Streams, GcExamine(s) \/ GcErase(s) \/ Age(s) \/ ConnectFail(s) \/
   ConnectAdd(s) \/ SendHandshake(s) \/ RecvHandshake(s) \/
   RecvBadHandshake(s) \/ RecvBadJson(s) \/ SigError(s) \/
   SigClose(s) \/ SigRemove(s) \/ SetErrorFind(s) \/ SetErrorCheck(s) \/
   SetErrorWrite(s) \/ OmeInsert(s) \/ SetOmeStreamInfoFind(s) \/ OmeInsertFails(s) \/
   SetOmeStreamInfoWrite(s) \/ SignallingCompleteFind(s) \/ SigCloseTimer(s)
      PROVE  MediaInv'
  <2>1. UNCHANGED <<omePc, omeSet, omePhase, offers, status>>
    BY <1>9 DEF GcExamine, GcErase, Age, ConnectFail, GoTo, ConnectAdd, SendHandshake,
       CallSetError, RecvHandshake, RecvBadHandshake, RecvBadJson,
       SigError, SigClose, SigRemove, RemoveSig, PostCloseSig, SetErrorFind,
       AfterSetError, SetErrorCheck, SetErrorWrite, OmeInsert,
       SetOmeStreamInfoFind, OmeInsertFails, SetOmeStreamInfoWrite, SignallingCompleteFind, SigCloseTimer
  <2>. QED
    BY <2>1, MediaKept
<1>10. ASSUME NEW k \in gcSigKeys, GcRemoveSignalling(k)
       PROVE  MediaInv'
  <2>1. UNCHANGED <<omePc, omeSet, omePhase, offers, status>>
    BY <1>10 DEF GcRemoveSignalling, RemoveSig, PostCloseSig
  <2>. QED
    BY <2>1, MediaKept
<1>11. ASSUME NEW k \in gcOmeKeys, GcRemoveOme(k)
       PROVE  MediaInv'
  <2>1. UNCHANGED <<omePc, omeSet, omePhase, offers, status>>
    BY <1>11 DEF GcRemoveOme, RemoveOme, PostCloseOme
  <2>. QED
    BY <2>1, MediaKept
<1>12. CASE (\E o \in Sessions : OmeCloseTimer(o)) \/ UNCHANGED vars
  <2>1. UNCHANGED <<omePc, omeSet, omePhase, offers, status>>
    BY <1>12 DEF OmeCloseTimer, vars
  <2>. QED
    BY <2>1, MediaKept
<1>. QED
  BY <1>1, <1>2, <1>3, <1>4, <1>5, <1>6, <1>7, <1>8, <1>9, <1>10, <1>11, <1>12 DEF Next,
     TimerThread, SigNetwork, SigHandler, OmeNetwork, OmeHandler

(* A stream that is Streaming is told something else by its signalling       *)
(* thread only, or by another session than the one that started.             *)
LEMMA StreamingStep ==
    ASSUME TypeOK, TimerInv, MediaInv, [Next]_vars
    PROVE  StreamingLostStep
<1>1. CASE StartStream \/ CreateNext
  <2>1. streamIndexKey \notin live /\ status' = [status EXCEPT ![streamIndexKey] = "Ready"]
    BY <1>1 DEF StartStream, CreateNext, NewStream, TimerInv, Created, TypeOK
  <2>. QED
    BY <2>1 DEF TypeOK, StreamingLostStep
<1>2. ASSUME NEW s \in Streams, SignallingCompleteWrite(s)
      PROVE  StreamingLostStep
  BY <1>2 DEF StreamingLostStep, TypeOK, SignallingCompleteWrite
<1>3. ASSUME NEW o \in Sessions, OmeSetStatusWrite(o)
      PROVE  StreamingLostStep
  <2>1. /\ omePc[o] = "statusWrite"
        /\ status' = [status EXCEPT ![o[1]] = omeSet[o]]
    BY <1>3 DEF OmeSetStatusWrite
  <2>2. ASSUME NEW s \in live, status[s] = "Streaming", status'[s] # "Streaming",
               ~(offers[s] > 1)
        PROVE  FALSE
    <3>1. s \in Streams /\ s = o[1] /\ omeSet[o] # "Streaming"
      BY <2>1, <2>2 DEF TypeOK
    <3>2. PICK p \in Sessions : p[1] = s /\ omePhase[p] = "rtp"
      BY <2>2, <3>1 DEF MediaInv
    <3>3. o[2] <= offers[s] /\ p[2] <= offers[s]
      BY <2>1, <3>1, <3>2 DEF MediaInv
    <3>4. o = p
      <4>1. \A q \in {o, p} : q = <<q[1], q[2]>> /\ q[2] \in Nat /\ q[2] >= 1
        BY DEF Sessions
      <4>2. offers[s] \in Nat
        BY <3>1 DEF TypeOK
      <4>3. o[2] = 1 /\ p[2] = 1
        BY <2>2, <3>3, <4>1, <4>2
      <4>. QED
        BY <3>1, <3>2, <4>1, <4>3
    <3>5. omeSet[o] = IF omePhase[o] = "rtp" THEN "Streaming" ELSE "StunComplete"
      BY <2>1 DEF MediaInv
    <3>. QED
      BY <3>1, <3>2, <3>4, <3>5
  <2>. QED
    BY <2>2 DEF StreamingLostStep
<1>4. CASE StartTimer \/ StartDone \/ CreateTimer \/ GcStart \/ GcScanned \/
   GcSignallingRemoved \/ GcNextManager
  <2>1. UNCHANGED status
    BY <1>4 DEF StartTimer, StartDone, CreateTimer, GcStart, Lock, GcScanned,
       GcSignallingRemoved, GcNextManager
  <2>. QED
    BY <2>1 DEF StreamingLostStep
<1>5. ASSUME NEW s \in Streams, GcExamine(s) \/ GcErase(s) \/ Age(s) \/ ConnectFail(s) \/
   ConnectAdd(s) \/ SendHandshake(s) \/ RecvHandshake(s) \/
   RecvBadHandshake(s) \/ RecvOffer(s) \/ RecvBadJson(s) \/ SigError(s) \/
   SigClose(s) \/ SigRemove(s) \/ SetErrorFind(s) \/ SetErrorCheck(s) \/
   SetErrorWrite(s) \/ OmeCreate(s) \/ OmeInsert(s) \/ SetOmeStreamInfoFind(s) \/ OmeInsertFails(s) \/
   SetOmeStreamInfoWrite(s) \/ SignallingCompleteFind(s) \/ SigCloseTimer(s)
      PROVE  StreamingLostStep
  <2>1. UNCHANGED status
    BY <1>5 DEF GcExamine, GcErase, Age, ConnectFail, GoTo, ConnectAdd, SendHandshake,
       CallSetError, RecvHandshake, RecvBadHandshake, RecvOffer, RecvBadJson,
       SigError, SigClose, SigRemove, RemoveSig, PostCloseSig, SetErrorFind,
       AfterSetError, SetErrorCheck, SetErrorWrite, OmeCreate, OmeInsert,
       SetOmeStreamInfoFind, OmeInsertFails, SetOmeStreamInfoWrite, SignallingCompleteFind, SigCloseTimer
  <2>. QED
    BY <2>1 DEF StreamingLostStep
<1>6. ASSUME NEW k \in gcSigKeys, GcRemoveSignalling(k)
      PROVE  StreamingLostStep
  <2>1. UNCHANGED status
    BY <1>6 DEF GcRemoveSignalling, RemoveSig, PostCloseSig
  <2>. QED
    BY <2>1 DEF StreamingLostStep
<1>7. ASSUME NEW k \in gcOmeKeys, GcRemoveOme(k)
      PROVE  StreamingLostStep
  <2>1. UNCHANGED status
    BY <1>7 DEF GcRemoveOme, RemoveOme, PostCloseOme
  <2>. QED
    BY <2>1 DEF StreamingLostStep
<1>8. ASSUME NEW o \in Sessions, SendBindingRequest(o) \/
   RecvBindingRequest(o) \/ RtpStart(o) \/ OmeSetStatusFind(o) \/
   OmeError(o) \/ OmeRemove(o) \/ OmeCloseTimer(o)
      PROVE  StreamingLostStep
  <2>1. UNCHANGED status
    BY <1>8 DEF SendBindingRequest, RecvBindingRequest, RtpStart,
       OmeSetStatusFind, OmeError, OmeRemove, RemoveOme, PostCloseOme, OmeCloseTimer
  <2>. QED
    BY <2>1 DEF StreamingLostStep
<1>9. CASE UNCHANGED vars
  BY <1>9 DEF StreamingLostStep, vars
<1>. QED
  BY <1>1, <1>2, <1>3, <1>4, <1>5, <1>6, <1>7, <1>8, <1>9 DEF Next,
     TimerThread, SigNetwork, SigHandler, OmeNetwork, OmeHandler

(* Every step is a step of StreamRegistry or leaves its variables alone.    *)
LEMMA RegistryStep ==
    ASSUME TypeOK, TimerInv, CheckInv, [Next]_vars
    PROVE  [Registry!RegistryNext]_(Registry!registryVars)
<1>1. CASE StartStream \/ CreateNext
  <2>1. streamIndexKey \in Streams /\ streamIndexKey \notin live
    BY <1>1 DEF StartStream, CreateNext, NewStream, TimerInv, Created, TypeOK
  <2>2. /\ streamIndexKey' = streamIndexKey + 1
        /\ live' = live \cup {streamIndexKey}
        /\ error' = [error EXCEPT ![streamIndexKey] = "None"]
        /\ old' = old
    BY <1>1 DEF StartStream, CreateNext, NewStream
  <2>3. Registry!Create
    BY <2>1, <2>2 DEF Registry!Create, Registry!Keys, Streams, TypeOK
  <2>. QED
    BY <2>3 DEF Registry!RegistryNext
<1>2. ASSUME NEW s \in Streams, GcErase(s)
       PROVE  [Registry!RegistryNext]_(Registry!registryVars)
  <2>1. /\ s \in live /\ live' = live \ {s}
        /\ error[s] # "None" \/ s \in old
        /\ \A t \in Streams \ {s} : error'[t] = error[t]
        /\ UNCHANGED <<streamIndexKey, old>>
    BY <1>2 DEF GcErase, IsNext, CheckInv, TypeOK
  <2>2. Registry!Collect(s)
    BY <2>1 DEF Registry!Collect, TypeOK
  <2>. QED
    BY <2>2 DEF Registry!RegistryNext, Registry!Keys, Streams
<1>3. ASSUME NEW s \in Streams, Age(s)
       PROVE  [Registry!RegistryNext]_(Registry!registryVars)
  <2>1. Registry!Wait(s)
    BY <1>3 DEF Age, Registry!Wait
  <2>. QED
    BY <2>1 DEF Registry!RegistryNext, Registry!Keys, Streams
<1>4. ASSUME NEW s \in Streams, SetErrorWrite(s)
       PROVE  [Registry!RegistryNext]_(Registry!registryVars)
  <2>1. /\ error' = [error EXCEPT ![s] = sigErr[s]] /\ sigErr[s] # "None"
        /\ s \in live => error[s] = "None"
        /\ UNCHANGED <<streamIndexKey, live, old>>
    BY <1>4 DEF SetErrorWrite, At, CheckInv
  <2>2. CASE s \in live
    <3>1. Registry!Fail(s)
      BY <2>1, <2>2 DEF Registry!Fail, TypeOK
    <3>. QED
      BY <3>1 DEF Registry!RegistryNext, Registry!Keys, Streams
  <2>3. CASE s \notin live
    BY <2>1, <2>3 DEF Registry!registryVars, TypeOK
  <2>. QED
    BY <2>2, <2>3
<1>5. CASE StartTimer \/ StartDone \/ CreateTimer \/ GcStart \/ GcScanned \/
   GcSignallingRemoved \/ GcNextManager
  <2>1. UNCHANGED <<streamIndexKey, live, error, old>>
    BY <1>5 DEF StartTimer, StartDone, CreateTimer, GcStart, Lock, GcScanned,
       GcSignallingRemoved, GcNextManager
  <2>. QED
    BY <2>1 DEF Registry!registryVars
<1>6. ASSUME NEW s \in Streams, GcExamine(s) \/ ConnectFail(s) \/
   ConnectAdd(s) \/ SendHandshake(s) \/ RecvHandshake(s) \/
   RecvBadHandshake(s) \/ RecvOffer(s) \/ RecvBadJson(s) \/ SigError(s) \/
   SigClose(s) \/ SigRemove(s) \/ SetErrorFind(s) \/ SetErrorCheck(s) \/
   OmeCreate(s) \/ OmeInsert(s) \/ SetOmeStreamInfoFind(s) \/ OmeInsertFails(s) \/
   SetOmeStreamInfoWrite(s) \/ SignallingCompleteFind(s) \/
   SignallingCompleteWrite(s) \/ SigCloseTimer(s)
       PROVE  [Registry!RegistryNext]_(Registry!registryVars)
  <2>1. UNCHANGED <<streamIndexKey, live, error, old>>
    BY <1>6 DEF GcExamine, ConnectFail, GoTo, ConnectAdd, SendHandshake,
       CallSetError, RecvHandshake, RecvBadHandshake, RecvOffer, RecvBadJson,
       SigError, SigClose, SigRemove, RemoveSig, PostCloseSig, SetErrorFind,
       AfterSetError, SetErrorCheck, OmeCreate, OmeInsert,
       SetOmeStreamInfoFind, OmeInsertFails, SetOmeStreamInfoWrite, SignallingCompleteFind,
       SignallingCompleteWrite, SigCloseTimer
  <2>. QED
    BY <2>1 DEF Registry!registryVars
<1>7. ASSUME NEW k \in gcSigKeys, GcRemoveSignalling(k)
       PROVE  [Registry!RegistryNext]_(Registry!registryVars)
  <2>1. UNCHANGED <<streamIndexKey, live, error, old>>
    BY <1>7 DEF GcRemoveSignalling, RemoveSig, PostCloseSig
  <2>. QED
    BY <2>1 DEF Registry!registryVars
<1>8. ASSUME NEW k \in gcOmeKeys, GcRemoveOme(k)
       PROVE  [Registry!RegistryNext]_(Registry!registryVars)
  <2>1. UNCHANGED <<streamIndexKey, live, error, old>>
    BY <1>8 DEF GcRemoveOme, RemoveOme, PostCloseOme
  <2>. QED
    BY <2>1 DEF Registry!registryVars
<1>9. ASSUME NEW o \in Sessions, SendBindingRequest(o) \/
   RecvBindingRequest(o) \/ RtpStart(o) \/ OmeSetStatusFind(o) \/
   OmeSetStatusWrite(o) \/ OmeError(o) \/ OmeRemove(o) \/ OmeCloseTimer(o)
       PROVE  [Registry!RegistryNext]_(Registry!registryVars)
  <2>1. UNCHANGED <<streamIndexKey, live, error, old>>
    BY <1>9 DEF SendBindingRequest, RecvBindingRequest, RtpStart,
       OmeSetStatusFind, OmeSetStatusWrite, OmeError, OmeRemove, RemoveOme,
       PostCloseOme, OmeCloseTimer
  <2>. QED
    BY <2>1 DEF Registry!registryVars
<1>10. CASE UNCHANGED vars
  BY <1>10 DEF Registry!registryVars, vars
<1>. QED
  BY <1>1, <1>2, <1>3, <1>4, <1>5, <1>6, <1>7, <1>8, <1>9, <1>10 DEF Next,
     TimerThread, SigNetwork, SigHandler, OmeNetwork, OmeHandler

(* A session has one key for life, and StreamInfo holds it when the session *)
(* is announced.                                                            *)
LEMMA AnnouncedInvStep ==
    ASSUME TypeOK, TimerInv, SetupInv, KeyInv, AnnouncedInv, [Next]_vars
    PROVE  AnnouncedInv'
<1>1. CASE StartStream \/ CreateNext
  <2>1. NewStream /\ UNCHANGED omeVars
    BY <1>1 DEF StartStream, CreateNext
  <2>2. \A o \in announced : o[1] # streamIndexKey
    BY DEF AnnouncedInv, KeyInv, Created, TypeOK
  <2>. QED
    BY <2>1, <2>2 DEF NewStream, AnnouncedInv, CurrentSession, Registered, SetupPcs, KeyedPcs, TypeOK, Sessions
<1>2. ASSUME NEW s \in Streams, RecvOffer(s)
       PROVE  AnnouncedInv'
  BY <1>2 DEF AnnouncedInv, CurrentSession, Registered, SetupPcs, KeyedPcs,
     At, TypeOK, RecvOffer, GoTo, CanReceive, Sessions
<1>3. ASSUME NEW s \in Streams, ConnectFail(s) \/ ConnectAdd(s) \/
   SendHandshake(s) \/ RecvBadHandshake(s) \/ RecvBadJson(s) \/ SigError(s) \/
   SigClose(s) \/ SigRemove(s) \/ OmeCreate(s) \/ SignallingCompleteWrite(s)
       PROVE  AnnouncedInv'
  BY <1>3 DEF AnnouncedInv, CurrentSession, Registered, SetupPcs, KeyedPcs,
     At, TypeOK, ConnectFail, GoTo, ConnectAdd, SendHandshake, CallSetError,
     RecvBadHandshake, RecvBadJson, SigError, SigClose, SigRemove, RemoveSig,
     PostCloseSig, OmeCreate, SignallingCompleteWrite
<1>4. ASSUME NEW s \in Streams, SetErrorFind(s) \/ SetErrorCheck(s) \/
   SetErrorWrite(s)
       PROVE  AnnouncedInv'
  BY <1>4 DEF AnnouncedInv, CurrentSession, Registered, SetupPcs, KeyedPcs,
     At, TypeOK, SetErrorFind, GoTo, AfterSetError, SetErrorCheck,
     SetErrorWrite
<1>5. ASSUME NEW s \in Streams, OmeInsert(s)
       PROVE  AnnouncedInv'
  <2>. DEFINE c == CurrentSession(s)
  <2>1. c \in Sessions /\ c[1] = s /\ c[2] = offers[s]
    BY <1>5, CurrentSessionType DEF OmeInsert, At, SetupPcs, CurrentSession
  <2>2. /\ omeKeyOf' = [omeKeyOf EXCEPT ![c] = omeNextKey]
        /\ sigPc' = [sigPc EXCEPT ![s] = "omeFind"]
        /\ UNCHANGED <<offers, omeKey, announced>>
        /\ sigPc[s] = "omeInsert" /\ omeNextKey # NoKey /\ c \notin announced
    BY <1>5 DEF OmeInsert, At, GoTo, TypeOK, NoKey, AnnouncedInv, SetupPcs
  <2>. HIDE DEF c
  <2>3. \A o \in Sessions : o # c => omeKeyOf'[o] = omeKeyOf[o]
    BY <2>2 DEF TypeOK
  <2>4. \A t \in Streams : t # s => CurrentSession(t) # c
    BY <2>1 DEF CurrentSession
  <2>5. \A t \in Streams : sigPc[t] \in SetupPcs => CurrentSession(t) \in Sessions
    BY CurrentSessionType
  <2>6. \A o \in Sessions : o[2] > offers[o[1]] => omeKeyOf'[o] = NoKey
    BY <2>1, <2>3 DEF AnnouncedInv, TypeOK
  <2>7. ASSUME NEW t \in Streams
        PROVE  LET o == CurrentSession(t) IN
               /\ sigPc'[t] \in {"offer", "omeInsert"} => omeKeyOf'[o] = NoKey
               /\ sigPc'[t] \in KeyedPcs => omeKeyOf'[o] # NoKey
               /\ sigPc'[t] = "statusFind" => omeKey[o[1]] = omeKeyOf'[o]
               /\ sigPc'[t] \in SetupPcs \ {"statusWrite"} => o \notin announced
    <3>1. CASE t = s
      <4>1. CurrentSession(t) = c /\ sigPc'[t] = "omeFind" /\ omeKeyOf'[c] = omeNextKey
        BY <3>1, <2>1, <2>2 DEF TypeOK, c
      <4>. QED
        BY <4>1, <2>2
    <3>2. CASE t # s
      <4>1. sigPc'[t] = sigPc[t]
        BY <3>2, <2>2 DEF TypeOK
      <4>2. sigPc[t] \in SetupPcs => omeKeyOf'[CurrentSession(t)] = omeKeyOf[CurrentSession(t)]
        BY <3>2, <2>3, <2>4, <2>5
      <4>. QED
        BY <4>1, <4>2 DEF AnnouncedInv, SetupPcs, KeyedPcs, Registered
    <3>. QED
      BY <3>1, <3>2
  <2>8. \A o \in announced : /\ o[2] <= offers[o[1]]
                             /\ omeKeyOf'[o] # NoKey
                             /\ omeKey[o[1]] # NoKey
    BY <2>2, <2>3 DEF AnnouncedInv, TypeOK
  <2>. QED
    BY <2>2, <2>6, <2>7, <2>8 DEF AnnouncedInv, Registered, CurrentSession
<1>6. ASSUME NEW s \in Streams, SetOmeStreamInfoFind(s) \/ OmeInsertFails(s)
       PROVE  AnnouncedInv'
  BY <1>6 DEF AnnouncedInv, CurrentSession, Registered, SetupPcs, KeyedPcs,
     At, TypeOK, SetOmeStreamInfoFind, OmeInsertFails, GoTo
<1>7. ASSUME NEW s \in Streams, SetOmeStreamInfoWrite(s)
       PROVE  AnnouncedInv'
  BY <1>7, CurrentSessionType DEF AnnouncedInv, CurrentSession, Registered,
     SetupPcs, KeyedPcs, At, TypeOK, SetOmeStreamInfoWrite, GoTo
<1>8. ASSUME NEW s \in Streams, SignallingCompleteFind(s)
       PROVE  AnnouncedInv'
  BY <1>8, CurrentSessionType DEF AnnouncedInv, CurrentSession, Registered,
     SetupPcs, KeyedPcs, At, TypeOK, SignallingCompleteFind, GoTo
<1>9. CASE StartTimer \/ StartDone \/ CreateTimer \/ GcStart \/ GcScanned \/
   GcSignallingRemoved \/ GcNextManager
  <2>1. UNCHANGED <<offers, omeKeyOf, omeKey, sigPc, announced>>
    BY <1>9 DEF StartTimer, StartDone, CreateTimer, GcStart, Lock, GcScanned,
       GcSignallingRemoved, GcNextManager
  <2>. QED
    BY <2>1 DEF AnnouncedInv, CurrentSession, Registered
<1>10. ASSUME NEW s \in Streams, GcExamine(s) \/ GcErase(s) \/ Age(s) \/
   RecvHandshake(s) \/ SigCloseTimer(s)
       PROVE  AnnouncedInv'
  <2>1. UNCHANGED <<offers, omeKeyOf, omeKey, sigPc, announced>>
    BY <1>10 DEF GcExamine, GcErase, Age, RecvHandshake, SigCloseTimer
  <2>. QED
    BY <2>1 DEF AnnouncedInv, CurrentSession, Registered
<1>11. ASSUME NEW k \in gcSigKeys, GcRemoveSignalling(k)
       PROVE  AnnouncedInv'
  <2>1. UNCHANGED <<offers, omeKeyOf, omeKey, sigPc, announced>>
    BY <1>11 DEF GcRemoveSignalling, RemoveSig, PostCloseSig
  <2>. QED
    BY <2>1 DEF AnnouncedInv, CurrentSession, Registered
<1>12. ASSUME NEW k \in gcOmeKeys, GcRemoveOme(k)
       PROVE  AnnouncedInv'
  <2>1. UNCHANGED <<offers, omeKeyOf, omeKey, sigPc, announced>>
    BY <1>12 DEF GcRemoveOme, RemoveOme, PostCloseOme
  <2>. QED
    BY <2>1 DEF AnnouncedInv, CurrentSession, Registered
<1>13. ASSUME NEW o \in Sessions, SendBindingRequest(o) \/
   RecvBindingRequest(o) \/ RtpStart(o) \/ OmeSetStatusFind(o) \/
   OmeSetStatusWrite(o) \/ OmeError(o) \/ OmeRemove(o) \/ OmeCloseTimer(o)
       PROVE  AnnouncedInv'
  <2>1. UNCHANGED <<offers, omeKeyOf, omeKey, sigPc, announced>>
    BY <1>13 DEF SendBindingRequest, RecvBindingRequest, RtpStart,
       OmeSetStatusFind, OmeSetStatusWrite, OmeError, OmeRemove, RemoveOme,
       PostCloseOme, OmeCloseTimer
  <2>. QED
    BY <2>1 DEF AnnouncedInv, CurrentSession, Registered
<1>14. CASE UNCHANGED vars
  BY <1>14 DEF AnnouncedInv, CurrentSession, Registered, vars
<1>. QED
  BY <1>1, <1>2, <1>3, <1>4, <1>5, <1>6, <1>7, <1>8, <1>9, <1>10, <1>11,
     <1>12, <1>13, <1>14 DEF Next, TimerThread, SigNetwork, SigHandler,
     OmeNetwork, OmeHandler

(* An announced session stays within the reach of GarbageCheck.             *)
LEMMA AnnouncedStep ==
    ASSUME TypeOK, TimerInv, SetupInv, KeyInv, AnnouncedInv, AnnouncedSessionClosable, [Next]_vars
    PROVE  AnnouncedSessionClosable'
<1>1. CASE StartStream \/ CreateNext
  <2>1. NewStream /\ UNCHANGED <<omeVars, gcVars>>
    BY <1>1 DEF StartStream, CreateNext
  <2>2. \A o \in announced : o[1] # streamIndexKey
    BY DEF AnnouncedInv, KeyInv, Created, TypeOK
  <2>. QED
    BY <2>1, <2>2 DEF NewStream, AnnouncedSessionClosable, Registered, Replaced, TypeOK, Sessions
<1>2. ASSUME NEW s \in Streams, GcErase(s)
       PROVE  AnnouncedSessionClosable'
  BY <1>2 DEF AnnouncedSessionClosable, Registered, Replaced, GcErase, TypeOK
<1>3. ASSUME NEW k \in gcOmeKeys, GcRemoveOme(k)
       PROVE  AnnouncedSessionClosable'
  BY <1>3 DEF AnnouncedSessionClosable, Registered, Replaced, GcRemoveOme,
     RemoveOme, PostCloseOme, OmeWithKey
<1>4. ASSUME NEW o \in Sessions, OmeRemove(o)
       PROVE  AnnouncedSessionClosable'
  BY <1>4 DEF AnnouncedSessionClosable, Registered, Replaced, OmeRemove,
     RemoveOme, PostCloseOme, OmeWithKey
<1>5. ASSUME NEW s \in Streams, OmeInsert(s)
       PROVE  AnnouncedSessionClosable'
  <2>. DEFINE c == CurrentSession(s)
  <2>1. /\ c \in Sessions /\ c \notin announced /\ omeKeyOf[c] = NoKey
        /\ omeKeyOf' = [omeKeyOf EXCEPT ![c] = omeNextKey]
        /\ omeNet' = omeNet \cup {c}
        /\ UNCHANGED <<live, omeKey, gcOmeKeys, announced>>
    BY <1>5, CurrentSessionType DEF OmeInsert, At, SetupPcs, AnnouncedInv
  <2>. HIDE DEF c
  <2>2. \A o \in Sessions : omeKeyOf[o] # NoKey => omeKeyOf'[o] = omeKeyOf[o]
    BY <2>1 DEF TypeOK
  <2>3. ASSUME NEW o \in omeNet' \cap announced'
        PROVE  /\ o \in omeNet \cap announced /\ o \in Sessions /\ o[1] \in Streams
               /\ omeKeyOf'[o] = omeKeyOf[o] /\ omeKey[o[1]] # NoKey
    BY <2>1, <2>2 DEF AnnouncedInv, TypeOK, Sessions
  <2>4. ASSUME NEW o \in omeNet' \cap announced', Replaced(o)
        PROVE  Replaced(o)'
    <3>1. PICK n \in 1 .. MaxOffers : n > o[2] /\ omeKey[o[1]] = omeKeyOf[<<o[1], n>>]
      BY <2>4 DEF Replaced
    <3>2. <<o[1], n>> \in Sessions
      BY <2>3 DEF Sessions
    <3>. QED
      BY <3>1, <3>2, <2>1, <2>2, <2>3 DEF Replaced
  <2>. QED
    BY <2>1, <2>3, <2>4 DEF AnnouncedSessionClosable, Registered
<1>6. ASSUME NEW s \in Streams, SetOmeStreamInfoWrite(s)
       PROVE  AnnouncedSessionClosable'
  <2>. DEFINE c == CurrentSession(s)
  <2>1. /\ offers[s] \in 1 .. MaxOffers /\ c = <<s, offers[s]>> /\ c \notin announced
        /\ omeKey' = [omeKey EXCEPT ![s] = omeKeyOf[c]]
        /\ UNCHANGED <<live, omeKeyOf, omeNet, gcOmeKeys, announced>>
    BY <1>6, CurrentSessionType DEF SetOmeStreamInfoWrite, At, SetupPcs, AnnouncedInv,
                                  CurrentSession, Sessions
  <2>. HIDE DEF c
  <2>2. ASSUME NEW o \in omeNet \cap announced, o[1] = s
        PROVE  Replaced(o)'
    <3>1. o = <<s, o[2]>> /\ o[2] \in 1 .. MaxOffers /\ o[2] <= offers[s]
      BY <2>2 DEF TypeOK, Sessions, AnnouncedInv
    <3>2. o[2] < offers[s]
      BY <2>1, <3>1
    <3>. QED
      BY <2>1, <2>2, <3>2 DEF Replaced, TypeOK
  <2>3. ASSUME NEW o \in omeNet \cap announced, o[1] # s
        PROVE  omeKey'[o[1]] = omeKey[o[1]]
    BY <2>1, <2>3 DEF TypeOK, Sessions
  <2>. QED
    BY <2>1, <2>2, <2>3 DEF AnnouncedSessionClosable, Registered, Replaced
<1>7. ASSUME NEW s \in Streams, SignallingCompleteFind(s)
       PROVE  AnnouncedSessionClosable'
  BY <1>7 DEF AnnouncedSessionClosable, Registered, Replaced,
     SignallingCompleteFind, GoTo, AnnouncedInv, At, KeyedPcs, CurrentSession
<1>8. CASE StartTimer \/ StartDone \/ CreateTimer \/ GcStart \/ GcScanned \/
   GcSignallingRemoved \/ GcNextManager
  <2>1. UNCHANGED <<live, omeKey, omeKeyOf, omeNet, gcOmeKeys, announced>>
    BY <1>8 DEF StartTimer, StartDone, CreateTimer, GcStart, Lock, GcScanned,
       GcSignallingRemoved, GcNextManager
  <2>. QED
    BY <2>1 DEF AnnouncedSessionClosable, Registered, Replaced
<1>9. ASSUME NEW s \in Streams, GcExamine(s) \/ Age(s) \/ ConnectFail(s) \/
   ConnectAdd(s) \/ SendHandshake(s) \/ RecvHandshake(s) \/
   RecvBadHandshake(s) \/ RecvOffer(s) \/ RecvBadJson(s) \/ SigError(s) \/
   SigClose(s) \/ SigRemove(s) \/ SetErrorFind(s) \/ SetErrorCheck(s) \/
   SetErrorWrite(s) \/ OmeCreate(s) \/ SetOmeStreamInfoFind(s) \/ OmeInsertFails(s) \/
   SignallingCompleteWrite(s) \/ SigCloseTimer(s)
       PROVE  AnnouncedSessionClosable'
  <2>1. UNCHANGED <<live, omeKey, omeKeyOf, omeNet, gcOmeKeys, announced>>
    BY <1>9 DEF GcExamine, Age, ConnectFail, GoTo, ConnectAdd, SendHandshake,
       CallSetError, RecvHandshake, RecvBadHandshake, RecvOffer, RecvBadJson,
       SigError, SigClose, SigRemove, RemoveSig, PostCloseSig, SetErrorFind,
       AfterSetError, SetErrorCheck, SetErrorWrite, OmeCreate,
       SetOmeStreamInfoFind, OmeInsertFails, SignallingCompleteWrite, SigCloseTimer
  <2>. QED
    BY <2>1 DEF AnnouncedSessionClosable, Registered, Replaced
<1>10. ASSUME NEW k \in gcSigKeys, GcRemoveSignalling(k)
       PROVE  AnnouncedSessionClosable'
  <2>1. UNCHANGED <<live, omeKey, omeKeyOf, omeNet, gcOmeKeys, announced>>
    BY <1>10 DEF GcRemoveSignalling, RemoveSig, PostCloseSig
  <2>. QED
    BY <2>1 DEF AnnouncedSessionClosable, Registered, Replaced
<1>11. ASSUME NEW o \in Sessions, SendBindingRequest(o) \/
   RecvBindingRequest(o) \/ RtpStart(o) \/ OmeSetStatusFind(o) \/
   OmeSetStatusWrite(o) \/ OmeError(o) \/ OmeCloseTimer(o)
       PROVE  AnnouncedSessionClosable'
  <2>1. UNCHANGED <<live, omeKey, omeKeyOf, omeNet, gcOmeKeys, announced>>
    BY <1>11 DEF SendBindingRequest, RecvBindingRequest, RtpStart,
       OmeSetStatusFind, OmeSetStatusWrite, OmeError, OmeCloseTimer
  <2>. QED
    BY <2>1 DEF AnnouncedSessionClosable, Registered, Replaced
<1>12. CASE UNCHANGED vars
  BY <1>12 DEF AnnouncedSessionClosable, Registered, Replaced, vars
<1>. QED
  BY <1>1, <1>2, <1>3, <1>4, <1>5, <1>6, <1>7, <1>8, <1>9, <1>10, <1>11, <1>12
     DEF Next, TimerThread, SigNetwork, SigHandler, OmeNetwork, OmeHandler

----------------------------------------------------------------------------
(* The program starts with no stream and no connection.                     *)
LEMMA InitIInv == Init => IInv
<1>. SUFFICES ASSUME Init PROVE IInv
  OBVIOUS
<1>1. TypeOK
  <2>1. "Ready" \in Status /\ "None" \in Error /\ "none" \in Socket /\ "boot" \in TimerPcs
        /\ "none" \in SigPcs /\ "none" \in OmePcs /\ "new" \in OmePhases /\ NoKey \in Int
    BY DEF Status, Error, Socket, TimerPcs, SigPcs, OmePcs, OmePhases, NoKey
  <2>2. streamIndexKey \in 0 .. MaxStreams /\ gcManager \in 0 .. ManagerCount - 1
    BY DEF Init
  <2>3. offers \in [Streams -> 0 .. MaxOffers]
    BY DEF Init
  <2>. QED
    BY <2>1, <2>2, <2>3 DEF Init, TypeOK
<1>2. TimerInv /\ LimitInv /\ CreatedWithinLimits /\ SetupInv /\ CheckInv
  BY DEF Init, TimerInv, LimitInv, CreatedWithinLimits, MaxCountReached, SetupInv, CheckInv,
         SetupPcs
<1>3. KeyInv /\ ClosedIsUnregistered
  BY DEF Init, KeyInv, ClosedIsUnregistered, NoKey
<1>4. AnnouncedInv /\ AnnouncedSessionClosable
  BY DEF Init, AnnouncedInv, AnnouncedSessionClosable, SetupPcs, KeyedPcs, CurrentSession,
         Sessions
<1>5. MediaInv
  BY DEF Init, MediaInv
<1>. QED
  BY <1>1, <1>2, <1>3, <1>4, <1>5 DEF IInv

(* Every step of the specification preserves it.                            *)
LEMMA StepIInv == IInv /\ [Next]_vars => IInv'
  BY TypeStep, TimerInvStep, LimitStep, SetupInvStep, KeyInvStep, ClosedStep, CheckInvStep,
     AnnouncedInvStep, AnnouncedStep, MediaInvStep DEF IInv

(* IInv is an invariant: types, the creation loops, session set-up, keys,   *)
(* closing, and the reads GarbageCheck and SetError act on.                 *)
THEOREM Invariance == Spec => []IInv
  BY InitIInv, StepIInv, PTL DEF Spec

(* Every variable keeps its type.                                           *)
THEOREM TypeCorrect == Spec => []TypeOK
<1>1. IInv => TypeOK
  BY DEF IInv
<1>. QED
  BY <1>1, Invariance, PTL

(* StreamCreateTimeProc never creates a stream beyond streaming_max_count,  *)
(* unless streaming_start_count alone is larger (MainObject::               *)
(* StartTimeProc), whatever streaming_create_count adds at a tick.          *)
THEOREM LimitsKept == Spec => []CreatedWithinLimits
<1>1. IInv => CreatedWithinLimits
  BY DEF IInv
<1>. QED
  BY <1>1, Invariance, PTL

(* The key a live stream has registered, and every key GarbageCheck has     *)
(* collected, reach a session of the right stream only (StreamInfo::        *)
(* ome_stream_key, StreamManager::GarbageCheck, UdpNetworkManager::Remove). *)
THEOREM KeysReach == Spec => []KeysReachTheRightSession
<1>1. IInv => KeysReachTheRightSession
  BY DEF IInv, TypeOK, KeyInv, KeysReachTheRightSession, OmeWithKey
<1>. QED
  BY <1>1, Invariance, PTL

(* Once SetStatus(SignallingComplete) has found its stream, a session stays *)
(* within the reach of GarbageCheck until it leaves the map.                *)
THEOREM AnnouncedClosable == Spec => []AnnouncedSessionClosable
<1>1. IInv => AnnouncedSessionClosable
  BY DEF IInv
<1>. QED
  BY <1>1, Invariance, PTL

(* PostClose only ever runs on an object Remove has just taken out of its   *)
(* map (TcpNetworkManager::Remove, UdpNetworkManager::Remove).              *)
THEOREM ClosedUnregistered == Spec => []ClosedIsUnregistered
<1>1. IInv => ClosedIsUnregistered
  BY DEF IInv
<1>. QED
  BY <1>1, Invariance, PTL

(* StreamManager::SetError keeps the first error of a stream although its   *)
(* check and its write are outside the mutex.                               *)
THEOREM ErrorsKept == Spec => FirstErrorKept
<1>1. IInv /\ [Next]_vars => [FirstErrorKeptStep]_vars
  BY FirstErrorStep DEF IInv
<1>. QED
  BY <1>1, Invariance, PTL DEF Spec, FirstErrorKept

(* The two notifications of a media session cannot swap: once a stream is    *)
(* Streaming only its signalling thread, which may be late with              *)
(* SetStatus(SignallingComplete), or a second session takes that back.       *)
THEOREM StreamingKept == Spec => StreamingLostOnlyToSignalling
<1>1. IInv /\ [Next]_vars => [StreamingLostStep]_vars
  BY StreamingStep DEF IInv
<1>. QED
  BY <1>1, Invariance, PTL DEF Spec, StreamingLostOnlyToSignalling

(* The stream managers, as MainObject and the handlers use them, implement  *)
(* StreamRegistry.                                                          *)
THEOREM RegistryRefinement == Spec => RegistrySpec
<1>1. Init => Registry!RegistryInit
  BY DEF Init, Registry!RegistryInit
<1>2. IInv /\ [Next]_vars => [Registry!RegistryNext]_(Registry!registryVars)
  BY RegistryStep DEF IInv
<1>. QED
  BY <1>1, <1>2, Invariance, PTL DEF Spec, RegistrySpec, Registry!RegistrySpec
=============================================================================
