-------------------------- MODULE TcpNetworkObject --------------------------
(***************************************************************************)
(* One TcpNetworkObject from the moment TcpNetworkManager::Insert has      *)
(* registered and started it: its send queue, its reads, its timers and    *)
(* the ways it is closed.                                                  *)
(*                                                                         *)
(*  - the service thread (IO) of the socket runs OnReceive, OnSend and the *)
(*    timers, one at a time;                                               *)
(*  - any thread may call PostSend ("callable from other threads", the     *)
(*    comment of PostSend);                                                *)
(*  - any thread may call TcpNetworkManager::Remove with the object's key  *)
(*    (RemoveAll erases and posts the close in the same way).              *)
(*                                                                         *)
(* _is_closeing is a plain bool: every test and every write of it is a     *)
(* step of its own. The queue is changed under _send_data_queue_mutex, so  *)
(* what is done under the mutex is one step.                               *)
(***************************************************************************)
EXTENDS Integers, Sequences, FiniteSets

CONSTANTS
    Senders,            \* other threads that call PostSend
    Removers,           \* other threads that call Remove
    IO,                 \* the service thread
    Messages,
    Size(_),            \* size of a message
    MaxSendSize,        \* _max_send_data_size, 0 is unlimited
    SendCompleteClose,  \* _send_complete_close
    MaxAccepted         \* bound: messages queued in the object's life

ASSUME TcpNetworkObjectAssumption ==
    /\ IO \notin Senders
    /\ IO \notin Removers
    /\ \A m \in Messages : Size(m) \in Nat \ {0}
    /\ MaxSendSize \in Nat
    /\ SendCompleteClose \in BOOLEAN
    /\ MaxAccepted \in Nat

Callers == Senders \cup {IO}
Closers == Removers \cup {IO}

VARIABLES
    isClosing,     \* _is_closeing
    networkError,  \* _network_error
    queue,         \* _send_datas
    writes,        \* outstanding async_write, oldest first
    reading,       \* an async_read_some is outstanding
    open,          \* the socket is open
    registered,    \* the object is in _network_info_map
    closeTimer,    \* _close_timer is armed
    postTimer,     \* _post_close_timer: "none", "armed" or "fired"
    ioPc,          \* what the service thread is doing
    sendPc,        \* where a caller of PostSend is
    sendMsg,       \* its message
    closePc,       \* where a caller of Remove is
    \* history, in no guard
    accepted,      \* messages queued, in order
    written,       \* messages written, in order
    closeCalls     \* how often OnNetworkClose was called

sendVars == <<queue, writes, accepted, written>>
callVars == <<sendPc, sendMsg>>
endVars == <<registered, closePc, postTimer, open>>
connectionVars ==
    <<isClosing, networkError, sendVars, reading, endVars, closeTimer, ioPc,
      callVars, closeCalls>>

IoPcs == {"idle", "handle", "sent", "pop", "closeTest", "closeSet", "callback"}
ClosePcs == {"none", "mark", "arm"}

ObjectTypeOK ==
    /\ isClosing \in BOOLEAN /\ networkError \in BOOLEAN
    /\ queue \in Seq(Messages) /\ writes \in Seq(Messages)
    /\ reading \in BOOLEAN /\ open \in BOOLEAN /\ registered \in BOOLEAN
    /\ closeTimer \in BOOLEAN
    /\ postTimer \in {"none", "armed", "fired"}
    /\ ioPc \in IoPcs
    /\ sendPc \in [Callers -> {"idle", "push"}]
    /\ sendMsg \in [Callers -> Messages]
    /\ closePc \in [Closers -> ClosePcs]
    /\ accepted \in Seq(Messages) /\ written \in Seq(Messages)
    /\ closeCalls \in Nat

ObjectInit ==
    /\ isClosing = FALSE /\ networkError = FALSE
    /\ queue = <<>> /\ writes = <<>>
    /\ reading = TRUE /\ open = TRUE /\ registered = TRUE
    /\ closeTimer = FALSE /\ postTimer = "none"
    /\ ioPc = "idle"
    /\ sendPc = [t \in Callers |-> "idle"]
    /\ sendMsg \in [Callers -> Messages]
    /\ closePc = [t \in Closers |-> "none"]
    /\ accepted = <<>> /\ written = <<>>
    /\ closeCalls = 0

(* The service thread is in RecvHandler, and in no call made from there.    *)
InHandler == ioPc = "handle" /\ sendPc[IO] = "idle" /\ closePc[IO] = "none"

----------------------------------------------------------------------------
(* PostSend                                                                 *)

Sending == {t \in Callers : sendPc[t] = "push"}

(* The service thread sends from within a handler.                          *)
MaySend(t) == sendPc[t] = "idle" /\ (t = IO => InHandler)

(* _is_closeing is tested, then the size of this datum; only when both      *)
(* allow it the caller goes on to the queue.                                *)
PostSendCheck(t, m) ==
    /\ MaySend(t)
    /\ ~isClosing
    /\ MaxSendSize > 0 => Size(m) <= MaxSendSize
    /\ Len(accepted) + Cardinality(Sending) < MaxAccepted     \* bound
    /\ sendPc' = [sendPc EXCEPT ![t] = "push"]
    /\ sendMsg' = [sendMsg EXCEPT ![t] = m]
    /\ UNCHANGED <<isClosing, networkError, sendVars, reading, endVars, closeTimer,
                   ioPc, closeCalls>>

StartWrite(q) == IF ~isClosing /\ open THEN Append(writes, Head(q)) ELSE writes

(* Mutant: a datum never starts a write, it waits for OnSend.               *)
PostSendPushNeverWrites(t) ==
    /\ sendPc[t] = "push"
    /\ queue' = Append(queue, sendMsg[t])
    /\ accepted' = Append(accepted, sendMsg[t])
    /\ sendPc' = [sendPc EXCEPT ![t] = "idle"]
    /\ UNCHANGED <<isClosing, networkError, writes, written, reading, endVars,
                   closeTimer, ioPc, sendMsg, closeCalls>>

(* Under the mutex: the datum is queued, and written when it is alone.      *)
PostSendPush(t) ==
    /\ sendPc[t] = "push"
    /\ queue' = Append(queue, sendMsg[t])
    /\ accepted' = Append(accepted, sendMsg[t])
    /\ writes' = IF Len(queue') = 1 THEN StartWrite(queue') ELSE writes
    /\ sendPc' = [sendPc EXCEPT ![t] = "idle"]
    /\ UNCHANGED <<isClosing, networkError, written, reading, endVars, closeTimer,
                   ioPc, sendMsg, closeCalls>>

----------------------------------------------------------------------------
(* OnReceive                                                                *)

(* The service thread is free to run the next handler.                      *)
Ready == ioPc = "idle" /\ closePc[IO] = "none"

ReceiveData ==
    /\ Ready /\ reading
    /\ reading' = FALSE
    /\ ioPc' = IF isClosing \/ networkError THEN "idle" ELSE "handle"
    /\ UNCHANGED <<isClosing, networkError, sendVars, endVars, closeTimer, callVars,
                   closeCalls>>

ReceiveError ==
    /\ Ready /\ reading
    /\ reading' = FALSE
    /\ networkError' = TRUE
    /\ ioPc' = "closeTest"
    /\ UNCHANGED <<isClosing, sendVars, endVars, closeTimer, callVars, closeCalls>>

(* RecvHandler returns: the next read is started, unless the object is      *)
(* closing.                                                                 *)
HandlerDone ==
    /\ InHandler
    /\ reading' = (~isClosing /\ open)
    /\ ioPc' = "idle"
    /\ UNCHANGED <<isClosing, networkError, sendVars, endVars, closeTimer, callVars,
                   closeCalls>>

(* RecvHandler returns -1 or more than there was.                           *)
HandlerFails ==
    /\ InHandler
    /\ ioPc' = "closeTest"
    /\ UNCHANGED <<isClosing, networkError, sendVars, reading, endVars, closeTimer,
                   callVars, closeCalls>>

----------------------------------------------------------------------------
(* OnSend                                                                   *)

(* A completion that is run after the socket was closed finds _is_closeing   *)
(* set, with or without an error: WriteError stands for both.                *)
WriteDone ==
    /\ Ready /\ writes # <<>> /\ open
    /\ written' = Append(written, Head(writes))
    /\ writes' = Tail(writes)
    /\ ioPc' = "sent"
    /\ UNCHANGED <<isClosing, networkError, queue, accepted, reading, endVars,
                   closeTimer, callVars, closeCalls>>

WriteError ==
    /\ Ready /\ writes # <<>>
    /\ writes' = Tail(writes)
    /\ networkError' = TRUE
    /\ ioPc' = "closeTest"
    /\ UNCHANGED <<isClosing, queue, accepted, written, reading, endVars, closeTimer,
                   callVars, closeCalls>>

SentCheck ==
    /\ ioPc = "sent"
    /\ ioPc' = IF isClosing \/ networkError THEN "idle" ELSE "pop"
    /\ UNCHANGED <<isClosing, networkError, sendVars, reading, endVars, closeTimer,
                   callVars, closeCalls>>

(* Mutant: the datum just sent stays in the queue and is sent again.        *)
SentPopKeepsHead ==
    /\ ioPc = "pop"
    /\ writes' = IF Len(queue) > 1 THEN StartWrite(queue) ELSE writes
    /\ queue' = IF Len(queue) > 1 THEN queue ELSE Tail(queue)
    /\ ioPc' = "idle"
    /\ UNCHANGED <<isClosing, networkError, accepted, written, reading, endVars,
                   closeTimer, callVars, closeCalls>>

(* Under the mutex: the datum is dropped, the next one written; when there  *)
(* is none and the object closes after sending, SetCloseTimer.              *)
SentPop ==
    /\ ioPc = "pop"
    /\ queue' = Tail(queue)
    /\ IF queue' # <<>>
       THEN writes' = StartWrite(queue') /\ UNCHANGED closeTimer
       ELSE /\ closeTimer' = IF SendCompleteClose THEN ~isClosing ELSE closeTimer
            /\ UNCHANGED writes
    /\ ioPc' = "idle"
    /\ UNCHANGED <<isClosing, networkError, accepted, written, reading, endVars,
                   callVars, closeCalls>>

----------------------------------------------------------------------------
(* Closing                                                                  *)

(* CloseTimerProc; the timer was armed when the queue had run empty.        *)
CloseTimerFires ==
    /\ Ready /\ closeTimer
    /\ closeTimer' = FALSE
    /\ ioPc' = IF isClosing THEN "idle" ELSE "closeSet"
    /\ UNCHANGED <<isClosing, networkError, sendVars, reading, endVars, callVars,
                   closeCalls>>

(* if(_is_closeing == false) ...                                            *)
CloseTest ==
    /\ ioPc = "closeTest"
    /\ ioPc' = IF isClosing THEN "idle" ELSE "closeSet"
    /\ UNCHANGED <<isClosing, networkError, sendVars, reading, endVars, closeTimer,
                   callVars, closeCalls>>

(* Mutant: OnNetworkClose is called without _is_closeing being set.         *)
CloseSetForgets ==
    /\ ioPc = "closeSet"
    /\ ioPc' = "callback"
    /\ UNCHANGED <<isClosing, networkError, sendVars, reading, endVars, closeTimer,
                   callVars, closeCalls>>

(* ... { _is_closeing = true;                                               *)
CloseSet ==
    /\ ioPc = "closeSet"
    /\ isClosing' = TRUE
    /\ ioPc' = "callback"
    /\ UNCHANGED <<networkError, sendVars, reading, endVars, closeTimer, callVars,
                   closeCalls>>

(* Mutant: Find does not erase, so two threads may both find the object.    *)
FindKeeps(t) ==
    /\ closePc' = [closePc EXCEPT ![t] = IF registered THEN "mark" ELSE "none"]
    /\ UNCHANGED registered

(* Find(index_key, erase = true): one thread gets the object.               *)
FindErase(t) ==
    /\ registered' = FALSE
    /\ closePc' = [closePc EXCEPT ![t] = IF registered THEN "mark" ELSE "none"]

(* ... OnNetworkClose(...) }, which calls Remove(index_key).                *)
NetworkClose ==
    /\ ioPc = "callback"
    /\ FindErase(IO)
    /\ closeCalls' = closeCalls + 1
    /\ ioPc' = "idle"
    /\ UNCHANGED <<isClosing, networkError, sendVars, reading, postTimer, open,
                   closeTimer, callVars>>

(* Remove(index_key) called by another thread, or by what RecvHandler calls  *)
(* back (OnJsonDataFail).                                                   *)
CallRemove(t) ==
    /\ IF t = IO THEN InHandler ELSE closePc[t] = "none"
    /\ FindErase(t)
    /\ UNCHANGED <<isClosing, networkError, sendVars, reading, postTimer, open,
                   closeTimer, ioPc, callVars, closeCalls>>

(* PostClose: _is_closeing = true ...                                       *)
PostCloseMark(t) ==
    /\ closePc[t] = "mark"
    /\ isClosing' = TRUE
    /\ closePc' = [closePc EXCEPT ![t] = "arm"]
    /\ UNCHANGED <<networkError, sendVars, reading, registered, postTimer, open,
                   closeTimer, ioPc, callVars, closeCalls>>

(* ... and the timer, unless there is one already.                          *)
PostCloseArm(t) ==
    /\ closePc[t] = "arm"
    /\ closePc' = [closePc EXCEPT ![t] = "none"]
    /\ postTimer' = IF postTimer = "none" THEN "armed" ELSE postTimer
    /\ UNCHANGED <<isClosing, networkError, sendVars, reading, registered, open,
                   closeTimer, ioPc, callVars, closeCalls>>

(* Mutant: no timer is served once _is_closeing is set.                     *)
PostCloseTimerRefused ==
    /\ Ready /\ postTimer = "armed" /\ ~isClosing
    /\ postTimer' = "fired"
    /\ closeTimer' = FALSE
    /\ open' = FALSE
    /\ UNCHANGED <<isClosing, networkError, sendVars, reading, registered, closePc,
                   ioPc, callVars, closeCalls>>

(* PostCloseTimerProc: the other timers are cancelled, the socket closed.   *)
PostCloseTimer ==
    /\ Ready /\ postTimer = "armed"
    /\ postTimer' = "fired"
    /\ closeTimer' = FALSE
    /\ open' = FALSE
    /\ UNCHANGED <<isClosing, networkError, sendVars, reading, registered, closePc,
                   ioPc, callVars, closeCalls>>

----------------------------------------------------------------------------

SendStep == \E t \in Callers : PostSendPush(t) \/ \E m \in Messages : PostSendCheck(t, m)

ReceiveStep == ReceiveData \/ ReceiveError \/ HandlerDone \/ HandlerFails

WriteStep == WriteDone \/ WriteError \/ SentCheck \/ SentPop

EndStep ==
    \/ CloseTimerFires \/ CloseTest \/ CloseSet \/ NetworkClose \/ PostCloseTimer
    \/ \E t \in Closers : CallRemove(t) \/ PostCloseMark(t) \/ PostCloseArm(t)

ObjectNext == SendStep \/ ReceiveStep \/ WriteStep \/ EndStep

ObjectSpec == ObjectInit /\ [][ObjectNext]_connectionVars

(* A thread that is inside a function goes on; RecvHandler returns; a timer  *)
(* that has expired is run, the service thread being free now and then. The  *)
(* peer, the reads and the writes are under no fairness.                     *)
Fairness ==
    /\ \A t \in Callers : WF_connectionVars(PostSendPush(t))
    /\ \A t \in Closers : WF_connectionVars(PostCloseMark(t) \/ PostCloseArm(t))
    /\ WF_connectionVars(HandlerDone \/ HandlerFails)
    /\ WF_connectionVars(SentCheck \/ SentPop)
    /\ WF_connectionVars(CloseTest \/ CloseSet \/ NetworkClose)
    /\ WF_connectionVars(PostCloseTimer)

FairSpec == ObjectSpec /\ Fairness

----------------------------------------------------------------------------
(* Properties                                                               *)

(* async_write is a composed operation: two of them outstanding on one       *)
(* socket would mix their bytes. PostSend (any thread) and OnSend start      *)
(* writes, and there is never more than one.                                 *)
AtMostOneWrite == Len(writes) <= 1

(* PostSend starts a write only when its datum is alone in the queue, so it  *)
(* trusts OnSend to come round: while the connection lives and OnSend is not *)
(* running, a queued datum has a write under way. A miss stops the           *)
(* connection's sending for ever.                                            *)
NoLostWakeup ==
    queue # <<>> /\ ~isClosing /\ ~networkError /\ ioPc \notin {"sent", "pop"}
        => writes # <<>>

(* Errors of a read, of a write, of RecvHandler and the close timer may all  *)
(* happen, and other threads post a close meanwhile; OnNetworkClose is       *)
(* called once at most.                                                      *)
NetworkCloseOnce == closeCalls <= 1

(* PostClose tests _post_close_timer and then creates it, without a lock: it *)
(* is right only as long as no two threads are in PostClose, and none enters *)
(* it again. What ensures it is that Find erases under the map's mutex.      *)
PostCloseAlone ==
    \A t \in Closers : closePc[t] # "none" =>
        /\ postTimer = "none"
        /\ \A u \in Closers : closePc[u] # "none" => u = t

Channel == INSTANCE FifoChannel WITH delivered <- written, closed <- ~open
(* Whatever the threads do, what reaches the socket is what PostSend queued, *)
(* in order, nothing skipped or sent twice, and nothing after the close.     *)
ChannelSpec == Channel!ChannelSpec

(* Once _is_closeing is set no read or write is started again: all that is   *)
(* left is the post-close timer, and it must come to close the socket.       *)
ClosingCloses == isClosing ~> ~open

----------------------------------------------------------------------------
(* The inductive invariant                                                  *)

Popped == Len(accepted) - Len(queue)

(* The queue is the end of what was accepted.                               *)
QueueInv ==
    /\ Len(queue) <= Len(accepted)
    /\ \A i \in 1..Len(queue) : queue[i] = accepted[Popped + i]

(* What was written is what has left the queue, and its head when OnSend has *)
(* not popped it (or never will); the write under way is that of the head.   *)
WriteInv ==
    /\ \A i \in 1..Len(written) : i <= Len(accepted) /\ written[i] = accepted[i]
    /\ Len(written) \in {Popped, Popped + 1}
    /\ Len(written) = Popped + 1 => queue # <<>> /\ writes = <<>>
    /\ ioPc \in {"sent", "pop"} => Len(written) = Popped + 1
    /\ writes # <<>> => queue # <<>> /\ writes = <<queue[1]>>

(* The close is posted by the one thread that erased the object from the     *)
(* map, and the socket is not closed before _is_closeing is set.             *)
CloserInv ==
    /\ registered => postTimer = "none"
    /\ \A t \in Closers : closePc[t] # "none" =>
          ~registered /\ (closePc[t] = "arm" => isClosing)
    /\ ~isClosing => open /\ postTimer = "none"

(* The service thread calls OnNetworkClose only after it has found and       *)
(* turned _is_closeing.                                                      *)
CallInv ==
    /\ closeCalls > 0 => isClosing
    /\ ioPc = "callback" => isClosing
    /\ ioPc \in {"closeSet", "callback"} => closeCalls = 0

ObjectInv ==
    /\ ObjectTypeOK /\ QueueInv /\ WriteInv /\ NoLostWakeup
    /\ CloserInv /\ PostCloseAlone /\ CallInv /\ NetworkCloseOnce
=============================================================================
