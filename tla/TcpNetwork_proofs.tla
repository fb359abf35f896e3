-------------------------- MODULE TcpNetwork_proofs --------------------------
(***************************************************************************)
(* Proofs about the TCP engine, in two parts.                              *)
(*                                                                         *)
(* The object: the invariants of TcpNetworkObject hold, and it implements  *)
(* FifoChannel, for any threads, messages and bounds.                      *)
(*                                                                         *)
(* The manager, for pools of any size, any finite number of sockets and    *)
(* any size of the key space: who owns a socket, which object a key stands *)
(* for, that a service is there for whoever asks, and that Release is the  *)
(* last of accepting. One lemma per conjunct of IInv and one step per      *)
(* action; the parts that actions share, of the pool and of the map of     *)
(* objects, come first.                                                    *)
(***************************************************************************)
EXTENDS TcpNetworkObject, TcpNetworkManager,
        FiniteSetTheorems, SequenceTheorems, WellFoundedInduction, TLAPS

----------------------------------------------------------------------------
(* The object.                                                               *)

(* IO is one of the closers and one of the callers.                        *)
LEMMA IOIsAThread == IO \in Callers /\ IO \in Closers
  BY DEF Callers, Closers

LEMMA InitObjectInv == ObjectInit => ObjectInv
  <1> SUFFICES ASSUME ObjectInit PROVE ObjectInv
    OBVIOUS
  <1>1. ObjectTypeOK
    <2>1. <<>> \in Seq(Messages)
      OBVIOUS
    <2>2. sendPc \in [Callers -> {"idle", "push"}] /\ closePc \in [Closers -> ClosePcs]
      BY DEF ObjectInit, ClosePcs
    <2>3. QED
      BY <2>1, <2>2 DEF ObjectInit, ObjectTypeOK, IoPcs
  <1>2. QueueInv /\ WriteInv /\ NoLostWakeup
    BY DEF ObjectInit, QueueInv, WriteInv, Popped, NoLostWakeup
  <1>3. CloserInv /\ PostCloseAlone /\ CallInv /\ NetworkCloseOnce
    BY DEF ObjectInit, CloserInv, PostCloseAlone, CallInv, NetworkCloseOnce
  <1>4. QED
    BY <1>1, <1>2, <1>3 DEF ObjectInv

(* Appending one message to a sequence of messages, and dropping the head.  *)
LEMMA AppendOne ==
  ASSUME NEW S, NEW s \in Seq(S), NEW e \in S
  PROVE  /\ Append(s, e) \in Seq(S)
         /\ Len(Append(s, e)) = Len(s) + 1
         /\ \A i \in 1..Len(s) : Append(s, e)[i] = s[i]
         /\ Append(s, e)[Len(s) + 1] = e
  OBVIOUS

LEMMA DropHead ==
  ASSUME NEW S, NEW s \in Seq(S), s # <<>>
  PROVE  /\ Tail(s) \in Seq(S) /\ Head(s) \in S /\ Head(s) = s[1]
         /\ Len(s) > 0 /\ Len(Tail(s)) = Len(s) - 1
         /\ \A i \in 1..(Len(s) - 1) : Tail(s)[i] = s[i + 1]
  OBVIOUS

(* Every step keeps the types.                                              *)
LEMMA ObjectTypeStep == ObjectInv /\ [ObjectNext]_connectionVars => ObjectTypeOK'
<1> SUFFICES ASSUME ObjectInv, [ObjectNext]_connectionVars PROVE ObjectTypeOK'
  OBVIOUS
<1>1. ObjectTypeOK
  BY DEF ObjectInv
<1> USE <1>1
<1> USE DEF connectionVars, sendVars, callVars, endVars, ObjectTypeOK
<1>2. ASSUME NEW t \in Callers, PostSendPush(t)
      PROVE  ObjectTypeOK'
  <2>1. sendMsg[t] \in Messages
    BY <1>2
  <2>2. queue' \in Seq(Messages) /\ accepted' \in Seq(Messages)
    BY <1>2, <2>1, AppendOne DEF PostSendPush
  <2>3. queue' # <<>>
    BY <1>2, <2>1, AppendOne DEF PostSendPush
  <2>4. writes' \in Seq(Messages)
    BY <1>2, <2>2, <2>3, DropHead DEF PostSendPush, StartWrite
  <2>5. QED
    BY <1>2, <2>2, <2>4 DEF PostSendPush
<1>3. ASSUME NEW t \in Callers, NEW m \in Messages, PostSendCheck(t, m)
      PROVE  ObjectTypeOK'
  BY <1>3 DEF PostSendCheck
<1>4. CASE ReceiveData
  BY <1>4 DEF ReceiveData, IoPcs
<1>5. CASE ReceiveError
  BY <1>5 DEF ReceiveError, IoPcs
<1>6. CASE HandlerDone
  BY <1>6 DEF HandlerDone, IoPcs
<1>7. CASE HandlerFails
  BY <1>7 DEF HandlerFails, IoPcs
<1>8. CASE WriteDone
  <2>1. written' \in Seq(Messages) /\ writes' \in Seq(Messages)
    BY <1>8, DropHead DEF WriteDone
  <2>2. QED
    BY <1>8, <2>1 DEF WriteDone, IoPcs
<1>9. CASE WriteError
  <2>1. writes' \in Seq(Messages)
    BY <1>9, DropHead DEF WriteError
  <2>2. QED
    BY <1>9, <2>1 DEF WriteError, IoPcs
<1>10. CASE SentCheck
  BY <1>10 DEF SentCheck, IoPcs
<1>11. CASE SentPop
  <2>1. queue # <<>>
    BY <1>11 DEF SentPop, ObjectInv, WriteInv, Popped
  <2>2. queue' \in Seq(Messages)
    BY <1>11, <2>1, DropHead DEF SentPop
  <2>3. writes' \in Seq(Messages)
    <3>1. CASE queue' = <<>>
      BY <1>11, <3>1 DEF SentPop
    <3>2. CASE queue' # <<>>
      <4>1. Append(writes, Head(queue')) \in Seq(Messages)
        BY <2>2, <3>2, DropHead, AppendOne
      <4>2. writes' \in {writes, Append(writes, Head(queue'))}
        BY <1>11, <3>2 DEF SentPop, StartWrite
      <4>3. QED
        BY <4>1, <4>2
    <3>3. QED
      BY <3>1, <3>2
  <2>4. closeTimer' \in BOOLEAN
    BY <1>11, TcpNetworkObjectAssumption DEF SentPop
  <2>5. QED
    BY <1>11, <2>2, <2>3, <2>4 DEF SentPop, IoPcs
<1>12. CASE CloseTimerFires
  BY <1>12 DEF CloseTimerFires, IoPcs
<1>13. CASE CloseTest
  BY <1>13 DEF CloseTest, IoPcs
<1>14. CASE CloseSet
  BY <1>14 DEF CloseSet, IoPcs
<1>15. CASE NetworkClose
  <2>1. closePc' \in [Closers -> ClosePcs] /\ registered' \in BOOLEAN
    BY <1>15 DEF NetworkClose, FindErase, ClosePcs
  <2>2. closeCalls' \in Nat /\ ioPc' \in IoPcs
    BY <1>15 DEF NetworkClose, IoPcs
  <2>3. QED
    BY <1>15, <2>1, <2>2 DEF NetworkClose
<1>16. CASE PostCloseTimer
  BY <1>16 DEF PostCloseTimer
<1>17. ASSUME NEW t \in Closers, CallRemove(t)
      PROVE  ObjectTypeOK'
  BY <1>17 DEF CallRemove, FindErase, ClosePcs
<1>18. ASSUME NEW t \in Closers, PostCloseMark(t)
      PROVE  ObjectTypeOK'
  BY <1>18 DEF PostCloseMark, ClosePcs
<1>19. ASSUME NEW t \in Closers, PostCloseArm(t)
      PROVE  ObjectTypeOK'
  BY <1>19 DEF PostCloseArm, ClosePcs
<1>20. CASE UNCHANGED connectionVars
  BY <1>20
<1>21. QED
  BY <1>1, <1>2, <1>3, <1>4, <1>5, <1>6, <1>7, <1>8, <1>9, <1>10, <1>11, <1>12, <1>13, <1>14, <1>15, <1>16, <1>17, <1>18, <1>19, <1>20
     DEF ObjectNext, SendStep, ReceiveStep, WriteStep, EndStep

(* Every step keeps the queue, the write under way and what was written     *)
(* together, and loses no wake-up.                                          *)
LEMMA SendStepInv == ObjectInv /\ [ObjectNext]_connectionVars => (QueueInv /\ WriteInv /\ NoLostWakeup)'
<1> SUFFICES ASSUME ObjectInv, [ObjectNext]_connectionVars PROVE (QueueInv /\ WriteInv /\ NoLostWakeup)'
  OBVIOUS
<1>1. ObjectTypeOK /\ QueueInv /\ WriteInv /\ NoLostWakeup /\ CloserInv
  BY DEF ObjectInv
<1>0. /\ Len(queue) \in Nat /\ Len(accepted) \in Nat /\ Len(written) \in Nat
      /\ Popped \in Nat /\ Len(accepted) = Popped + Len(queue)
  BY <1>1 DEF ObjectTypeOK, QueueInv, Popped
<1> USE <1>0, <1>1
<1> USE DEF connectionVars, sendVars, callVars, endVars
<1>2. ASSUME NEW t \in Callers, PostSendPush(t)
      PROVE  (QueueInv /\ WriteInv /\ NoLostWakeup)'
  <2> DEFINE m == sendMsg[t]
  <2>1. m \in Messages
    BY <1>2 DEF ObjectTypeOK
  <2>2. /\ queue' = Append(queue, m) /\ accepted' = Append(accepted, m)
        /\ UNCHANGED <<written, ioPc, isClosing, networkError>>
    BY <1>2 DEF PostSendPush
  <2>3. /\ Len(queue') = Len(queue) + 1 /\ Len(accepted') = Len(accepted) + 1
        /\ \A i \in 1..Len(queue) : queue'[i] = queue[i]
        /\ \A i \in 1..Len(accepted) : accepted'[i] = accepted[i]
        /\ queue'[Len(queue) + 1] = m /\ accepted'[Len(accepted) + 1] = m
        /\ queue' \in Seq(Messages)
    <3> HIDE <1>0, <1>1
    <3>1. queue \in Seq(Messages) /\ accepted \in Seq(Messages)
      BY <1>1 DEF ObjectTypeOK
    <3>2. /\ Len(queue') = Len(queue) + 1 /\ queue'[Len(queue) + 1] = m
          /\ \A i \in 1..Len(queue) : queue'[i] = queue[i]
          /\ queue' \in Seq(Messages)
      BY <2>1, <2>2, <3>1, AppendOne
    <3>3. /\ Len(accepted') = Len(accepted) + 1 /\ accepted'[Len(accepted) + 1] = m
          /\ \A i \in 1..Len(accepted) : accepted'[i] = accepted[i]
      BY <2>1, <2>2, <3>1, AppendOne
    <3>4. QED
      BY <3>2, <3>3
  <2>4. Popped' = Popped /\ Popped \in Nat
    BY <2>3 DEF Popped, ObjectTypeOK, QueueInv
  <2>5. QueueInv'
    <3>1. Len(queue') <= Len(accepted')
      BY <2>3
    <3>2. ASSUME NEW i \in 1..Len(queue')
          PROVE  queue'[i] = accepted'[Popped + i]
      <4>1. CASE i <= Len(queue)
        <5>1. i \in 1..Len(queue) /\ Popped + i \in 1..Len(accepted)
          BY <2>3, <4>1
        <5>2. QED
          BY <2>3, <5>1 DEF QueueInv
      <4>2. CASE i = Len(queue) + 1
        BY <2>3, <4>2
      <4>3. QED
        BY <2>3, <4>1, <4>2
    <3>3. QED
      BY <2>4, <3>1, <3>2 DEF QueueInv
  <2>6. CASE queue = <<>>
    <3>1. writes = <<>> /\ Len(written) = Popped
      BY <2>6 DEF WriteInv
    <3>8. Len(queue) = 0
      BY <2>6
    <3>9. Len(queue') = 1
      BY <2>3, <3>8
    <3>2. queue' # <<>> /\ Len(queue') = 1
      BY <3>9
    <3>6. Head(queue') = queue'[1]
      BY <2>3, <3>2, DropHead
    <3>3. writes' = IF ~isClosing /\ open THEN <<queue'[1]>> ELSE <<>>
      BY <1>2, <2>2, <3>1, <3>2, <3>6 DEF PostSendPush, StartWrite
    <3>4. WriteInv'
      BY <2>2, <2>3, <2>4, <2>6, <3>1, <3>2, <3>3 DEF WriteInv, ObjectTypeOK
    <3>5. NoLostWakeup'
      BY <2>2, <3>3 DEF NoLostWakeup, CloserInv
    <3>7. QED
      BY <2>5, <3>4, <3>5
  <2>7. CASE queue # <<>>
    <3>1. Len(queue) > 0 /\ Len(queue') # 1 /\ queue' # <<>> /\ queue'[1] = queue[1]
      BY <2>3, <2>7 DEF ObjectTypeOK
    <3>2. writes' = writes
      BY <1>2, <2>2, <3>1 DEF PostSendPush
    <3>6. \A i \in 1..Len(written) : i <= Len(accepted') /\ written[i] = accepted'[i]
      BY <2>3 DEF WriteInv
    <3>3. WriteInv'
      BY <2>2, <2>4, <2>7, <3>1, <3>2, <3>6 DEF WriteInv
    <3>4. NoLostWakeup'
      BY <2>2, <2>7, <3>2 DEF NoLostWakeup
    <3>5. QED
      BY <2>5, <3>3, <3>4
  <2>8. QED
    BY <2>6, <2>7
<1>3. ASSUME NEW t \in Callers, NEW m \in Messages, PostSendCheck(t, m)
      PROVE  (QueueInv /\ WriteInv /\ NoLostWakeup)'
  BY <1>3 DEF PostSendCheck, QueueInv, WriteInv, NoLostWakeup, Popped
<1>4. CASE ReceiveData
  BY <1>4 DEF ReceiveData, Ready, QueueInv, WriteInv, NoLostWakeup, Popped
<1>5. CASE ReceiveError
  BY <1>5 DEF ReceiveError, Ready, QueueInv, WriteInv, NoLostWakeup, Popped
<1>6. CASE HandlerDone
  BY <1>6 DEF HandlerDone, InHandler, QueueInv, WriteInv, NoLostWakeup, Popped
<1>7. CASE HandlerFails
  BY <1>7 DEF HandlerFails, InHandler, QueueInv, WriteInv, NoLostWakeup, Popped
<1>8. CASE WriteDone
  <2>1. writes = <<queue[1]>> /\ queue # <<>> /\ Len(written) = Popped
    BY <1>8 DEF WriteDone, WriteInv
  <2>2. Len(queue) > 0 /\ queue[1] \in Messages
    BY <2>1 DEF ObjectTypeOK
  <2>3. /\ written' = Append(written, queue[1]) /\ writes' = <<>> /\ ioPc' = "sent"
        /\ UNCHANGED <<queue, accepted>>
    BY <1>8, <2>1 DEF WriteDone
  <2>4. /\ Len(written') = Len(written) + 1
        /\ \A i \in 1..Len(written) : written'[i] = written[i]
        /\ written'[Len(written) + 1] = queue[1]
    BY <2>2, <2>3, AppendOne DEF ObjectTypeOK
  <2>5. queue[1] = accepted[Popped + 1] /\ Popped + 1 <= Len(accepted)
    <3>1. 1 \in 1..Len(queue)
      BY <2>2
    <3>2. QED
      BY <2>2, <3>1 DEF QueueInv
  <2>6. \A i \in 1..Len(written') : i <= Len(accepted) /\ written'[i] = accepted[i]
    BY <2>1, <2>4, <2>5 DEF WriteInv
  <2>7. Popped' = Popped /\ QueueInv'
    BY <2>3 DEF Popped, QueueInv
  <2>8. WriteInv' /\ NoLostWakeup'
    BY <2>1, <2>3, <2>4, <2>6, <2>7 DEF WriteInv, NoLostWakeup
  <2>9. QED
    BY <2>7, <2>8
<1>9. CASE WriteError
  <2>1. writes = <<queue[1]>> /\ queue # <<>> /\ Len(written) = Popped
    BY <1>9 DEF WriteError, WriteInv
  <2>2. writes' = <<>> /\ networkError' /\ ioPc' = "closeTest"
        /\ UNCHANGED <<queue, accepted, written>>
    BY <1>9, <2>1 DEF WriteError
  <2>3. QED
    BY <2>1, <2>2 DEF QueueInv, WriteInv, NoLostWakeup, Popped, ObjectTypeOK
<1>10. CASE SentCheck
  BY <1>10 DEF SentCheck, QueueInv, WriteInv, NoLostWakeup, Popped
<1>11. CASE SentPop
  <2>1. Len(written) = Popped + 1 /\ queue # <<>> /\ writes = <<>>
    BY <1>11 DEF SentPop, WriteInv
  <2>2. queue' = Tail(queue) /\ ioPc' = "idle"
        /\ UNCHANGED <<accepted, written, isClosing, networkError>>
    BY <1>11 DEF SentPop
  <2>3. /\ Len(queue) > 0 /\ Len(queue') = Len(queue) - 1
        /\ \A i \in 1..(Len(queue) - 1) : queue'[i] = queue[i + 1]
        /\ queue' \in Seq(Messages)
    BY <2>1, <2>2, DropHead DEF ObjectTypeOK
  <2> HIDE <1>0, <1>1
  <2>10. Len(accepted') = Len(accepted) /\ Len(accepted) \in Nat
    BY <1>0, <2>2
  <2>11. Popped' = Len(accepted') - Len(queue') /\ Popped = Len(accepted) - Len(queue)
    BY DEF Popped
  <2>4. Popped' = Popped + 1 /\ Popped \in Nat
    BY <1>0, <2>3, <2>10, <2>11
  <2>12. Len(queue) <= Len(accepted)
    BY <1>1 DEF QueueInv
  <2> USE <1>0, <1>1
  <2>5. QueueInv'
    <3>1. Len(queue') <= Len(accepted')
      BY <2>3, <2>10, <2>12
    <3>2. ASSUME NEW i \in 1..Len(queue')
          PROVE  queue'[i] = accepted'[Popped + 1 + i]
      <4>1. i \in 1..(Len(queue) - 1) /\ i + 1 \in 1..Len(queue)
        BY <2>3
      <4>2. queue'[i] = queue[i + 1] /\ queue[i + 1] = accepted[Popped + (i + 1)]
        BY <2>3, <4>1 DEF QueueInv
      <4>3. Popped + (i + 1) = Popped + 1 + i
        BY <4>1
      <4>4. QED
        BY <2>2, <4>2, <4>3
    <3>3. QED
      BY <2>4, <3>1, <3>2 DEF QueueInv
  <2>6. writes' = IF queue' # <<>> /\ ~isClosing /\ open THEN <<queue'[1]>> ELSE <<>>
    <3>1. CASE queue' = <<>>
      BY <1>11, <2>1, <2>2, <3>1 DEF SentPop
    <3>2. CASE queue' # <<>>
      <4>1. Head(queue') = queue'[1]
        BY <2>3, <3>2
      <4>2. QED
        BY <1>11, <2>1, <2>2, <3>2, <4>1 DEF SentPop, StartWrite
    <3>3. QED
      BY <3>1, <3>2
  <2>7. WriteInv'
    BY <2>1, <2>2, <2>4, <2>6 DEF WriteInv, ObjectTypeOK
  <2>8. NoLostWakeup'
    BY <2>2, <2>6 DEF NoLostWakeup, CloserInv
  <2>9. QED
    BY <2>5, <2>7, <2>8
<1>12. CASE CloseTimerFires
  BY <1>12 DEF CloseTimerFires, Ready, QueueInv, WriteInv, NoLostWakeup, Popped
<1>13. CASE CloseTest
  BY <1>13 DEF CloseTest, QueueInv, WriteInv, NoLostWakeup, Popped
<1>14. CASE CloseSet
  BY <1>14 DEF CloseSet, QueueInv, WriteInv, NoLostWakeup, Popped
<1>15. CASE NetworkClose
  BY <1>15 DEF NetworkClose, QueueInv, WriteInv, NoLostWakeup, Popped
<1>16. CASE PostCloseTimer
  BY <1>16 DEF PostCloseTimer, QueueInv, WriteInv, NoLostWakeup, Popped
<1>17. ASSUME NEW t \in Closers, CallRemove(t)
      PROVE  (QueueInv /\ WriteInv /\ NoLostWakeup)'
  BY <1>17 DEF CallRemove, InHandler, FindErase, QueueInv, WriteInv, NoLostWakeup, Popped
<1>18. ASSUME NEW t \in Closers, PostCloseMark(t)
      PROVE  (QueueInv /\ WriteInv /\ NoLostWakeup)'
  BY <1>18 DEF PostCloseMark, QueueInv, WriteInv, NoLostWakeup, Popped
<1>19. ASSUME NEW t \in Closers, PostCloseArm(t)
      PROVE  (QueueInv /\ WriteInv /\ NoLostWakeup)'
  BY <1>19 DEF PostCloseArm, QueueInv, WriteInv, NoLostWakeup, Popped
<1>20. CASE UNCHANGED connectionVars
  BY <1>20 DEF QueueInv, WriteInv, NoLostWakeup, Popped
<1>21. QED
  BY <1>1, <1>2, <1>3, <1>4, <1>5, <1>6, <1>7, <1>8, <1>9, <1>10, <1>11, <1>12, <1>13, <1>14, <1>15, <1>16, <1>17, <1>18, <1>19, <1>20
     DEF ObjectNext, SendStep, ReceiveStep, WriteStep, EndStep

(* Every step keeps the thread that posts the close alone.                  *)
LEMMA CloserStep == ObjectInv /\ [ObjectNext]_connectionVars => (CloserInv /\ PostCloseAlone)'
<1> SUFFICES ASSUME ObjectInv, [ObjectNext]_connectionVars PROVE (CloserInv /\ PostCloseAlone)'
  OBVIOUS
<1>1. ObjectTypeOK /\ CloserInv /\ PostCloseAlone
  BY DEF ObjectInv
<1> USE <1>1, IOIsAThread
<1> USE DEF connectionVars, sendVars, callVars, endVars
<1>2. ASSUME NEW t \in Callers, PostSendPush(t)
      PROVE  (CloserInv /\ PostCloseAlone)'
  BY <1>2 DEF PostSendPush, ObjectTypeOK, CloserInv, PostCloseAlone
<1>3. ASSUME NEW t \in Callers, NEW m \in Messages, PostSendCheck(t, m)
      PROVE  (CloserInv /\ PostCloseAlone)'
  BY <1>3 DEF PostSendCheck, ObjectTypeOK, CloserInv, PostCloseAlone
<1>4. CASE ReceiveData
  BY <1>4 DEF ReceiveData, ObjectTypeOK, CloserInv, PostCloseAlone
<1>5. CASE ReceiveError
  BY <1>5 DEF ReceiveError, ObjectTypeOK, CloserInv, PostCloseAlone
<1>6. CASE HandlerDone
  BY <1>6 DEF HandlerDone, ObjectTypeOK, CloserInv, PostCloseAlone
<1>7. CASE HandlerFails
  BY <1>7 DEF HandlerFails, ObjectTypeOK, CloserInv, PostCloseAlone
<1>8. CASE WriteDone
  BY <1>8 DEF WriteDone, ObjectTypeOK, CloserInv, PostCloseAlone
<1>9. CASE WriteError
  BY <1>9 DEF WriteError, ObjectTypeOK, CloserInv, PostCloseAlone
<1>10. CASE SentCheck
  BY <1>10 DEF SentCheck, ObjectTypeOK, CloserInv, PostCloseAlone
<1>11. CASE SentPop
  BY <1>11 DEF SentPop, ObjectTypeOK, CloserInv, PostCloseAlone
<1>12. CASE CloseTimerFires
  BY <1>12 DEF CloseTimerFires, ObjectTypeOK, CloserInv, PostCloseAlone
<1>13. CASE CloseTest
  BY <1>13 DEF CloseTest, ObjectTypeOK, CloserInv, PostCloseAlone
<1>14. CASE CloseSet
  BY <1>14 DEF CloseSet, ObjectTypeOK, CloserInv, PostCloseAlone
<1>15. CASE NetworkClose
  BY <1>15 DEF NetworkClose, FindErase, ObjectTypeOK, CloserInv, PostCloseAlone
<1>16. CASE PostCloseTimer
  BY <1>16 DEF PostCloseTimer, ObjectTypeOK, CloserInv, PostCloseAlone
<1>17. ASSUME NEW t \in Closers, CallRemove(t)
      PROVE  (CloserInv /\ PostCloseAlone)'
  BY <1>17 DEF CallRemove, FindErase, ObjectTypeOK, CloserInv, PostCloseAlone
<1>18. ASSUME NEW t \in Closers, PostCloseMark(t)
      PROVE  (CloserInv /\ PostCloseAlone)'
  BY <1>18 DEF PostCloseMark, ObjectTypeOK, CloserInv, PostCloseAlone
<1>19. ASSUME NEW t \in Closers, PostCloseArm(t)
      PROVE  (CloserInv /\ PostCloseAlone)'
  BY <1>19 DEF PostCloseArm, ObjectTypeOK, CloserInv, PostCloseAlone
<1>20. CASE UNCHANGED connectionVars
  BY <1>20 DEF ObjectTypeOK, CloserInv, PostCloseAlone
<1>21. QED
  BY <1>1, <1>2, <1>3, <1>4, <1>5, <1>6, <1>7, <1>8, <1>9, <1>10, <1>11, <1>12, <1>13, <1>14, <1>15, <1>16, <1>17, <1>18, <1>19, <1>20
     DEF ObjectNext, SendStep, ReceiveStep, WriteStep, EndStep

(* Every step keeps the callback of a closed connection unique.             *)
LEMMA CallStep == ObjectInv /\ [ObjectNext]_connectionVars => (CallInv /\ NetworkCloseOnce)'
<1> SUFFICES ASSUME ObjectInv, [ObjectNext]_connectionVars PROVE (CallInv /\ NetworkCloseOnce)'
  OBVIOUS
<1>1. ObjectTypeOK /\ CallInv /\ NetworkCloseOnce
  BY DEF ObjectInv
<1> USE <1>1
<1> USE DEF connectionVars, sendVars, callVars, endVars
<1>2. ASSUME NEW t \in Callers, PostSendPush(t)
      PROVE  (CallInv /\ NetworkCloseOnce)'
  BY <1>2 DEF PostSendPush, ObjectTypeOK, CallInv, NetworkCloseOnce
<1>3. ASSUME NEW t \in Callers, NEW m \in Messages, PostSendCheck(t, m)
      PROVE  (CallInv /\ NetworkCloseOnce)'
  BY <1>3 DEF PostSendCheck, ObjectTypeOK, CallInv, NetworkCloseOnce
<1>4. CASE ReceiveData
  BY <1>4 DEF ReceiveData, ObjectTypeOK, CallInv, NetworkCloseOnce
<1>5. CASE ReceiveError
  BY <1>5 DEF ReceiveError, ObjectTypeOK, CallInv, NetworkCloseOnce
<1>6. CASE HandlerDone
  BY <1>6 DEF HandlerDone, ObjectTypeOK, CallInv, NetworkCloseOnce
<1>7. CASE HandlerFails
  BY <1>7 DEF HandlerFails, ObjectTypeOK, CallInv, NetworkCloseOnce
<1>8. CASE WriteDone
  BY <1>8 DEF WriteDone, ObjectTypeOK, CallInv, NetworkCloseOnce
<1>9. CASE WriteError
  BY <1>9 DEF WriteError, ObjectTypeOK, CallInv, NetworkCloseOnce
<1>10. CASE SentCheck
  BY <1>10 DEF SentCheck, ObjectTypeOK, CallInv, NetworkCloseOnce
<1>11. CASE SentPop
  BY <1>11 DEF SentPop, ObjectTypeOK, CallInv, NetworkCloseOnce
<1>12. CASE CloseTimerFires
  BY <1>12 DEF CloseTimerFires, ObjectTypeOK, CallInv, NetworkCloseOnce
<1>13. CASE CloseTest
  BY <1>13 DEF CloseTest, ObjectTypeOK, CallInv, NetworkCloseOnce
<1>14. CASE CloseSet
  BY <1>14 DEF CloseSet, ObjectTypeOK, CallInv, NetworkCloseOnce
<1>15. CASE NetworkClose
  BY <1>15 DEF NetworkClose, ObjectTypeOK, CallInv, NetworkCloseOnce
<1>16. CASE PostCloseTimer
  BY <1>16 DEF PostCloseTimer, ObjectTypeOK, CallInv, NetworkCloseOnce
<1>17. ASSUME NEW t \in Closers, CallRemove(t)
      PROVE  (CallInv /\ NetworkCloseOnce)'
  BY <1>17 DEF CallRemove, ObjectTypeOK, CallInv, NetworkCloseOnce
<1>18. ASSUME NEW t \in Closers, PostCloseMark(t)
      PROVE  (CallInv /\ NetworkCloseOnce)'
  BY <1>18 DEF PostCloseMark, ObjectTypeOK, CallInv, NetworkCloseOnce
<1>19. ASSUME NEW t \in Closers, PostCloseArm(t)
      PROVE  (CallInv /\ NetworkCloseOnce)'
  BY <1>19 DEF PostCloseArm, ObjectTypeOK, CallInv, NetworkCloseOnce
<1>20. CASE UNCHANGED connectionVars
  BY <1>20 DEF ObjectTypeOK, CallInv, NetworkCloseOnce
<1>21. QED
  BY <1>1, <1>2, <1>3, <1>4, <1>5, <1>6, <1>7, <1>8, <1>9, <1>10, <1>11, <1>12, <1>13, <1>14, <1>15, <1>16, <1>17, <1>18, <1>19, <1>20
     DEF ObjectNext, SendStep, ReceiveStep, WriteStep, EndStep

(* The inductive invariant holds for all values of the constants.           *)
THEOREM ObjectInvariance == ObjectSpec => []ObjectInv
<1>1. ObjectInv /\ [ObjectNext]_connectionVars => ObjectInv'
  BY ObjectTypeStep, SendStepInv, CloserStep, CallStep DEF ObjectInv
<1>2. QED
  BY InitObjectInv, <1>1, PTL DEF ObjectSpec

(* Never two outstanding async_writes on one socket (PostSend, OnSend).      *)
THEOREM OneWrite == ObjectSpec => []AtMostOneWrite
<1>1. ObjectInv => AtMostOneWrite
  <2> SUFFICES ASSUME ObjectInv PROVE Len(writes) <= 1
    BY DEF AtMostOneWrite
  <2>1. CASE writes = <<>>
    <3>1. Len(writes) = 0
      BY <2>1
    <3>2. QED
      BY <3>1
  <2>2. CASE writes = <<queue[1]>>
    <3>1. Len(writes) = 1
      BY <2>2
    <3>2. QED
      BY <3>1
  <2>3. QED
    BY <2>1, <2>2 DEF ObjectInv, WriteInv
<1>2. QED
  BY ObjectInvariance, <1>1, PTL

(* A live connection with something to send is sending (PostSend, OnSend).   *)
THEOREM NoWakeupIsLost == ObjectSpec => []NoLostWakeup
<1>1. ObjectInv => NoLostWakeup
  BY DEF ObjectInv
<1>2. QED
  BY ObjectInvariance, <1>1, PTL

(* OnNetworkClose is called at most once (OnReceive, OnSend, CloseTimerProc). *)
THEOREM ClosedOnce == ObjectSpec => []NetworkCloseOnce
<1>1. ObjectInv => NetworkCloseOnce
  BY DEF ObjectInv
<1>2. QED
  BY ObjectInvariance, <1>1, PTL

(* PostClose is never run by two threads, nor twice (Find erases).           *)
THEOREM OneCloser == ObjectSpec => []PostCloseAlone
<1>1. ObjectInv => PostCloseAlone
  BY DEF ObjectInv
<1>2. QED
  BY ObjectInvariance, <1>1, PTL

(* A step of the object is a step of the channel, or none.                   *)
LEMMA ChannelStep == ObjectInv /\ [ObjectNext]_connectionVars => [Channel!ChannelNext]_Channel!channelVars
<1> SUFFICES ASSUME ObjectInv, [ObjectNext]_connectionVars
             PROVE  Channel!ChannelNext \/ UNCHANGED Channel!channelVars
  OBVIOUS
<1>1. ObjectTypeOK /\ QueueInv /\ WriteInv
  BY DEF ObjectInv
<1>0. /\ Len(queue) \in Nat /\ Len(accepted) \in Nat /\ Len(written) \in Nat
      /\ Popped \in Nat /\ Len(accepted) = Popped + Len(queue)
  BY <1>1 DEF ObjectTypeOK, QueueInv, Popped
<1> USE <1>0, <1>1
<1> USE DEF connectionVars, sendVars, callVars, endVars
<1>2. ASSUME NEW t \in Callers, PostSendPush(t)
      PROVE  UNCHANGED Channel!channelVars \/ Channel!ChannelNext
  <2>1. sendMsg[t] \in Messages
    BY <1>2 DEF ObjectTypeOK
  <2>2. Channel!Accept(sendMsg[t])
    BY <1>2 DEF PostSendPush, Channel!Accept
  <2>3. QED
    BY <2>1, <2>2 DEF Channel!ChannelNext
<1>3. ASSUME NEW t \in Callers, NEW m \in Messages, PostSendCheck(t, m)
      PROVE  UNCHANGED Channel!channelVars \/ Channel!ChannelNext
  BY <1>3 DEF PostSendCheck, Channel!channelVars
<1>4. CASE ReceiveData
  BY <1>4 DEF ReceiveData, Channel!channelVars
<1>5. CASE ReceiveError
  BY <1>5 DEF ReceiveError, Channel!channelVars
<1>6. CASE HandlerDone
  BY <1>6 DEF HandlerDone, Channel!channelVars
<1>7. CASE HandlerFails
  BY <1>7 DEF HandlerFails, Channel!channelVars
<1>8. CASE WriteDone
  <2>1. writes = <<queue[1]>> /\ queue # <<>> /\ Len(written) = Popped
    BY <1>8 DEF WriteDone, WriteInv
  <2>2. Len(queue) > 0
    BY <2>1 DEF ObjectTypeOK
  <2>3. queue[1] = accepted[Popped + 1] /\ Popped < Len(accepted)
    <3>1. 1 \in 1..Len(queue)
      BY <2>2
    <3>2. QED
      BY <2>2, <3>1 DEF QueueInv
  <2>4. written' = Append(written, accepted[Len(written) + 1])
    BY <1>8, <2>1, <2>3 DEF WriteDone
  <2>5. Channel!Deliver
    BY <1>8, <2>1, <2>3, <2>4 DEF WriteDone, Channel!Deliver
  <2>6. QED
    BY <2>5 DEF Channel!ChannelNext
<1>9. CASE WriteError
  BY <1>9 DEF WriteError, Channel!channelVars
<1>10. CASE SentCheck
  BY <1>10 DEF SentCheck, Channel!channelVars
<1>11. CASE SentPop
  BY <1>11 DEF SentPop, Channel!channelVars
<1>12. CASE CloseTimerFires
  BY <1>12 DEF CloseTimerFires, Channel!channelVars
<1>13. CASE CloseTest
  BY <1>13 DEF CloseTest, Channel!channelVars
<1>14. CASE CloseSet
  BY <1>14 DEF CloseSet, Channel!channelVars
<1>15. CASE NetworkClose
  BY <1>15 DEF NetworkClose, Channel!channelVars
<1>16. CASE PostCloseTimer
  BY <1>16 DEF PostCloseTimer, Channel!ChannelNext, Channel!Close
<1>17. ASSUME NEW t \in Closers, CallRemove(t)
      PROVE  UNCHANGED Channel!channelVars \/ Channel!ChannelNext
  BY <1>17 DEF CallRemove, Channel!channelVars
<1>18. ASSUME NEW t \in Closers, PostCloseMark(t)
      PROVE  UNCHANGED Channel!channelVars \/ Channel!ChannelNext
  BY <1>18 DEF PostCloseMark, Channel!channelVars
<1>19. ASSUME NEW t \in Closers, PostCloseArm(t)
      PROVE  UNCHANGED Channel!channelVars \/ Channel!ChannelNext
  BY <1>19 DEF PostCloseArm, Channel!channelVars
<1>20. CASE UNCHANGED connectionVars
  BY <1>20 DEF Channel!channelVars
<1>21. QED
  BY <1>1, <1>2, <1>3, <1>4, <1>5, <1>6, <1>7, <1>8, <1>9, <1>10, <1>11, <1>12, <1>13, <1>14, <1>15, <1>16, <1>17, <1>18, <1>19, <1>20
     DEF ObjectNext, SendStep, ReceiveStep, WriteStep, EndStep

(* What reaches the socket is what was queued, in order (PostSend, OnSend).  *)
THEOREM ImplementsChannel == ObjectSpec => ChannelSpec
<1>1. ObjectInit => Channel!ChannelInit
  BY DEF ObjectInit, Channel!ChannelInit
<1>2. QED
  BY <1>1, ChannelStep, ObjectInvariance, PTL DEF ObjectSpec, ChannelSpec, Channel!ChannelSpec

----------------------------------------------------------------------------
(* The manager.                                                              *)

USE ManagerAssumption, PoolAssumption
    DEF poolVars, managerVars, socketVars, objectVars, None

----------------------------------------------------------------------------
(* The pool.                                                                 *)

(* The index that follows is one of the pool's, though it may start again    *)
(* after the private services.                                               *)
LEMMA FollowingType ==
    ASSUME PoolTypeOK
    PROVE  Following(serviceIndex) \in Services
<1>1. PoolCount \div 3 \in 0..(PoolCount - 1)
  OBVIOUS
<1>. QED
  BY <1>1 DEF PoolTypeOK, Following, Services

LEMMA GetServiceEffect ==
    ASSUME PoolTypeOK, NEW v, GetService(v)
    PROVE  /\ PoolTypeOK' /\ UNCHANGED <<isRun, thread>>
           /\ v \in Services \cup {Null} /\ (isRun => v \in Services)
  BY FollowingType DEF PoolTypeOK, GetService

LEMMA GetPrivateServiceEffect ==
    ASSUME PoolTypeOK, NEW v, GetPrivateService(v)
    PROVE  /\ PoolTypeOK' /\ UNCHANGED <<isRun, thread>>
           /\ v \in Services \cup {Null} /\ (isRun => v \in Services)
<1>1. CASE isRun /\ privateServiceIndex < PoolCount \div 3
  <2>1. PoolCount \div 3 \in 0..(PoolCount - 1)
    OBVIOUS
  <2>. QED
    BY <1>1, <2>1 DEF PoolTypeOK, GetPrivateService, Services
<1>2. CASE ~(isRun /\ privateServiceIndex < PoolCount \div 3)
  BY <1>2, GetServiceEffect DEF GetPrivateService
<1>. QED
  BY <1>1, <1>2

(* The last thread that is joined ends the pool.                             *)
LEMMA JoinEffect ==
    ASSUME PoolTypeOK, NEW busy, Join(busy)
    PROVE  \E v \in Services \ busy :
              /\ PoolTypeOK'
              /\ thread[v] = "stopped" /\ thread' = [thread EXCEPT ![v] = "joined"]
              /\ \A u \in Services : thread[u] # "run"
              /\ ~isRun' => \A u \in Services : thread'[u] = "joined"
<1>1. PICK v \in Services \ busy :
        /\ thread[v] = "stopped" /\ \A u \in 0..(v - 1) : thread[u] = "joined"
        /\ thread' = [thread EXCEPT ![v] = "joined"]
        /\ isRun' = (v < PoolCount - 1)
  BY DEF Join
<1>2. isRun' \in BOOLEAN
  BY <1>1
<1>3. thread' \in [Services -> {"none", "run", "stopped", "joined"}]
  BY <1>1 DEF PoolTypeOK
<1>4. UNCHANGED <<serviceIndex, privateServiceIndex>> /\ \A u \in Services : thread[u] # "run"
  BY DEF Join
<1>5. ASSUME ~isRun', NEW u \in Services
      PROVE  thread'[u] = "joined"
  <2>1. ~ (v < PoolCount - 1)
    BY <1>1, <1>5
  <2>2. u = v \/ u \in 0..(v - 1)
    BY <2>1 DEF Services
  <2>. QED
    BY <1>1, <2>2 DEF PoolTypeOK
<1>. QED
  BY <1>1, <1>2, <1>3, <1>4, <1>5 DEF PoolTypeOK

LEMMA NullIsNoService == Null \notin Services /\ None \notin Services /\ None # Null
  BY DEF Null, Services

----------------------------------------------------------------------------
(* Keys.                                                                     *)

LEMMA LeastNatural ==
    ASSUME NEW T, T \subseteq Nat, T # {}
    PROVE  Min(T) \in T
<1>1. PICK x \in T : \A y \in T : ~ (<<y, x>> \in OpToRel(<, Nat))
  BY NatLessThanWellFounded, WFMin
<1>2. \A y \in T : x <= y
  <2>. TAKE y \in T
  <2>1. x \in Nat /\ y \in Nat
    OBVIOUS
  <2>2. ~ (y < x)
    BY <1>1, <2>1 DEF OpToRel
  <2>. QED
    BY <2>1, <2>2
<1>. QED
  BY <1>2 DEF Min

(* The key an object is inserted with is always one of the map's.            *)
LEMMA KeyToInsertType ==
    ASSUME indexKey \in 0..IndexKeyMaxSize
    PROVE  KeyToInsert \in Keys
<1>. DEFINE current == IF indexKey >= IndexKeyMaxSize THEN 0 ELSE indexKey
            free == {k \in Keys : k >= current /\ infoMap[k] = None}
<1>1. current \in Keys /\ free \subseteq Nat /\ free \subseteq Keys
  BY DEF Keys
<1>2. free # {} => Min(free) \in free
  BY <1>1, LeastNatural
<1>3. KeyToInsert = IF free = {} THEN current ELSE Min(free)
  BY DEF KeyToInsert, NextKey
<1>. QED
  BY <1>1, <1>2, <1>3

----------------------------------------------------------------------------
(* Types.                                                                    *)

Ops == {"Connected", "Handshake", "Accepted", "AcceptHandshake", "Release", "Close"}

LEMMA HandlerType ==
    ASSUME NEW op \in Ops, NEW v \in Services \cup {Null}, NEW s \in Sockets \cup {None}
    PROVE  /\ Handler(op, v, s) \in Handlers
           /\ Handler(op, v, s).op = op /\ Handler(op, v, s).service = v
           /\ Handler(op, v, s).socket = s
  BY DEF Handler, Handlers, Ops

LEMMA HandlerFields ==
    ASSUME NEW h \in Handlers
    PROVE  /\ h.op \in Ops /\ h.service \in Services \cup {Null}
           /\ h.socket \in Sockets \cup {None}
           /\ h = Handler(h.op, h.service, h.socket)
  BY DEF Handler, Handlers, Ops

LEMMA TaskType ==
    ASSUME TypeOK, NEW v \in Services
    PROVE  /\ running \in [Services -> Tasks]
           /\ [running EXCEPT ![v].op = "Accepted"] \in [Services -> Tasks]
           /\ [running EXCEPT ![v].op = "PostAccept"] \in [Services -> Tasks]
           /\ [running EXCEPT ![v] = Idle] \in [Services -> Tasks]
           /\ \A s \in Sockets :
                [running EXCEPT ![v] = [op |-> "Connected", socket |-> s]] \in [Services -> Tasks]
           /\ running[v].op \in {"idle", "Connected", "Accepted", "PostAccept"}
           /\ running[v].socket \in Sockets \cup {None}
  BY DEF TypeOK, Tasks, Idle

(* A socket that lives was made on a service.                                *)
LEMMA ServiceType ==
    ASSUME TypeOK, ServiceInv, NEW s \in Sockets, Live(s)
    PROVE  service[s] \in Services
  BY DEF TypeOK, ServiceInv

LEMMA PostCloseType ==
    ASSUME TypeOK, ServiceInv, NEW S \in SUBSET Sockets, NEW others \in SUBSET Handlers,
           \A s \in S : Live(s), PostClose(S, others)
    PROVE  closing' \subseteq Sockets /\ pending' \subseteq Handlers
<1>1. \A s \in S : Handler("Close", service[s], s) \in Handlers
  BY ServiceType, HandlerType DEF Ops
<1>. QED
  BY <1>1 DEF PostClose, TypeOK

LEMMA InMapType ==
    ASSUME TypeOK, KeyFindsItsObject, OwnerInv
    PROVE  InMap \subseteq objects /\ \A s \in InMap : Live(s)
  BY DEF TypeOK, KeyFindsItsObject, OwnerInv, InMap

(* An object is refused, or gets a free key and is entered or closed at once. *)
Refused(s) ==
    /\ socket' = [socket EXCEPT ![s] = "deleted"]
    /\ UNCHANGED <<infoMap, objectVars, pending>>
Entered(s, k) ==
    /\ infoMap[k] = None /\ socket[s] = "open"
    /\ objects' = objects \cup {s}
    /\ objectKey' = [objectKey EXCEPT ![s] = k]
    /\ infoMap' = [infoMap EXCEPT ![k] = s]
    /\ UNCHANGED <<socket, closing, pending>>
NotStarted(s, k) ==
    /\ objects' = objects \cup {s}
    /\ objectKey' = [objectKey EXCEPT ![s] = k]
    /\ PostClose({s}, pending)
    /\ UNCHANGED <<socket, infoMap>>

LEMMA InsertEffect ==
    ASSUME TypeOK, NEW s, Insert(s)
    PROVE  /\ indexKey' \in 0..IndexKeyMaxSize
           /\ \E k \in Keys : Refused(s) \/ Entered(s, k) \/ NotStarted(s, k)
<1>1. KeyToInsert \in Keys
  BY KeyToInsertType DEF TypeOK
<1>2. indexKey' \in 0..IndexKeyMaxSize
  BY <1>1 DEF Insert, Keys
<1>3. Refused(s) \/ Entered(s, KeyToInsert) \/ NotStarted(s, KeyToInsert)
  BY DEF Insert, Start, Refused, Entered, NotStarted
<1>. QED
  BY <1>1, <1>2, <1>3

LEMMA InsertType ==
    ASSUME TypeOK, ServiceInv, NEW s \in Sockets, Live(s), Insert(s)
    PROVE  /\ indexKey' \in 0..IndexKeyMaxSize
           /\ infoMap' \in [Keys -> Sockets \cup {None}]
           /\ socket' \in [Sockets -> {"unused", "open", "closed", "deleted"}]
           /\ objects' \subseteq Sockets /\ closing' \subseteq Sockets
           /\ objectKey' \in [Sockets -> Keys \cup {None}]
           /\ pending' \subseteq Handlers
<1>1. PICK k \in Keys : Refused(s) \/ Entered(s, k) \/ NotStarted(s, k)
  BY InsertEffect
<1>2. CASE Refused(s)
  BY <1>2, InsertEffect DEF Refused, TypeOK
<1>3. CASE Entered(s, k)
  BY <1>3, InsertEffect DEF Entered, TypeOK
<1>4. CASE NotStarted(s, k)
  <2>1. closing' \subseteq Sockets /\ pending' \subseteq Handlers
    BY <1>4, PostCloseType DEF NotStarted, TypeOK
  <2>. QED
    BY <1>4, <2>1, InsertEffect DEF NotStarted, TypeOK
<1>. QED
  BY <1>1, <1>2, <1>3, <1>4

LEMMA DropType ==
    ASSUME TypeOK, DropAcceptSocket
    PROVE  /\ socket' \in [Sockets -> {"unused", "open", "closed", "deleted"}]
           /\ acceptSocket' \in Sockets \cup {None}
  BY DEF TypeOK, DropAcceptSocket

LEMMA ListenType ==
    ASSUME TypeOK, Listen
    PROVE  /\ PoolTypeOK' /\ UNCHANGED <<isRun, thread, acceptSocket, socketVars, pending>>
           /\ acceptor' \in Services \cup {Null} /\ (isRun => acceptor' \in Services)
  BY GetServiceEffect, GetPrivateServiceEffect DEF TypeOK, Listen

LEMMA AcceptEffect ==
    ASSUME TypeOK, OwnerInv, Accept
    PROVE  \E s \in Unused, v \in Services \cup {Null} :
              /\ s \in Sockets /\ s # None /\ socket[s] = "unused"
              /\ isRun => v \in Services
              /\ PoolTypeOK' /\ UNCHANGED <<isRun, thread, acceptor>>
              /\ socket' = [t \in Sockets |-> IF t = s THEN "open" ELSE
                                               IF t = acceptSocket THEN "deleted" ELSE socket[t]]
              /\ service' = [service EXCEPT ![s] = v]
              /\ acceptSocket' = s
              /\ pending' = pending \cup {Handler("Accepted", acceptor, None)}
<1>1. PICK s \in Unused, v \in Services \cup {Null} :
        /\ GetService(v)
        /\ socket' = [t \in Sockets |-> CASE t = s -> "open"
                                          [] t = acceptSocket -> "deleted"
                                          [] OTHER -> socket[t]]
        /\ service' = [service EXCEPT ![s] = v]
        /\ acceptSocket' = s
  BY DEF Accept
<1>2. s \in Sockets /\ s # None /\ socket[s] = "unused" /\ s # acceptSocket
  BY DEF Unused, OwnerInv, Live
<1>3. socket' = [t \in Sockets |-> IF t = s THEN "open" ELSE
                                   IF t = acceptSocket THEN "deleted" ELSE socket[t]]
  BY <1>1, <1>2
<1>4. PoolTypeOK' /\ UNCHANGED <<isRun, thread>> /\ (isRun => v \in Services)
  BY <1>1, GetServiceEffect DEF TypeOK
<1>5. UNCHANGED acceptor /\ pending' = pending \cup {Handler("Accepted", acceptor, None)}
  BY DEF Accept
<1>. QED
  BY <1>1, <1>2, <1>3, <1>4, <1>5

----------------------------------------------------------------------------
(* What the handlers take, and what they leave.                              *)

LEMMA ConnectEffect ==
    ASSUME TypeOK, Connect
    PROVE  /\ \E s \in Sockets, v \in Services \cup {Null} :
                /\ socket[s] = "unused" /\ (isRun => v \in Services)
                /\ socket' = [socket EXCEPT ![s] = "open"]
                /\ service' = [service EXCEPT ![s] = v]
                /\ pending' = pending \cup {Handler("Connected", v, s)}
           /\ PoolTypeOK' /\ timer = "run"
           /\ UNCHANGED <<isRun, thread, main, timer, managerVars, objectVars, running>>
<1>1. PICK s \in Unused, v \in Services \cup {Null} :
        /\ GetService(v)
        /\ socket' = [socket EXCEPT ![s] = "open"]
        /\ service' = [service EXCEPT ![s] = v]
        /\ pending' = pending \cup {Handler("Connected", v, s)}
  BY DEF Connect
<1>2. s \in Sockets /\ socket[s] = "unused"
  BY DEF Unused
<1>3. (isRun => v \in Services) /\ PoolTypeOK' /\ UNCHANGED <<isRun, thread>>
  BY <1>1, GetServiceEffect DEF TypeOK
<1>4. timer = "run" /\ UNCHANGED <<main, timer, managerVars, objectVars, running>>
  BY DEF Connect
<1>. QED
  BY <1>1, <1>2, <1>3, <1>4

(* A connection that was made, or that failed.                               *)
LEMMA ConnectedEffect ==
    ASSUME OwnerInv, NEW v, OnConnected(v) \/ OnHandshakeSSL(v)
    PROVE  /\ \E h \in pending :
                /\ Waits(h) /\ h.socket \in Sockets /\ pending' = pending \ {h}
                /\ \/ /\ socket' = [socket EXCEPT ![h.socket] = "deleted"]
                      /\ running' = running
                   \/ /\ running' = [running EXCEPT ![v] =
                                       [op |-> "Connected", socket |-> h.socket]]
                      /\ socket' = socket
           /\ thread[v] = "run" /\ running[v] = Idle
           /\ UNCHANGED <<poolVars, main, timer, managerVars, service, objectVars>>
<1>1. thread[v] = "run" /\ running[v] = Idle
  BY DEF OnConnected, OnHandshakeSSL, Idles
<1>2. UNCHANGED <<poolVars, main, timer, managerVars, service, objectVars>>
  BY DEF OnConnected, OnHandshakeSSL
<1>3. PICK h \in pending :
        /\ Waits(h) /\ pending' = pending \ {h}
        /\ \/ socket' = [socket EXCEPT ![h.socket] = "deleted"] /\ running' = running
           \/ /\ running' = [running EXCEPT ![v] = [op |-> "Connected", socket |-> h.socket]]
              /\ socket' = socket
  BY DEF OnConnected, OnHandshakeSSL, Waits
<1>4. h.socket \in Sockets
  BY <1>3 DEF OwnerInv
<1>. QED
  BY <1>1, <1>2, <1>3, <1>4

(* The handshake takes the place of the connection.                          *)
LEMMA HandshakeEffect ==
    ASSUME OwnerInv, NEW v, OnConnectedSSL(v), ~Crash
    PROVE  /\ \E h \in pending :
                /\ h.op = "Connected" /\ h.socket \in Sockets
                /\ pending' = (pending \ {h}) \cup {Handler("Handshake", v, h.socket)}
           /\ thread[v] = "run" /\ running[v] = Idle /\ tls
           /\ UNCHANGED <<poolVars, main, timer, managerVars, socketVars, objectVars, running>>
<1>1. PICK h \in pending :
        /\ h.op = "Connected"
        /\ pending' = (pending \ {h}) \cup {Handler("Handshake", v, h.socket)}
        /\ UNCHANGED <<poolVars, main, timer, managerVars, socketVars, objectVars, running>>
  BY DEF OnConnectedSSL
<1>2. h.socket \in Sockets
  BY <1>1 DEF OwnerInv, Waits
<1>3. thread[v] = "run" /\ running[v] = Idle /\ tls
  BY DEF OnConnectedSSL, Idles
<1>. QED
  BY <1>1, <1>2, <1>3

(* The end of an accept, but for the handshake of TLS.                       *)
LEMMA AcceptedEffect ==
    ASSUME NEW v, OnAccept(v) \/ OnAcceptHandshakeSSL(v)
    PROVE  /\ \E h \in pending :
                /\ Accepts(h) /\ h.service = v /\ pending' = pending \ {h}
                /\ \/ /\ DropAcceptSocket
                      /\ running' = IF isCloseing THEN running
                                    ELSE [running EXCEPT ![v].op = "PostAccept"]
                   \/ /\ acceptor # None /\ UNCHANGED <<socket, acceptSocket>>
                      /\ running' = IF isCloseing THEN running
                                    ELSE [running EXCEPT ![v].op = "Accepted"]
                /\ ~tls => h.op = "Accepted" \/ h.op = "AcceptHandshake"
           /\ thread[v] = "run" /\ running[v] = Idle
           /\ UNCHANGED <<poolVars, main, timer, listens, private, tls, isCloseing, acceptor,
                          releaseTimer, indexKey, infoMap, service, objectVars>>
<1>1. thread[v] = "run" /\ running[v] = Idle
  BY DEF OnAccept, OnAcceptHandshakeSSL, Idles
<1>2. UNCHANGED <<poolVars, main, timer, listens, private, tls, isCloseing, acceptor,
                  releaseTimer, indexKey, infoMap, service, objectVars>>
  BY DEF OnAccept, OnAcceptHandshakeSSL
<1>3. CASE OnAccept(v)
  BY <1>1, <1>2, <1>3 DEF OnAccept, Accepts
<1>4. CASE OnAcceptHandshakeSSL(v)
  BY <1>1, <1>2, <1>4 DEF OnAcceptHandshakeSSL, Accepts
<1>. QED
  BY <1>3, <1>4

(* With TLS a handshake may follow.                                          *)
LEMMA AcceptedSslEffect ==
    ASSUME NEW v, OnAcceptSSL(v)
    PROVE  /\ \E h \in pending :
                /\ Accepts(h) /\ h.service = v
                /\ \/ /\ DropAcceptSocket /\ pending' = pending \ {h}
                      /\ running' = IF isCloseing THEN running
                                    ELSE [running EXCEPT ![v].op = "PostAccept"]
                   \/ /\ pending' = pending \ {h}
                      /\ UNCHANGED <<socket, acceptSocket, running>>
                   \/ /\ pending' = (pending \ {h}) \cup
                            {Handler("AcceptHandshake", service[acceptSocket], None)}
                      /\ UNCHANGED <<socket, acceptSocket, running>>
           /\ thread[v] = "run" /\ running[v] = Idle /\ tls
           /\ UNCHANGED <<poolVars, main, timer, listens, private, tls, isCloseing, acceptor,
                          releaseTimer, indexKey, infoMap, service, objectVars>>
<1>1. thread[v] = "run" /\ running[v] = Idle /\ tls
  BY DEF OnAcceptSSL, Idles
<1>2. UNCHANGED <<poolVars, main, timer, listens, private, tls, isCloseing, acceptor,
                  releaseTimer, indexKey, infoMap, service, objectVars>>
  BY DEF OnAcceptSSL
<1>3. PICK h \in pending :
        /\ h.op = "Accepted" /\ h.service = v
        /\ \/ /\ DropAcceptSocket
              /\ pending' = pending \ {h}
              /\ running' = IF isCloseing THEN running
                            ELSE [running EXCEPT ![v].op = "PostAccept"]
           \/ /\ pending' = (pending \ {h}) \cup
                    IF isCloseing THEN {}
                    ELSE {Handler("AcceptHandshake", service[acceptSocket], None)}
              /\ UNCHANGED <<socket, acceptSocket, running>>
  BY DEF OnAcceptSSL
<1>. QED
  BY <1>1, <1>2, <1>3 DEF Accepts

(* The accept that ends has a socket, while handlers run.                    *)
LEMMA AcceptSocketThere ==
    ASSUME TypeOK, ServiceInv, OwnerInv, AcceptInv, NEW h \in pending, Accepts(h),
           NEW v \in Services, thread[v] = "run"
    PROVE  acceptSocket \in Sockets /\ Live(acceptSocket)
  BY DEF TypeOK, ServiceInv, OwnerInv, AcceptInv

(* A close timer ends its object.                                            *)
LEMMA CloseEffect ==
    ASSUME CloseInv, NEW v, CloseTimer(v)
    PROVE  /\ \E h \in pending :
                /\ h.op = "Close" /\ h.socket \in objects \cap closing
                /\ h = Handler("Close", service[h.socket], h.socket)
                /\ pending' = pending \ {h}
                /\ objects' = objects \ {h.socket}
                /\ socket' = [socket EXCEPT ![h.socket] = "deleted"]
           /\ UNCHANGED <<poolVars, main, timer, managerVars, service, objectKey, closing, running>>
<1>1. PICK h \in pending :
        h.op = "Close" /\ pending' = pending \ {h} /\ DeleteObject(h.socket)
  BY DEF CloseTimer
<1>. QED
  BY <1>1 DEF CloseTimer, DeleteObject, CloseInv

(* Closing by key closes the object that was meant.                          *)
LEMMA NetworkCloseEffect ==
    ASSUME TypeOK, OwnerInv, CloseInv, KeyFindsItsObject, NEW v, OnNetworkClose(v)
    PROVE  /\ \E s \in objects \ closing :
                /\ s \in Sockets /\ Live(s) /\ objectKey[s] \in Keys /\ infoMap[objectKey[s]] = s
                /\ PostClose({s}, pending)
                /\ infoMap' = [infoMap EXCEPT ![objectKey[s]] = None]
           /\ UNCHANGED <<poolVars, main, timer, listens, private, tls, isCloseing, acceptor,
                          acceptSocket, releaseTimer, indexKey, socketVars, objects,
                          objectKey, running>>
<1>1. PICK s \in objects \ closing : Remove(objectKey[s])
  BY DEF OnNetworkClose
<1>2. s \in Sockets /\ Live(s) /\ objectKey[s] \in Keys /\ infoMap[objectKey[s]] = s
  BY <1>1 DEF KeyFindsItsObject, CloseInv, OwnerInv, TypeOK
<1>3. PostClose({s}, pending) /\ infoMap' = [infoMap EXCEPT ![objectKey[s]] = None]
  BY <1>1, <1>2 DEF Remove
<1>4. UNCHANGED <<poolVars, main, timer, listens, private, tls, isCloseing, acceptor,
                  acceptSocket, releaseTimer, indexKey, socketVars, objects,
                  objectKey, running>>
  BY DEF OnNetworkClose
<1>. QED
  BY <1>1, <1>2, <1>3, <1>4

(* Release by PostRelease or by its timer.                                   *)
LEMMA ReleaseEffect ==
    ASSUME TypeOK, NEW others, Release(others)
    PROVE  /\ PostClose(InMap, others)
           /\ infoMap' = [k \in Keys |-> None] /\ acceptor' = None
           /\ socket' = [s \in Sockets |-> IF s = acceptSocket THEN "closed" ELSE socket[s]]
  BY DEF Release, RemoveAll

----------------------------------------------------------------------------
(* Every variable keeps its type.                                            *)
LEMMA TypeStep ==
    ASSUME TypeOK, ServiceInv, OwnerInv, CloseInv, AcceptInv, KeyFindsItsObject, [Next]_vars
    PROVE  TypeOK'
<1>1. CASE LoadConfigFile \/ Main \/ CreateSSL \/ CreateTimers \/ Destroy
  BY <1>1 DEF TypeOK, PoolTypeOK, LoadConfigFile, Main, CreateSSL, CreateTimers, Destroy,
     MainReturns, StopTimers
<1>2. CASE CreatePool
  BY <1>2 DEF TypeOK, PoolTypeOK, CreatePool, Run
<1>3. CASE Create
  <2>1. CASE main' = "timers" /\ UNCHANGED <<poolVars, acceptor, acceptSocket, socketVars, pending>>
    BY <1>3, <2>1 DEF TypeOK, PoolTypeOK, Create
  <2>2. CASE Listen /\ main' \in {main, "release"}
    BY <1>3, <2>2, ListenType DEF TypeOK, Create
  <2>3. CASE Accept /\ main' = "timers"
    <3>1. acceptor \in Services \cup {Null}
      BY <2>3 DEF Accept, TypeOK
    <3>2. Handler("Accepted", acceptor, None) \in Handlers
      BY <3>1, HandlerType DEF Ops
    <3>. QED
      BY <1>3, <2>3, <3>2, AcceptEffect DEF TypeOK, Create
  <2>. QED
    BY <1>3, <2>1, <2>2, <2>3 DEF Create
<1>4. CASE PostRelease \/ \E v \in Services : ReleaseTimer(v)
  <2>1. ASSUME NEW others \in SUBSET Handlers, Release(others)
        PROVE  /\ closing' \subseteq Sockets /\ pending' \subseteq Handlers
               /\ infoMap' \in [Keys -> Sockets \cup {None}] /\ acceptor' = None
               /\ socket' \in [Sockets -> {"unused", "open", "closed", "deleted"}]
    <3>1. InMap \in SUBSET Sockets /\ \A s \in InMap : Live(s)
      BY InMapType DEF TypeOK
    <3>2. closing' \subseteq Sockets /\ pending' \subseteq Handlers
      BY <2>1, <3>1, PostCloseType DEF Release, RemoveAll
    <3>. QED
      BY <2>1, <3>2 DEF Release, RemoveAll, TypeOK
  <2>2. CASE PostRelease /\ acceptor # None
    <3>1. Handler("Release", acceptor, None) \in Handlers
      BY <2>2, HandlerType DEF TypeOK, Ops
    <3>. QED
      BY <2>2, <3>1 DEF PostRelease, TypeOK, PoolTypeOK
  <2>3. CASE PostRelease /\ acceptor = None
    <3>1. Release(pending) /\ pending \in SUBSET Handlers
      BY <2>3 DEF PostRelease, TypeOK
    <3>. QED
      BY <2>1, <2>3, <3>1 DEF PostRelease, TypeOK, PoolTypeOK
  <2>4. ASSUME NEW v \in Services, ReleaseTimer(v)
        PROVE  TypeOK'
    <3>1. pending \ {Handler("Release", v, None)} \in SUBSET Handlers
      BY DEF TypeOK
    <3>. QED
      BY <2>1, <2>4, <3>1 DEF ReleaseTimer, TypeOK, PoolTypeOK
  <2>. QED
    BY <1>4, <2>2, <2>3, <2>4
<1>5. CASE Stop
  <2>1. ASSUME StopService
        PROVE  PoolTypeOK'
    BY <2>1 DEF StopService, TypeOK, PoolTypeOK
  <2>2. ASSUME Join({v \in Services : running[v] # Idle})
        PROVE  PoolTypeOK'
    BY <2>2, JoinEffect DEF TypeOK
  <2>3. PoolTypeOK'
    BY <1>5, <2>1, <2>2 DEF Stop
  <2>. QED
    BY <1>5, <2>3 DEF Stop, TypeOK
<1>6. CASE Destruct
  BY <1>6, DropType DEF Destruct, TypeOK, PoolTypeOK
<1>7. CASE PostConnect \/ PostConnectSSL
  <2>1. Connect
    BY <1>7 DEF PostConnect, PostConnectSSL
  <2>2. PICK s \in Unused, v \in Services \cup {Null} :
        /\ GetService(v)
        /\ socket' = [socket EXCEPT ![s] = "open"]
        /\ service' = [service EXCEPT ![s] = v]
        /\ pending' = pending \cup {Handler("Connected", v, s)}
    BY <2>1 DEF Connect
  <2>3. s \in Sockets /\ Handler("Connected", v, s) \in Handlers /\ PoolTypeOK'
    BY <2>2, HandlerType, GetServiceEffect DEF Unused, Ops, TypeOK
  <2>. QED
    BY <2>1, <2>2, <2>3 DEF Connect, TypeOK
<1>8. ASSUME NEW v \in Services, OnConnected(v) \/ OnHandshakeSSL(v)
      PROVE  TypeOK'
  <2>1. PICK h \in pending :
          /\ Waits(h) /\ pending' = pending \ {h}
          /\ \/ socket' = [socket EXCEPT ![h.socket] = "deleted"] /\ running' = running
             \/ /\ running' = [running EXCEPT ![v] = [op |-> "Connected", socket |-> h.socket]]
                /\ socket' = socket
    BY <1>8 DEF OnConnected, OnHandshakeSSL, Waits
  <2>2. h.socket \in Sockets
    BY <2>1 DEF OwnerInv
  <2>3. running' \in [Services -> Tasks]
    <3>1. [running EXCEPT ![v] = [op |-> "Connected", socket |-> h.socket]] \in [Services -> Tasks]
      BY <2>2, TaskType
    <3>. QED
      BY <2>1, <3>1 DEF TypeOK
  <2>. QED
    BY <1>8, <2>1, <2>2, <2>3 DEF OnConnected, OnHandshakeSSL, TypeOK, PoolTypeOK
<1>9. ASSUME NEW v \in Services, OnConnectedSSL(v), ~Crash
      PROVE  TypeOK'
  <2>1. PICK h \in pending :
          /\ Waits(h)
          /\ pending' = (pending \ {h}) \cup {Handler("Handshake", v, h.socket)}
          /\ UNCHANGED <<poolVars, main, timer, managerVars, socketVars, objectVars, running>>
    BY <1>9 DEF OnConnectedSSL, Waits
  <2>2. h.socket \in Sockets
    BY <2>1 DEF OwnerInv
  <2>3. Handler("Handshake", v, h.socket) \in Handlers
    BY <2>2, HandlerType DEF Ops
  <2>. QED
    BY <2>1, <2>3 DEF TypeOK, PoolTypeOK
<1>10. CASE Crash
  <2>1. running' \in [Services -> Tasks]
    BY <1>10 DEF Crash, Idle, Tasks
  <2>. QED
    BY <1>10, <2>1 DEF Crash, TypeOK, PoolTypeOK
<1>11. ASSUME NEW v \in Services, OnTcpNetworkConnected(v)
       PROVE  TypeOK'
  <2>. DEFINE s == running[v].socket
  <2>1. s \in Sockets /\ Live(s)
    BY <1>11 DEF OnTcpNetworkConnected, OwnerInv
  <2>2. running' \in [Services -> Tasks]
    BY <1>11, TaskType DEF OnTcpNetworkConnected
  <2>3. CASE CreateFails(s)
    BY <1>11, <2>1, <2>2, <2>3 DEF OnTcpNetworkConnected, CreateFails, DeleteObject, TypeOK,
       PoolTypeOK
  <2>4. CASE Insert(s)
    BY <1>11, <2>1, <2>2, <2>4, InsertType DEF OnTcpNetworkConnected, TypeOK, PoolTypeOK
  <2>. QED
    BY <1>11, <2>3, <2>4 DEF OnTcpNetworkConnected, ConnectAdd
<1>12. ASSUME NEW v \in Services,
              OnAccept(v) \/ OnAcceptHandshakeSSL(v) \/ OnTcpNetworkAccepted(v)
       PROVE  TypeOK'
  <2>1. pending' \subseteq pending
    BY <1>12 DEF OnAccept, OnAcceptHandshakeSSL, OnTcpNetworkAccepted
  <2>2. running' \in [Services -> Tasks]
    <3>1. \/ running' = running
          \/ running' = [running EXCEPT ![v].op = "Accepted"]
          \/ running' = [running EXCEPT ![v].op = "PostAccept"]
      BY <1>12 DEF OnAccept, OnAcceptHandshakeSSL, OnTcpNetworkAccepted
    <3>. QED
      BY <3>1, TaskType
  <2>3. DropAcceptSocket \/ UNCHANGED <<socket, acceptSocket>>
    BY <1>12 DEF OnAccept, OnAcceptHandshakeSSL, OnTcpNetworkAccepted
  <2>4. UNCHANGED <<poolVars, main, timer, listens, private, tls, isCloseing, acceptor,
                    releaseTimer, indexKey, infoMap, service, objectVars>>
    BY <1>12 DEF OnAccept, OnAcceptHandshakeSSL, OnTcpNetworkAccepted
  <2>. QED
    BY <2>1, <2>2, <2>3, <2>4, DropType DEF TypeOK, PoolTypeOK
<1>13. ASSUME NEW v \in Services, OnAcceptSSL(v)
       PROVE  TypeOK'
  <2>1. PICK h \in pending :
          /\ h.op = "Accepted"
          /\ \/ pending' = pending \ {h}
             \/ pending' = (pending \ {h}) \cup
                   {Handler("AcceptHandshake", service[acceptSocket], None)}
    BY <1>13 DEF OnAcceptSSL
  <2>2. acceptSocket \in Sockets /\ Live(acceptSocket)
    BY <1>13, <2>1 DEF OnAcceptSSL, Idles, ServiceInv, AcceptInv, Accepts, OwnerInv, TypeOK
  <2>3. Handler("AcceptHandshake", service[acceptSocket], None) \in Handlers
    BY <2>2, ServiceType, HandlerType DEF Ops
  <2>4. running' \in [Services -> Tasks]
    <3>1. running' = running \/ running' = [running EXCEPT ![v].op = "PostAccept"]
      BY <1>13 DEF OnAcceptSSL
    <3>. QED
      BY <3>1, TaskType
  <2>5. DropAcceptSocket \/ UNCHANGED <<socket, acceptSocket>>
    BY <1>13 DEF OnAcceptSSL
  <2>6. UNCHANGED <<poolVars, main, timer, listens, private, tls, isCloseing, acceptor,
                    releaseTimer, indexKey, infoMap, service, objectVars>>
    BY <1>13 DEF OnAcceptSSL
  <2>. QED
    BY <2>1, <2>3, <2>4, <2>5, <2>6, DropType DEF TypeOK, PoolTypeOK
<1>14. ASSUME NEW v \in Services, PostAccept(v)
       PROVE  TypeOK'
  <2>1. CASE Listen /\ UNCHANGED running
    BY <1>14, <2>1, ListenType DEF TypeOK, PostAccept
  <2>2. CASE Accept /\ running' = [running EXCEPT ![v] = Idle]
    <3>1. acceptor \in Services \cup {Null}
      BY <2>2 DEF Accept, TypeOK
    <3>2. Handler("Accepted", acceptor, None) \in Handlers
      BY <3>1, HandlerType DEF Ops
    <3>3. running' \in [Services -> Tasks]
      BY <2>2, TaskType
    <3>. QED
      BY <1>14, <2>2, <3>2, <3>3, AcceptEffect DEF TypeOK, PostAccept
  <2>. QED
    BY <1>14, <2>1, <2>2 DEF PostAccept
<1>15. ASSUME NEW v \in Services, CloseTimer(v)
       PROVE  TypeOK'
  <2>1. PICK h \in pending :
          h.op = "Close" /\ pending' = pending \ {h} /\ DeleteObject(h.socket)
    BY <1>15 DEF CloseTimer
  <2>. QED
    BY <1>15, <2>1 DEF CloseTimer, DeleteObject, CloseInv, TypeOK, PoolTypeOK
<1>16. ASSUME NEW v \in Services, OnNetworkClose(v)
       PROVE  TypeOK'
  <2>1. PICK s \in objects \ closing : Remove(objectKey[s])
    BY <1>16 DEF OnNetworkClose
  <2>2. objectKey[s] \in Keys /\ infoMap[objectKey[s]] = s /\ s \in Sockets /\ Live(s)
    BY <2>1 DEF KeyFindsItsObject, CloseInv, OwnerInv, TypeOK
  <2>3. PostClose({s}, pending)
    BY <2>1, <2>2 DEF Remove
  <2>4. closing' \subseteq Sockets /\ pending' \subseteq Handlers
    BY <2>2, <2>3, PostCloseType DEF TypeOK
  <2>. QED
    BY <1>16, <2>1, <2>2, <2>4 DEF OnNetworkClose, Remove, TypeOK, PoolTypeOK
<1>17. CASE UNCHANGED vars
  BY <1>17 DEF vars, TypeOK, PoolTypeOK
<1>18. ASSUME NEW v \in Services, OnConnectedSSL(v)
       PROVE  TypeOK'
  BY <1>9, <1>10, <1>18
<1>. QED
  BY <1>1, <1>2, <1>3, <1>4, <1>5, <1>6, <1>7, <1>8, <1>11, <1>12, <1>13, <1>14, <1>15, <1>16,
     <1>17, <1>18 DEF Next

----------------------------------------------------------------------------
(* Whoever asks for a service gets one.                                      *)

(* Where the threads stand is untouched, and no socket comes to life.        *)
LEMMA ServiceKept ==
    ASSUME TypeOK, ServiceInv, UNCHANGED <<isRun, thread, main, timer, service>>,
           acceptor' \in {acceptor, None},
           \A s \in Sockets : Live(s)' => Live(s),
           \A v \in Services : running'[v] # Idle => thread[v] \in {"run", "stopped"}
    PROVE  ServiceInv'
  BY NullIsNoService DEF ServiceInv, Live, Up

LEMMA ServiceStep ==
    ASSUME TypeOK, ServiceInv, OwnerInv, CloseInv, AcceptInv, KeyFindsItsObject, [Next]_vars
    PROVE  ServiceInv'
<1>1. CASE LoadConfigFile \/ Main \/ CreateSSL \/ CreateTimers \/ Destroy
  BY <1>1 DEF LoadConfigFile, Main, CreateSSL, CreateTimers, Destroy,
     MainReturns, StopTimers, ServiceInv, Up, Live
<1>2. CASE CreatePool
  BY <1>2 DEF CreatePool, Run, ServiceInv, Up, Live
<1>3. CASE Create
  <2>0. isRun /\ UNCHANGED <<timer, running>> /\ timer # "run"
    BY <1>3 DEF Create, ServiceInv, Up
  <2>1. CASE main' = "timers" /\ UNCHANGED <<poolVars, acceptor, acceptSocket, socketVars, pending>>
    BY <1>3, <2>0, <2>1 DEF ServiceInv, Up, Live
  <2>2. CASE Listen /\ main' \in {main, "release"}
    <3>1. UNCHANGED <<isRun, thread, socketVars>> /\ acceptor' \in Services
      BY <2>0, <2>2, ListenType
    <3>2. main = "networks"
      BY <1>3 DEF Create
    <3>. QED
      BY <2>0, <2>2, <3>1, <3>2, NullIsNoService DEF ServiceInv, Up, Live
  <2>3. CASE Accept /\ main' = "timers"
    <3>1. PICK s \in Sockets, v \in Services :
            /\ UNCHANGED <<isRun, thread, acceptor>>
            /\ socket' = [t \in Sockets |-> IF t = s THEN "open" ELSE
                                             IF t = acceptSocket THEN "deleted" ELSE socket[t]]
            /\ service' = [service EXCEPT ![s] = v]
      BY <2>0, <2>3, AcceptEffect
    <3>2. \A t \in Sockets : service'[t] # Null /\ (Live(t)' => service'[t] # None)
      BY <3>1, NullIsNoService DEF ServiceInv, Live, TypeOK
    <3>. QED
      BY <2>0, <2>3, <3>1, <3>2 DEF ServiceInv, Up
  <2>. QED
    BY <1>3, <2>1, <2>2, <2>3 DEF Create
<1>4. ASSUME NEW others, Release(others)
      PROVE  acceptor' = None /\ \A s \in Sockets : Live(s)' => Live(s)
  <2>1. acceptSocket # None => Live(acceptSocket)
    BY DEF OwnerInv
  <2>. QED
    BY <1>4, <2>1 DEF Release, Live, TypeOK
<1>5. CASE PostRelease
  <2>1. acceptor' \in {acceptor, None} /\ \A s \in Sockets : Live(s)' => Live(s)
    BY <1>4, <1>5 DEF PostRelease, Live
  <2>. QED
    BY <1>5, <2>1, NullIsNoService DEF PostRelease, ServiceInv, Up
<1>6. ASSUME NEW v \in Services, ReleaseTimer(v)
      PROVE  ServiceInv'
  <2>1. acceptor' = None /\ \A s \in Sockets : Live(s)' => Live(s)
    BY <1>4, <1>6 DEF ReleaseTimer
  <2>. QED
    BY <1>6, <2>1, NullIsNoService DEF ReleaseTimer, ServiceInv, Up
<1>7. CASE Stop
  <2>1. main = "stop" /\ isRun /\ main' = (IF isRun' THEN "stop" ELSE "destruct")
        /\ UNCHANGED <<timer, acceptor, socket, service, running>>
    BY <1>7 DEF Stop, ServiceInv, Up
  <2>2. CASE StopService
    <3>1. isRun' /\ main' = "stop"
      BY <2>1, <2>2 DEF StopService
    <3>2. PICK u \in Services : thread[u] = "run" /\ thread' = [thread EXCEPT ![u] = "stopped"]
      BY <2>2 DEF StopService
    <3>3. \A v \in Services : running[v] # Idle => thread'[v] \in {"run", "stopped"}
      BY <3>2 DEF ServiceInv, TypeOK, PoolTypeOK
    <3>. QED
      BY <2>1, <3>1, <3>3 DEF ServiceInv, Up, Live
  <2>3. CASE Join({v \in Services : running[v] # Idle})
    <3>1. PICK u \in Services \ {v \in Services : running[v] # Idle} :
             /\ thread[u] = "stopped" /\ thread' = [thread EXCEPT ![u] = "joined"]
             /\ \A v \in Services : thread[v] # "run"
             /\ ~isRun' => \A v \in Services : thread'[v] = "joined"
      BY <2>3, JoinEffect DEF TypeOK
    <3>2. \A v \in Services : thread'[v] # "run"
      BY <3>1 DEF TypeOK, PoolTypeOK
    <3>3. \A v \in Services : running[v] # Idle => thread'[v] \in {"run", "stopped"}
      BY <3>1 DEF ServiceInv, TypeOK, PoolTypeOK
    <3>4. \A v \in Services : thread'[v] \in {"run", "stopped"} => isRun'
      BY <3>1
    <3>5. Up' => isRun'
      BY <2>1 DEF Up
    <3>. QED
      BY <2>1, <3>2, <3>3, <3>4, <3>5 DEF ServiceInv, Live
  <2>. QED
    BY <1>7, <2>2, <2>3 DEF Stop
<1>8. CASE Destruct
  <2>1. \A s \in Sockets : Live(s)' => Live(s)
    BY <1>8 DEF Destruct, DropAcceptSocket, Live, TypeOK
  <2>. QED
    BY <1>8, <2>1 DEF Destruct, ServiceInv, Up
<1>9. CASE PostConnect \/ PostConnectSSL
  <2>1. Connect
    BY <1>9 DEF PostConnect, PostConnectSSL
  <2>2. PICK s \in Sockets, v \in Services \cup {Null} :
          /\ (isRun => v \in Services)
          /\ socket' = [socket EXCEPT ![s] = "open"]
          /\ service' = [service EXCEPT ![s] = v]
    BY <2>1, ConnectEffect
  <2>3. UNCHANGED <<isRun, thread, main, timer, acceptor, running>> /\ timer = "run"
    BY <2>1, ConnectEffect
  <2>4. v \in Services
    BY <2>2, <2>3 DEF ServiceInv, Up
  <2>5. \A t \in Sockets : service'[t] # Null /\ (Live(t)' => service'[t] # None)
    BY <2>2, <2>4, NullIsNoService DEF ServiceInv, Live, TypeOK
  <2>. QED
    BY <2>3, <2>5 DEF ServiceInv, Up
<1>10. ASSUME NEW v \in Services, OnConnected(v) \/ OnHandshakeSSL(v)
       PROVE  ServiceInv'
  <2>1. PICK h \in pending :
          /\ h.socket \in Sockets
          /\ \/ socket' = [socket EXCEPT ![h.socket] = "deleted"] /\ running' = running
             \/ /\ running' = [running EXCEPT ![v] = [op |-> "Connected", socket |-> h.socket]]
                /\ socket' = socket
    BY <1>10, ConnectedEffect
  <2>2. thread[v] = "run" /\ UNCHANGED <<poolVars, main, timer, acceptor, service>>
    BY <1>10, ConnectedEffect
  <2>3. \A s \in Sockets : Live(s)' => Live(s)
    BY <2>1 DEF Live, TypeOK
  <2>4. \A u \in Services : running'[u] # Idle => thread[u] \in {"run", "stopped"}
    BY <2>1, <2>2 DEF ServiceInv, TypeOK
  <2>. QED
    BY <2>2, <2>3, <2>4, ServiceKept
<1>11. CASE Crash /\ \E v \in Services : OnConnectedSSL(v)
  <2>1. isRun
    BY <1>11 DEF OnConnectedSSL, Idles, ServiceInv
  <2>. QED
    BY <1>11, <2>1, NullIsNoService DEF Crash, ServiceInv, Up, Live
<1>12. ASSUME NEW v \in Services, OnConnectedSSL(v), ~Crash
       PROVE  ServiceInv'
  BY <1>12, HandshakeEffect DEF ServiceInv, Up, Live
<1>13. ASSUME NEW v \in Services, OnTcpNetworkConnected(v)
       PROVE  ServiceInv'
  <2>. DEFINE s == running[v].socket
  <2>1. s \in Sockets /\ UNCHANGED <<isRun, thread, main, timer, service, acceptor>>
        /\ running' = [running EXCEPT ![v] = Idle]
    BY <1>13 DEF OnTcpNetworkConnected, OwnerInv
  <2>2. CreateFails(s) \/ Insert(s)
    BY <1>13 DEF OnTcpNetworkConnected, ConnectAdd
  <2>3. socket' = socket \/ socket' = [socket EXCEPT ![s] = "deleted"]
    BY <2>2, InsertEffect DEF CreateFails, DeleteObject, Refused, Entered, NotStarted
  <2>4. \A t \in Sockets : Live(t)' => Live(t)
    BY <2>1, <2>3 DEF Live, TypeOK
  <2>5. \A u \in Services : running'[u] # Idle => thread[u] \in {"run", "stopped"}
    BY <2>1 DEF ServiceInv, TypeOK
  <2>. QED
    BY <2>1, <2>4, <2>5, ServiceKept
<1>14. ASSUME NEW v \in Services,
              OnAccept(v) \/ OnAcceptHandshakeSSL(v) \/ OnTcpNetworkAccepted(v) \/ OnAcceptSSL(v)
       PROVE  ServiceInv'
  <2>1. UNCHANGED <<isRun, thread, main, timer, service, acceptor>>
    BY <1>14 DEF OnAccept, OnAcceptHandshakeSSL, OnTcpNetworkAccepted, OnAcceptSSL
  <2>2. DropAcceptSocket \/ UNCHANGED <<socket, acceptSocket>>
    BY <1>14 DEF OnAccept, OnAcceptHandshakeSSL, OnTcpNetworkAccepted, OnAcceptSSL
  <2>3. \A s \in Sockets : Live(s)' => Live(s)
    BY <2>2 DEF DropAcceptSocket, Live
  <2>4. \/ running' = running
        \/ running' = [running EXCEPT ![v].op = "Accepted"]
        \/ running' = [running EXCEPT ![v].op = "PostAccept"]
    BY <1>14 DEF OnAccept, OnAcceptHandshakeSSL, OnTcpNetworkAccepted, OnAcceptSSL
  <2>5. thread[v] \in {"run", "stopped"}
    BY <1>14 DEF OnAccept, OnAcceptHandshakeSSL, OnTcpNetworkAccepted, OnAcceptSSL, Idles,
       ServiceInv, Idle
  <2>6. \A u \in Services : u # v => running'[u] = running[u]
    BY <2>4 DEF TypeOK
  <2>7. \A u \in Services : running'[u] # Idle => thread[u] \in {"run", "stopped"}
    BY <2>5, <2>6 DEF ServiceInv
  <2>. QED
    BY <2>1, <2>3, <2>7, ServiceKept
<1>15. ASSUME NEW v \in Services, PostAccept(v)
       PROVE  ServiceInv'
  <2>1. isRun
    BY <1>15 DEF PostAccept, ServiceInv, Idle
  <2>2. UNCHANGED <<main, timer>>
    BY <1>15 DEF PostAccept
  <2>3. CASE Listen /\ UNCHANGED running
    <3>1. UNCHANGED <<isRun, thread, socketVars>> /\ acceptor' \in Services
      BY <2>1, <2>3, ListenType
    <3>. QED
      BY <2>2, <2>3, <3>1, NullIsNoService DEF ServiceInv, Up, Live
  <2>4. CASE Accept /\ running' = [running EXCEPT ![v] = Idle]
    <3>1. PICK s \in Sockets, w \in Services :
            /\ UNCHANGED <<isRun, thread, acceptor>>
            /\ socket' = [t \in Sockets |-> IF t = s THEN "open" ELSE
                                             IF t = acceptSocket THEN "deleted" ELSE socket[t]]
            /\ service' = [service EXCEPT ![s] = w]
      BY <2>1, <2>4, AcceptEffect
    <3>2. \A t \in Sockets : service'[t] # Null /\ (Live(t)' => service'[t] # None)
      BY <3>1, NullIsNoService DEF ServiceInv, Live, TypeOK
    <3>3. \A u \in Services : running'[u] # Idle => thread[u] \in {"run", "stopped"}
      BY <2>4 DEF ServiceInv, TypeOK
    <3>. QED
      BY <2>2, <3>1, <3>2, <3>3 DEF ServiceInv, Up
  <2>. QED
    BY <1>15, <2>3, <2>4 DEF PostAccept
<1>16. ASSUME NEW v \in Services, CloseTimer(v)
       PROVE  ServiceInv'
  <2>1. \A s \in Sockets : Live(s)' => Live(s)
    BY <1>16, CloseEffect DEF Live, TypeOK
  <2>2. UNCHANGED <<isRun, thread, main, timer, service, acceptor, running>>
    BY <1>16 DEF CloseTimer
  <2>. QED
    BY <2>1, <2>2, ServiceKept DEF ServiceInv
<1>17. ASSUME NEW v \in Services, OnNetworkClose(v)
       PROVE  ServiceInv'
  BY <1>17 DEF OnNetworkClose, ServiceInv, Up, Live
<1>18. CASE UNCHANGED vars
  BY <1>18 DEF vars, ServiceInv, Up, Live
<1>. QED
  BY <1>1, <1>2, <1>3, <1>5, <1>6, <1>7, <1>8, <1>9, <1>10, <1>11, <1>12, <1>13, <1>14, <1>15,
     <1>16, <1>17, <1>18 DEF Next

----------------------------------------------------------------------------
(* A socket has one owner.                                                   *)

Conns == {h \in pending : Waits(h)}
Connected(s) == [op |-> "Connected", socket |-> s]

(* The connections and the objects stay as they are; the socket that waits   *)
(* for an accept may be dropped, and a new one take its place.               *)
LEMMA OwnerKept ==
    ASSUME TypeOK, OwnerInv, Conns' = Conns,
           \A v \in Services : running'[v] = running[v]
                \/ (running[v].op # "Connected" /\ running'[v].op # "Connected"),
           UNCHANGED objects, acceptSocket' \in Sockets \cup {None},
           acceptSocket' \in {acceptSocket, None} \/ ~Live(acceptSocket'),
           \A t \in Sockets : Live(t)' <=> t = acceptSocket' \/ (t # acceptSocket /\ Live(t))
    PROVE  OwnerInv'
<1>1. \A h : h \in pending' /\ Waits(h) <=> h \in pending /\ Waits(h)
  BY DEF Conns
<1>2. ASSUME NEW h \in pending', Waits(h)
      PROVE  /\ h.socket \in Sockets \ objects' /\ h.socket # acceptSocket' /\ Live(h.socket)'
             /\ \A g \in pending' : Waits(g) /\ g.socket = h.socket => g = h
  <2>1. h \in pending
    BY <1>1, <1>2
  <2>2. /\ h.socket \in Sockets \ objects /\ h.socket # acceptSocket /\ Live(h.socket)
        /\ \A g \in pending : Waits(g) /\ g.socket = h.socket => g = h
    BY <1>2, <2>1 DEF OwnerInv
  <2>3. h.socket # acceptSocket'
    BY <2>2
  <2>. QED
    BY <1>1, <2>2, <2>3
<1>3. ASSUME NEW v \in Services, running'[v].op = "Connected"
      PROVE  /\ running'[v].socket \in Sockets \ objects'
             /\ running'[v].socket # acceptSocket' /\ Live(running[v].socket)'
             /\ \A h \in pending' : Waits(h) => h.socket # running'[v].socket
             /\ \A u \in Services : running'[u] = running'[v] => u = v
  <2>1. running'[v] = running[v]
    BY <1>3
  <2>2. /\ running[v].socket \in Sockets \ objects
        /\ running[v].socket # acceptSocket /\ Live(running[v].socket)
        /\ \A h \in pending : Waits(h) => h.socket # running[v].socket
        /\ \A u \in Services : running[u] = running[v] => u = v
    BY <1>3, <2>1 DEF OwnerInv
  <2>3. running[v].socket # acceptSocket'
    BY <2>2
  <2>4. Live(running[v].socket)'
    BY <1>3, <2>1, <2>2 DEF Live
  <2>5. \A u \in Services : running'[u] = running'[v] => u = v
    BY <1>3, <2>1, <2>2
  <2>. QED
    BY <1>1, <2>1, <2>2, <2>3, <2>4, <2>5
<1>4. (acceptSocket # None => acceptSocket \notin objects /\ Live(acceptSocket))'
  BY NullIsNoService DEF OwnerInv, Live
<1>5. \A s \in objects' : Live(s)'
  BY DEF OwnerInv, TypeOK
<1>6. ASSUME NEW s \in Sockets, Live(s)'
      PROVE  \/ s = acceptSocket' \/ s \in objects'
             \/ \E h \in pending' : Waits(h) /\ h.socket = s
             \/ \E v \in Services : running'[v] = [op |-> "Connected", socket |-> s]
  BY <1>1, <1>6 DEF OwnerInv
<1>. QED
  BY <1>2, <1>3, <1>4, <1>5, <1>6 DEF OwnerInv, Live

(* A connecting socket, which nobody had.                                    *)
LEMMA OwnerConnect ==
    ASSUME TypeOK, OwnerInv, ServiceInv, Connect
    PROVE  OwnerInv'
<1>1. PICK s \in Sockets, v \in Services \cup {Null} :
        /\ socket[s] = "unused"
        /\ socket' = [socket EXCEPT ![s] = "open"]
        /\ pending' = pending \cup {Handler("Connected", v, s)}
  BY ConnectEffect
<1>2. UNCHANGED <<objects, acceptSocket, running>>
  BY ConnectEffect
<1>3. Handler("Connected", v, s).op = "Connected" /\ Handler("Connected", v, s).socket = s
  BY DEF Handler
<1>4. \A t \in Sockets : Live(t)' <=> t = s \/ Live(t)
  BY <1>1 DEF Live, TypeOK
<1>5. ~Live(s) /\ s # acceptSocket /\ s \notin objects
  BY <1>1 DEF OwnerInv, Live
<1>6. ASSUME NEW h \in pending', Waits(h)
      PROVE  /\ h.socket \in Sockets \ objects /\ h.socket # acceptSocket /\ Live(h.socket)'
             /\ \A g \in pending' : Waits(g) /\ g.socket = h.socket => g = h
  <2>1. CASE h \in pending
    <3>1. /\ h.socket \in Sockets \ objects /\ h.socket # acceptSocket /\ Live(h.socket)
          /\ \A g \in pending : Waits(g) /\ g.socket = h.socket => g = h
      BY <1>6, <2>1 DEF OwnerInv
    <3>. QED
      BY <1>1, <1>3, <1>4, <1>5, <3>1
  <2>2. CASE h = Handler("Connected", v, s)
    <3>1. \A g \in pending : Waits(g) => g.socket # s
      BY <1>5 DEF OwnerInv
    <3>. QED
      BY <1>1, <1>3, <1>4, <1>5, <2>2, <3>1
  <2>. QED
    BY <1>1, <2>1, <2>2
<1>7. ASSUME NEW u \in Services, running[u].op = "Connected"
      PROVE  /\ running[u].socket \in Sockets \ objects
             /\ running[u].socket # acceptSocket /\ Live(running[u].socket)
             /\ \A h \in pending' : Waits(h) => h.socket # running[u].socket
             /\ \A w \in Services : running[w] = running[u] => w = u
  <2>1. /\ running[u].socket \in Sockets \ objects
        /\ running[u].socket # acceptSocket /\ Live(running[u].socket)
        /\ \A h \in pending : Waits(h) => h.socket # running[u].socket
        /\ \A w \in Services : running[w] = running[u] => w = u
    BY <1>7 DEF OwnerInv
  <2>. QED
    BY <1>1, <1>3, <1>5, <2>1
<1>8. ASSUME NEW t \in Sockets, Live(t)'
      PROVE  \/ t = acceptSocket \/ t \in objects
             \/ \E h \in pending' : Waits(h) /\ h.socket = t
             \/ \E u \in Services : running[u] = [op |-> "Connected", socket |-> t]
  <2>1. CASE t = s
    BY <1>1, <1>3, <2>1 DEF Waits
  <2>2. CASE Live(t)
    BY <1>1, <2>2 DEF OwnerInv
  <2>. QED
    BY <1>4, <1>8, <2>1, <2>2
<1>9. acceptSocket # None => acceptSocket \notin objects /\ Live(acceptSocket)'
  BY <1>2, <1>4 DEF OwnerInv, TypeOK
<1>10. \A t \in objects : Live(t)'
  BY <1>4 DEF OwnerInv, TypeOK
<1>11. \A u \in Services : running[u].op = "Connected" => Live(running[u].socket)'
  BY <1>2, <1>4, <1>7 DEF Live
<1>. QED
  BY <1>2, <1>6, <1>7, <1>8, <1>9, <1>10, <1>11 DEF OwnerInv, Live

(* A connection whose socket goes to the handler, or is deleted.             *)
LEMMA OwnerConnected ==
    ASSUME TypeOK, OwnerInv, NEW v \in Services, OnConnected(v) \/ OnHandshakeSSL(v)
    PROVE  OwnerInv'
<1>1. PICK h \in pending :
        /\ Waits(h) /\ h.socket \in Sockets /\ pending' = pending \ {h}
        /\ \/ socket' = [socket EXCEPT ![h.socket] = "deleted"] /\ running' = running
           \/ /\ running' = [running EXCEPT ![v] = [op |-> "Connected", socket |-> h.socket]]
              /\ socket' = socket
  BY ConnectedEffect
<1>2. running[v] = Idle /\ UNCHANGED <<objects, acceptSocket>>
  BY ConnectedEffect
<1>. DEFINE s == h.socket
<1>3. /\ s \in Sockets \ objects /\ s # acceptSocket /\ Live(s)
      /\ \A g \in pending : Waits(g) /\ g.socket = s => g = h
  BY <1>1 DEF OwnerInv
<1>4. \A u \in Services : running[u].op = "Connected" => running[u].socket # s
  BY <1>1 DEF OwnerInv
<1>5. \A u \in Services : u # v => running'[u] = running[u]
  BY <1>1 DEF TypeOK
<1>6. \/ running'[v] = Idle /\ \A t \in Sockets : Live(t)' <=> t # s /\ Live(t)
      \/ running'[v] = Connected(s) /\ \A t \in Sockets : Live(t)' <=> Live(t)
  BY <1>1, <1>2 DEF TypeOK, Connected, Live
<1>7. Idle.op # "Connected" /\ Connected(s).op = "Connected" /\ Connected(s).socket = s
  BY DEF Idle, Connected
<1>8. ASSUME NEW g \in pending', Waits(g)
      PROVE  /\ g.socket \in Sockets \ objects /\ g.socket # acceptSocket /\ Live(g.socket)'
             /\ g.socket # s
             /\ \A f \in pending' : Waits(f) /\ f.socket = g.socket => f = g
  <2>1. g \in pending /\ g # h
    BY <1>1, <1>8
  <2>2. /\ g.socket \in Sockets \ objects /\ g.socket # acceptSocket /\ Live(g.socket)
        /\ \A f \in pending : Waits(f) /\ f.socket = g.socket => f = g
    BY <1>8, <2>1 DEF OwnerInv
  <2>3. g.socket # s
    BY <1>3, <1>8, <2>1
  <2>. QED
    BY <1>1, <1>6, <2>2, <2>3
<1>9. ASSUME NEW u \in Services, running'[u].op = "Connected"
      PROVE  /\ running'[u].socket \in Sockets \ objects
             /\ running'[u].socket # acceptSocket /\ Live(running[u].socket)'
             /\ \A g \in pending' : Waits(g) => g.socket # running'[u].socket
             /\ \A w \in Services : running'[w] = running'[u] => w = u
  <2>1. CASE u = v
    <3>1. running'[v] = Connected(s) /\ \A t \in Sockets : Live(t)' <=> Live(t)
      BY <1>6, <1>7, <1>9, <2>1
    <3>2. Live(s)'
      BY <1>3, <3>1
    <3>3. \A w \in Services : running'[w] = running'[v] => w = v
      BY <1>4, <1>5, <1>7, <3>1
    <3>4. \A g \in pending' : Waits(g) => g.socket # s
      BY <1>8
    <3>. QED
      BY <1>3, <1>7, <2>1, <3>1, <3>2, <3>3, <3>4 DEF Live
  <2>2. CASE u # v
    <3>1. running'[u] = running[u]
      BY <1>5, <2>2
    <3>2. /\ running[u].socket \in Sockets \ objects
          /\ running[u].socket # acceptSocket /\ Live(running[u].socket)
          /\ \A g \in pending : Waits(g) => g.socket # running[u].socket
          /\ \A w \in Services : running[w] = running[u] => w = u
      BY <1>9, <3>1 DEF OwnerInv
    <3>3. running[u].socket # s
      BY <1>4, <1>9, <3>1
    <3>4. \A t \in Sockets : t # s /\ Live(t) => Live(t)'
      BY <1>6
    <3>5. Live(running[u].socket)'
      BY <3>1, <3>2, <3>3, <3>4 DEF Live
    <3>6. running'[v] # running[u]
      BY <1>6, <1>7, <1>9, <3>1, <3>3
    <3>7. \A w \in Services : running'[w] = running[u] => w = u
      BY <1>5, <3>2, <3>6
    <3>. QED
      BY <1>1, <3>1, <3>2, <3>5, <3>7
  <2>. QED
    BY <2>1, <2>2
<1>10. ASSUME NEW t \in Sockets, Live(t)'
       PROVE  \/ t = acceptSocket \/ t \in objects
              \/ \E g \in pending' : Waits(g) /\ g.socket = t
              \/ \E u \in Services : running'[u] = [op |-> "Connected", socket |-> t]
  <2>1. CASE t = s
    BY <1>6, <1>10, <2>1 DEF Connected
  <2>2. CASE t # s
    <3>1. Live(t)
      BY <1>6, <1>10, <2>2
    <3>2. CASE t = acceptSocket \/ t \in objects
      BY <3>2
    <3>3. ASSUME NEW g \in pending, Waits(g), g.socket = t
          PROVE  g \in pending'
      BY <1>1, <2>2, <3>3
    <3>4. ASSUME NEW u \in Services, running[u] = [op |-> "Connected", socket |-> t]
          PROVE  running'[u] = running[u]
      BY <1>2, <1>5, <1>7, <3>4
    <3>. QED
      BY <3>1, <3>2, <3>3, <3>4 DEF OwnerInv
  <2>. QED
    BY <2>1, <2>2
<1>11. acceptSocket # None => acceptSocket \notin objects /\ Live(acceptSocket)'
  BY <1>2, <1>3, <1>6 DEF OwnerInv, TypeOK
<1>12. \A t \in objects : Live(t)'
  BY <1>3, <1>6 DEF OwnerInv, TypeOK
<1>. QED
  BY <1>2, <1>8, <1>9, <1>10, <1>11, <1>12 DEF OwnerInv, Live

(* A TLS connection, whose handshake takes its place.                        *)
LEMMA OwnerHandshake ==
    ASSUME TypeOK, OwnerInv, NEW v \in Services, OnConnectedSSL(v), ~Crash
    PROVE  OwnerInv'
<1>1. PICK h \in pending :
        /\ h.op = "Connected" /\ h.socket \in Sockets
        /\ pending' = (pending \ {h}) \cup {Handler("Handshake", v, h.socket)}
  BY HandshakeEffect
<1>2. UNCHANGED <<socket, objects, acceptSocket, running>>
  BY HandshakeEffect
<1>. DEFINE s == h.socket
            n == Handler("Handshake", v, s)
<1>3. n.op = "Handshake" /\ n.socket = s /\ Waits(n)
  BY DEF Handler, Waits
<1>4. pending' = (pending \ {h}) \cup {n}
  BY <1>1
<1>. HIDE DEF n
<1>5. /\ s \in Sockets \ objects /\ s # acceptSocket /\ Live(s)
      /\ \A g \in pending : Waits(g) /\ g.socket = s => g = h
  BY <1>1 DEF OwnerInv, Waits
<1>6. ASSUME NEW g \in pending', Waits(g)
      PROVE  /\ g.socket \in Sockets \ objects /\ g.socket # acceptSocket /\ Live(g.socket)
             /\ \A f \in pending' : Waits(f) /\ f.socket = g.socket => f = g
             /\ \E f \in pending : Waits(f) /\ f.socket = g.socket
  <2>1. CASE g = n
    <3>1. \A f \in pending' : Waits(f) /\ f.socket = s => f = n
      BY <1>5, <1>4
    <3>. QED
      BY <1>1, <1>3, <1>5, <2>1, <3>1 DEF Waits
  <2>2. CASE g # n
    <3>1. g \in pending /\ g # h
      BY <1>4, <2>2
    <3>2. /\ g.socket \in Sockets \ objects /\ g.socket # acceptSocket /\ Live(g.socket)
          /\ \A f \in pending : Waits(f) /\ f.socket = g.socket => f = g
      BY <1>6, <3>1 DEF OwnerInv
    <3>3. g.socket # s
      BY <1>5, <1>6, <3>1
    <3>4. \A f \in pending' : f = n \/ f \in pending
      BY <1>4
    <3>. QED
      BY <1>3, <1>6, <3>1, <3>2, <3>3, <3>4
  <2>. QED
    BY <2>1, <2>2
<1>7. \A u \in Services : running[u].op = "Connected" =>
        \A g \in pending' : Waits(g) => g.socket # running[u].socket
  BY <1>6 DEF OwnerInv
<1>8. ASSUME NEW f \in pending, Waits(f)
      PROVE  \E g \in pending' : Waits(g) /\ g.socket = f.socket
  <2>1. CASE f = h
    BY <1>3, <1>4, <2>1
  <2>2. CASE f # h
    BY <1>8, <1>4, <2>2
  <2>. QED
    BY <2>1, <2>2
<1>9. \A t \in Sockets : Live(t)' <=> Live(t)
  BY <1>2 DEF Live
<1>10. ASSUME NEW t \in Sockets, Live(t)
       PROVE  \/ t = acceptSocket \/ t \in objects
              \/ \E g \in pending' : Waits(g) /\ g.socket = t
              \/ \E u \in Services : running[u] = [op |-> "Connected", socket |-> t]
  <2>1. \/ t = acceptSocket \/ t \in objects
        \/ \E f \in pending : Waits(f) /\ f.socket = t
        \/ \E u \in Services : running[u] = [op |-> "Connected", socket |-> t]
    BY <1>10 DEF OwnerInv
  <2>2. ASSUME NEW f \in pending, Waits(f), f.socket = t
        PROVE  \E g \in pending' : Waits(g) /\ g.socket = t
    BY <1>8, <2>2
  <2>. QED
    BY <2>1, <2>2
<1>. QED
  BY <1>2, <1>6, <1>7, <1>9, <1>10 DEF OwnerInv, Live

(* A connection that is made an object, or deleted.                          *)
LEMMA OwnerInsert ==
    ASSUME TypeOK, OwnerInv, NEW v \in Services, OnTcpNetworkConnected(v)
    PROVE  OwnerInv'
<1>. DEFINE s == running[v].socket
<1>1. /\ running[v].op = "Connected" /\ running' = [running EXCEPT ![v] = Idle]
      /\ acceptSocket' = acceptSocket
      /\ CreateFails(s) \/ Insert(s)
  BY DEF OnTcpNetworkConnected, ConnectAdd
<1>2. /\ s \in Sockets \ objects /\ s # acceptSocket /\ Live(s)
      /\ \A h \in pending : Waits(h) => h.socket # s
      /\ \A u \in Services : running[u] = running[v] => u = v
  BY <1>1 DEF OwnerInv
<1>3. /\ running'[v].op # "Connected"
      /\ \A u \in Services : u # v => running'[u] = running[u]
  BY <1>1 DEF TypeOK, Idle
<1>4. /\ \A h : h \in pending' /\ Waits(h) <=> h \in pending /\ Waits(h)
      /\ \/ objects' = objects /\ \A t \in Sockets : Live(t)' <=> t # s /\ Live(t)
         \/ objects' = objects \cup {s} /\ \A t \in Sockets : Live(t)' <=> Live(t)
  <2>1. CASE CreateFails(s)
    BY <1>2, <2>1 DEF CreateFails, DeleteObject, Live, TypeOK
  <2>2. CASE Insert(s)
    <3>1. PICK k \in Keys : Refused(s) \/ Entered(s, k) \/ NotStarted(s, k)
      BY <2>2, InsertEffect
    <3>2. CASE Refused(s)
      BY <1>2, <3>2 DEF Refused, Live, TypeOK
    <3>3. CASE Entered(s, k)
      BY <3>3 DEF Entered, Live
    <3>4. CASE NotStarted(s, k)
      <4>1. ~Waits(Handler("Close", service[s], s))
        BY DEF Handler, Waits
      <4>2. \A h : h \in pending' /\ Waits(h) <=> h \in pending /\ Waits(h)
        BY <3>4, <4>1 DEF NotStarted, PostClose
      <4>. QED
        BY <3>4, <4>2 DEF NotStarted, Live
    <3>. QED
      BY <3>1, <3>2, <3>3, <3>4
  <2>. QED
    BY <1>1, <2>1, <2>2
<1>5. ASSUME NEW h \in pending', Waits(h)
      PROVE  /\ h.socket \in Sockets \ objects' /\ h.socket # acceptSocket /\ Live(h.socket)'
             /\ \A g \in pending' : Waits(g) /\ g.socket = h.socket => g = h
  <2>1. h \in pending
    BY <1>4, <1>5
  <2>2. /\ h.socket \in Sockets \ objects /\ h.socket # acceptSocket /\ Live(h.socket)
        /\ \A g \in pending : Waits(g) /\ g.socket = h.socket => g = h
    BY <1>5, <2>1 DEF OwnerInv
  <2>3. h.socket # s
    BY <1>2, <1>5, <2>1
  <2>. QED
    BY <1>4, <2>2, <2>3
<1>6. ASSUME NEW u \in Services, running'[u].op = "Connected"
      PROVE  /\ running'[u].socket \in Sockets \ objects'
             /\ running'[u].socket # acceptSocket /\ Live(running[u].socket)'
             /\ \A h \in pending' : Waits(h) => h.socket # running'[u].socket
             /\ \A w \in Services : running'[w] = running'[u] => w = u
  <2>1. u # v /\ running'[u] = running[u]
    BY <1>3, <1>6
  <2>2. /\ running[u].socket \in Sockets \ objects
        /\ running[u].socket # acceptSocket /\ Live(running[u].socket)
        /\ \A h \in pending : Waits(h) => h.socket # running[u].socket
        /\ \A w \in Services : running[w] = running[u] => w = u
    BY <1>6, <2>1 DEF OwnerInv
  <2>3. running[u].socket # s
    <3>1. running[u] = [op |-> "Connected", socket |-> running[u].socket]
          /\ running[v] = [op |-> "Connected", socket |-> running[v].socket]
      BY <1>1, <1>6, <2>1 DEF TypeOK, Tasks
    <3>. QED
      BY <1>2, <2>1, <3>1
  <2>4. Live(running[u].socket)'
    BY <1>4, <2>1, <2>2, <2>3 DEF Live
  <2>5. \A w \in Services : running'[w] = running'[u] => w = u
    BY <1>3, <1>6, <2>1, <2>2
  <2>. QED
    BY <1>4, <2>1, <2>2, <2>3, <2>4, <2>5
<1>7. ASSUME NEW t \in Sockets, Live(t)'
      PROVE  \/ t = acceptSocket \/ t \in objects'
             \/ \E h \in pending' : Waits(h) /\ h.socket = t
             \/ \E u \in Services : running'[u] = [op |-> "Connected", socket |-> t]
  <2>1. CASE t = s
    BY <1>4, <1>7, <2>1
  <2>2. CASE t # s
    <3>1. Live(t)
      BY <1>4, <1>7
    <3>2. \A u \in Services : running[u] = [op |-> "Connected", socket |-> t] => u # v
      BY <2>2
    <3>. QED
      BY <1>3, <1>4, <3>1, <3>2 DEF OwnerInv
  <2>. QED
    BY <2>1, <2>2
<1>8. acceptSocket # None => acceptSocket \notin objects' /\ Live(acceptSocket)'
  BY <1>1, <1>2, <1>4 DEF OwnerInv, TypeOK
<1>9. \A t \in objects' : Live(t)'
  BY <1>2, <1>4 DEF OwnerInv, TypeOK
<1>. QED
  BY <1>1, <1>5, <1>6, <1>7, <1>8, <1>9 DEF OwnerInv, Live

(* An object that is deleted.                                                *)
LEMMA OwnerClose ==
    ASSUME TypeOK, OwnerInv, CloseInv, NEW v \in Services, CloseTimer(v)
    PROVE  OwnerInv'
<1>1. PICK h \in pending :
        /\ h.op = "Close" /\ h.socket \in objects
        /\ pending' = pending \ {h}
        /\ objects' = objects \ {h.socket}
        /\ socket' = [socket EXCEPT ![h.socket] = "deleted"]
  BY CloseEffect
<1>2. UNCHANGED <<acceptSocket, running>> /\ h.socket \in Sockets
  BY <1>1 DEF CloseTimer, TypeOK
<1>3. \A g : g \in pending' /\ Waits(g) <=> g \in pending /\ Waits(g)
  BY <1>1 DEF Waits
<1>4. \A t \in Sockets : Live(t)' <=> t # h.socket /\ Live(t)
  BY <1>1, <1>2 DEF TypeOK, Live
<1>5. ASSUME NEW g \in pending', Waits(g)
      PROVE  /\ g.socket \in Sockets \ objects' /\ g.socket # acceptSocket /\ Live(g.socket)'
             /\ \A f \in pending' : Waits(f) /\ f.socket = g.socket => f = g
  <2>1. /\ g.socket \in Sockets \ objects /\ g.socket # acceptSocket /\ Live(g.socket)
        /\ \A f \in pending : Waits(f) /\ f.socket = g.socket => f = g
    BY <1>3, <1>5 DEF OwnerInv
  <2>. QED
    BY <1>1, <1>4, <2>1
<1>6. ASSUME NEW u \in Services, running[u].op = "Connected"
      PROVE  /\ running[u].socket \in Sockets \ objects'
             /\ running[u].socket # acceptSocket /\ Live(running[u].socket)'
             /\ \A g \in pending' : Waits(g) => g.socket # running[u].socket
             /\ \A w \in Services : running[w] = running[u] => w = u
  <2>1. /\ running[u].socket \in Sockets \ objects
        /\ running[u].socket # acceptSocket /\ Live(running[u].socket)
        /\ \A g \in pending : Waits(g) => g.socket # running[u].socket
        /\ \A w \in Services : running[w] = running[u] => w = u
    BY <1>6 DEF OwnerInv
  <2>2. Live(running[u].socket)'
    BY <1>1, <1>2, <1>4, <2>1 DEF Live
  <2>. QED
    BY <1>1, <1>3, <2>1, <2>2
<1>7. ASSUME NEW t \in Sockets, Live(t)'
      PROVE  \/ t = acceptSocket \/ t \in objects'
             \/ \E g \in pending' : Waits(g) /\ g.socket = t
             \/ \E u \in Services : running[u] = [op |-> "Connected", socket |-> t]
  BY <1>1, <1>3, <1>4, <1>7 DEF OwnerInv
<1>8. acceptSocket # None => acceptSocket \notin objects' /\ Live(acceptSocket)'
  BY <1>1, <1>2, <1>4 DEF OwnerInv, TypeOK
<1>9. \A t \in objects' : Live(t)'
  BY <1>1, <1>4 DEF OwnerInv, TypeOK
<1>. QED
  BY <1>2, <1>5, <1>6, <1>7, <1>8, <1>9 DEF OwnerInv, Live

LEMMA OwnerRelease ==
    ASSUME TypeOK, OwnerInv, NEW others, Release(others), UNCHANGED acceptSocket,
           \A h : Waits(h) => (h \in others <=> h \in pending)
    PROVE  /\ Conns' = Conns
           /\ \A t \in Sockets : Live(t)' <=> t = acceptSocket' \/ (t # acceptSocket /\ Live(t))
<1>1. \A s : ~Waits(Handler("Close", service[s], s))
  BY DEF Handler, Waits
<1>2. Conns' = Conns
  BY <1>1, ReleaseEffect DEF PostClose, Conns
<1>. QED
  BY <1>2, ReleaseEffect DEF Live, TypeOK

LEMMA OwnerStep ==
    ASSUME TypeOK, ServiceInv, OwnerInv, CloseInv, AcceptInv, KeyFindsItsObject, [Next]_vars
    PROVE  OwnerInv'
<1>1. CASE \/ LoadConfigFile \/ Main \/ CreatePool \/ CreateSSL \/ CreateTimers \/ Destroy \/ Stop
           \/ UNCHANGED vars
  BY <1>1 DEF LoadConfigFile, Main, CreatePool, CreateSSL, CreateTimers, Destroy, Stop, vars,
     OwnerInv, Live
<1>2. /\ ~Waits(Handler("Accepted", acceptor, None)) /\ ~Waits(Handler("Release", acceptor, None))
      /\ \A w : ~Waits(Handler("AcceptHandshake", w, None))
      /\ \A w : ~Waits(Handler("Release", w, None))
      /\ \A w, s : ~Waits(Handler("Close", w, s))
  BY DEF Handler, Waits
<1>3. acceptSocket # None => acceptSocket \in Sockets /\ Live(acceptSocket)
  BY DEF OwnerInv, TypeOK
<1>4. acceptSocket \in Sockets \cup {None}
  BY DEF TypeOK
<1>5. ASSUME Accept, UNCHANGED objects,
             \A v \in Services : running'[v] = running[v]
                \/ (running[v].op # "Connected" /\ running'[v].op # "Connected")
      PROVE  OwnerInv'
  <2>1. PICK s \in Sockets :
          /\ s # None /\ socket[s] = "unused" /\ acceptSocket' = s
          /\ socket' = [t \in Sockets |-> IF t = s THEN "open" ELSE
                                           IF t = acceptSocket THEN "deleted" ELSE socket[t]]
          /\ pending' = pending \cup {Handler("Accepted", acceptor, None)}
    BY <1>5, AcceptEffect
  <2>2. Conns' = Conns
    BY <1>2, <2>1 DEF Conns
  <2>3. ~Live(s)
    BY <2>1 DEF Live
  <2>4. \A t \in Sockets : Live(t)' <=> t = s \/ (t # acceptSocket /\ Live(t))
    BY <2>1 DEF Live
  <2>5. acceptSocket' \in Sockets \cup {None} /\ ~Live(acceptSocket')
        /\ \A t \in Sockets : Live(t)' <=> t = acceptSocket' \/ (t # acceptSocket /\ Live(t))
    BY <2>1, <2>3, <2>4
  <2>. QED
    BY <1>5, <2>2, <2>5, OwnerKept
<1>6. ASSUME Listen, UNCHANGED <<objects, running>>
      PROVE  OwnerInv'
  BY <1>6, ListenType DEF OwnerInv, Live
<1>7. CASE Create
  <2>1. UNCHANGED <<objects, running>>
    BY <1>7 DEF Create
  <2>2. CASE UNCHANGED <<poolVars, acceptor, acceptSocket, socketVars, pending>>
    BY <2>1, <2>2 DEF OwnerInv, Live
  <2>. QED
    BY <1>5, <1>6, <1>7, <2>1, <2>2 DEF Create
<1>8. CASE PostRelease
  <2>1. UNCHANGED <<objects, running, acceptSocket>>
    BY <1>8 DEF PostRelease
  <2>2. CASE acceptor # None
    <3>1. pending' = pending \cup {Handler("Release", acceptor, None)} /\ UNCHANGED socket
      BY <1>8, <2>2 DEF PostRelease
    <3>2. Conns' = Conns
      BY <1>2, <3>1 DEF Conns
    <3>3. \A t \in Sockets : Live(t)' <=> t = acceptSocket' \/ (t # acceptSocket /\ Live(t))
      BY <1>3, <2>1, <3>1 DEF Live
    <3>. QED
      BY <1>4, <2>1, <3>2, <3>3, OwnerKept
  <2>3. CASE acceptor = None
    <3>1. Release(pending)
      BY <1>8, <2>3 DEF PostRelease
    <3>2. Conns' = Conns
          /\ \A t \in Sockets : Live(t)' <=> t = acceptSocket' \/ (t # acceptSocket /\ Live(t))
      BY <2>1, <3>1, OwnerRelease
    <3>. QED
      BY <1>4, <2>1, <3>2, OwnerKept
  <2>. QED
    BY <2>2, <2>3
<1>9. ASSUME NEW v \in Services, ReleaseTimer(v)
      PROVE  OwnerInv'
  <2>1. UNCHANGED <<objects, running, acceptSocket>>
        /\ Release(pending \ {Handler("Release", v, None)})
    BY <1>9 DEF ReleaseTimer
  <2>2. \A h : Waits(h) => (h \in pending \ {Handler("Release", v, None)} <=> h \in pending)
    BY <1>2
  <2>3. Conns' = Conns
        /\ \A t \in Sockets : Live(t)' <=> t = acceptSocket' \/ (t # acceptSocket /\ Live(t))
    BY <2>1, <2>2, OwnerRelease
  <2>. QED
    BY <1>4, <2>1, <2>3, OwnerKept
<1>10. ASSUME DropAcceptSocket
       PROVE  /\ acceptSocket' = None
              /\ \A t \in Sockets : Live(t)' <=> t = acceptSocket' \/ (t # acceptSocket /\ Live(t))
  BY <1>10 DEF DropAcceptSocket, Live
<1>11. ASSUME UNCHANGED <<socket, acceptSocket>>
       PROVE  \A t \in Sockets : Live(t)' <=> t = acceptSocket' \/ (t # acceptSocket /\ Live(t))
  BY <1>3, <1>11 DEF Live
<1>12. CASE Destruct
  <2>1. DropAcceptSocket /\ UNCHANGED <<objects, pending, running>>
    BY <1>12 DEF Destruct
  <2>2. Conns' = Conns
    BY <2>1 DEF Conns
  <2>. QED
    BY <1>10, <2>1, <2>2, OwnerKept
<1>13. CASE PostConnect \/ PostConnectSSL
  BY <1>13, OwnerConnect DEF PostConnect, PostConnectSSL
<1>14. CASE Crash
  BY <1>14, NullIsNoService DEF Crash, OwnerInv, Live, Idle
<1>15. ASSUME NEW v \in Services,
              OnAccept(v) \/ OnAcceptHandshakeSSL(v) \/ OnTcpNetworkAccepted(v) \/ OnAcceptSSL(v)
       PROVE  OwnerInv'
  <2>1. UNCHANGED objects
    BY <1>15 DEF OnAccept, OnAcceptHandshakeSSL, OnTcpNetworkAccepted, OnAcceptSSL
  <2>2. DropAcceptSocket \/ UNCHANGED <<socket, acceptSocket>>
    BY <1>15 DEF OnAccept, OnAcceptHandshakeSSL, OnTcpNetworkAccepted, OnAcceptSSL
  <2>3. \/ running' = running
        \/ running' = [running EXCEPT ![v].op = "Accepted"]
        \/ running' = [running EXCEPT ![v].op = "PostAccept"]
    BY <1>15 DEF OnAccept, OnAcceptHandshakeSSL, OnTcpNetworkAccepted, OnAcceptSSL
  <2>4. running[v].op # "Connected"
    BY <1>15 DEF OnAccept, OnAcceptHandshakeSSL, OnTcpNetworkAccepted, OnAcceptSSL, Idles, Idle
  <2>5. \A u \in Services : u # v => running'[u] = running[u]
    BY <2>3 DEF TypeOK
  <2>6. running'[v] = running[v] \/ running'[v].op \in {"Accepted", "PostAccept"}
    BY <2>3 DEF TypeOK, Tasks
  <2>7. Conns' = Conns
    <3>1. CASE OnTcpNetworkAccepted(v)
      BY <3>1 DEF OnTcpNetworkAccepted, Conns
    <3>2. CASE OnAccept(v) \/ OnAcceptHandshakeSSL(v)
      <4>1. PICK h \in pending : Accepts(h) /\ pending' = pending \ {h}
        BY <3>2, AcceptedEffect
      <4>. QED
        BY <4>1 DEF Accepts, Waits, Conns
    <3>3. CASE OnAcceptSSL(v)
      <4>1. PICK h \in pending :
              /\ Accepts(h)
              /\ \/ pending' = pending \ {h}
                 \/ pending' = (pending \ {h}) \cup
                       {Handler("AcceptHandshake", service[acceptSocket], None)}
        BY <3>3, AcceptedSslEffect
      <4>. QED
        BY <1>2, <4>1 DEF Accepts, Waits, Conns
    <3>. QED
      BY <1>15, <3>1, <3>2, <3>3
  <2>8. \A u \in Services : running'[u] = running[u]
                \/ (running[u].op # "Connected" /\ running'[u].op # "Connected")
    BY <2>4, <2>5, <2>6
  <2>9. /\ acceptSocket' \in {acceptSocket, None} /\ acceptSocket' \in Sockets \cup {None}
        /\ \A t \in Sockets : Live(t)' <=> t = acceptSocket' \/ (t # acceptSocket /\ Live(t))
    BY <1>4, <1>10, <1>11, <2>2
  <2>. QED
    BY <2>1, <2>7, <2>8, <2>9, OwnerKept
<1>16. ASSUME NEW v \in Services, PostAccept(v)
       PROVE  OwnerInv'
  <2>1. UNCHANGED objects /\ running[v].op = "PostAccept"
    BY <1>16 DEF PostAccept
  <2>2. CASE Listen /\ UNCHANGED running
    BY <1>6, <2>1, <2>2
  <2>3. CASE Accept /\ running' = [running EXCEPT ![v] = Idle]
    <3>1. \A u \in Services : running'[u] = running[u]
                \/ (running[u].op # "Connected" /\ running'[u].op # "Connected")
      BY <2>1, <2>3 DEF TypeOK, Idle
    <3>. QED
      BY <1>5, <2>1, <2>3, <3>1
  <2>. QED
    BY <1>16, <2>2, <2>3 DEF PostAccept
<1>17. ASSUME NEW v \in Services, OnNetworkClose(v)
       PROVE  OwnerInv'
  <2>1. UNCHANGED <<objects, running, acceptSocket, socket>>
    BY <1>17 DEF OnNetworkClose
  <2>2. PICK s \in objects : PostClose({s}, pending)
    BY <1>17, NetworkCloseEffect
  <2>3. Conns' = Conns
    BY <1>2, <2>2 DEF PostClose, Conns
  <2>. QED
    BY <1>4, <1>11, <2>1, <2>3, OwnerKept
<1>18. ASSUME NEW v \in Services, OnConnectedSSL(v)
       PROVE  OwnerInv'
  BY <1>14, <1>18, OwnerHandshake
<1>. QED
  BY <1>1, <1>7, <1>8, <1>9, <1>12, <1>13, <1>15, <1>16, <1>17, <1>18, OwnerConnected,
     OwnerInsert, OwnerClose DEF Next

----------------------------------------------------------------------------
(* What closes, and what the keys find.                                      *)

(* The actions that only move handlers and sockets which are no object's.    *)
Elsewhere ==
    /\ UNCHANGED <<objectVars, infoMap>>
    /\ \A h \in pending' : h.op = "Close" => h \in pending
    /\ \A s \in objects : service'[s] = service[s]
    /\ \A s \in Sockets : socket[s] = "deleted" => socket'[s] = "deleted"

LEMMA CloseKept ==
    ASSUME TypeOK, CloseInv, Elsewhere
    PROVE  CloseInv'
<1>1. ASSUME NEW h \in pending', h.op = "Close"
      PROVE  /\ h.socket \in objects \cap closing
             /\ h = Handler("Close", service'[h.socket], h.socket)
  <2>1. h \in pending /\ \A s \in objects : service'[s] = service[s]
    BY <1>1 DEF Elsewhere
  <2>2. h.socket \in objects \cap closing /\ h = Handler("Close", service[h.socket], h.socket)
    BY <1>1, <2>1 DEF CloseInv
  <2>. QED
    BY <2>1, <2>2
<1>2. UNCHANGED <<objects, closing, objectKey>>
  BY DEF Elsewhere
<1>3. \A s \in closing : s \in objects \/ socket'[s] = "deleted"
  BY DEF CloseInv, Elsewhere, TypeOK
<1>. QED
  BY <1>1, <1>2, <1>3 DEF CloseInv

(* Telling objects to close.                                                 *)
LEMMA ClosePosted ==
    ASSUME TypeOK, CloseInv, NEW S, NEW others, PostClose(S, others), S \subseteq objects',
           objects \subseteq objects', UNCHANGED service,
           \A h \in others : h.op = "Close" => h \in pending,
           \A s \in Sockets : socket[s] = "deleted" => socket'[s] = "deleted",
           \A s \in objects' : objectKey'[s] \in Keys
    PROVE  CloseInv'
<1>1. closing' = closing \cup S
      /\ pending' = others \cup {Handler("Close", service[s], s) : s \in S \ closing}
  BY DEF PostClose
<1>2. \A s : Handler("Close", service[s], s).socket = s
  BY DEF Handler
<1>3. ASSUME NEW h \in pending', h.op = "Close"
      PROVE  /\ h.socket \in objects' \cap closing'
             /\ h = Handler("Close", service'[h.socket], h.socket)
  <2>1. CASE h \in others
    <3>1. h \in pending
      BY <1>3, <2>1
    <3>2. h.socket \in objects \cap closing
          /\ h = Handler("Close", service[h.socket], h.socket)
      BY <1>3, <3>1 DEF CloseInv
    <3>. QED
      BY <1>1, <3>2
  <2>2. ASSUME NEW s \in S, h = Handler("Close", service[s], s)
        PROVE  h.socket \in objects' \cap closing'
               /\ h = Handler("Close", service'[h.socket], h.socket)
    BY <1>1, <1>2, <2>2
  <2>. QED
    BY <1>1, <2>1, <2>2
<1>4. \A s \in closing' : s \in objects' \/ socket'[s] = "deleted"
  BY <1>1 DEF CloseInv, TypeOK
<1>. QED
  BY <1>3, <1>4 DEF CloseInv

(* Most actions are elsewhere.                                               *)
LEMMA ElsewhereStep ==
    ASSUME TypeOK, ServiceInv, OwnerInv, CloseInv, AcceptInv, [Next]_vars
    PROVE  \/ Elsewhere \/ Crash \/ PostRelease
           \/ \E v \in Services : \/ OnTcpNetworkConnected(v) \/ CloseTimer(v)
                                  \/ OnNetworkClose(v) \/ ReleaseTimer(v)
<1>1. CASE \/ LoadConfigFile \/ Main \/ CreatePool \/ CreateSSL \/ CreateTimers \/ Destroy \/ Stop
           \/ UNCHANGED vars
  BY <1>1 DEF LoadConfigFile, Main, CreatePool, CreateSSL, CreateTimers, Destroy, Stop, vars,
     Elsewhere
<1>2. /\ \A w, s : Handler("Accepted", w, s).op = "Accepted"
      /\ \A w, s : Handler("AcceptHandshake", w, s).op = "AcceptHandshake"
      /\ \A w, s : Handler("Connected", w, s).op = "Connected"
      /\ \A w, s : Handler("Handshake", w, s).op = "Handshake"
  BY DEF Handler
<1>3. \A s \in objects : s \in Sockets /\ Live(s)
  BY DEF OwnerInv, TypeOK
<1>4. ASSUME Accept, UNCHANGED <<objectVars, infoMap>>
      PROVE  Elsewhere
  <2>1. PICK s \in Sockets, v \in Services \cup {Null} :
          /\ socket[s] = "unused"
          /\ socket' = [t \in Sockets |-> IF t = s THEN "open" ELSE
                                           IF t = acceptSocket THEN "deleted" ELSE socket[t]]
          /\ service' = [service EXCEPT ![s] = v]
          /\ pending' = pending \cup {Handler("Accepted", acceptor, None)}
    BY <1>4, AcceptEffect
  <2>2. \A h \in pending' : h.op = "Close" => h \in pending
    BY <1>2, <2>1
  <2>3. \A t \in objects : t # s
    BY <1>3, <2>1 DEF Live
  <2>4. \A t \in objects : service'[t] = service[t]
    BY <1>3, <2>1, <2>3 DEF TypeOK
  <2>5. \A t \in Sockets : socket[t] = "deleted" => socket'[t] = "deleted"
    BY <2>1
  <2>. QED
    BY <1>4, <2>2, <2>4, <2>5 DEF Elsewhere
<1>5. ASSUME Listen, UNCHANGED <<objectVars, infoMap>>
      PROVE  Elsewhere
  BY <1>5, ListenType DEF Elsewhere
<1>6. CASE Create
  <2>1. UNCHANGED <<objectVars, infoMap>>
    BY <1>6 DEF Create
  <2>2. CASE UNCHANGED <<poolVars, acceptor, acceptSocket, socketVars, pending>>
    BY <2>1, <2>2 DEF Elsewhere
  <2>. QED
    BY <1>4, <1>5, <1>6, <2>1, <2>2 DEF Create
<1>7. CASE Destruct
  BY <1>7 DEF Destruct, DropAcceptSocket, Elsewhere
<1>8. CASE PostConnect \/ PostConnectSSL
  <2>1. Connect
    BY <1>8 DEF PostConnect, PostConnectSSL
  <2>2. PICK s \in Sockets, v \in Services \cup {Null} :
          /\ socket[s] = "unused"
          /\ socket' = [socket EXCEPT ![s] = "open"]
          /\ service' = [service EXCEPT ![s] = v]
          /\ pending' = pending \cup {Handler("Connected", v, s)}
    BY <2>1, ConnectEffect
  <2>3. UNCHANGED <<objectVars, infoMap>>
    BY <2>1, ConnectEffect
  <2>4. \A h \in pending' : h.op = "Close" => h \in pending
    BY <1>2, <2>2
  <2>5. \A t \in objects : t # s
    BY <1>3, <2>2 DEF Live
  <2>6. \A t \in objects : service'[t] = service[t]
    BY <1>3, <2>2, <2>5 DEF TypeOK
  <2>7. \A t \in Sockets : socket[t] = "deleted" => socket'[t] = "deleted"
    BY <2>2 DEF TypeOK
  <2>. QED
    BY <2>3, <2>4, <2>6, <2>7 DEF Elsewhere
<1>9. ASSUME NEW v \in Services, OnConnected(v) \/ OnHandshakeSSL(v)
      PROVE  Elsewhere
  BY <1>9, ConnectedEffect DEF Elsewhere, TypeOK
<1>10. ASSUME NEW v \in Services, OnConnectedSSL(v), ~Crash
       PROVE  Elsewhere
  BY <1>2, <1>10, HandshakeEffect DEF Elsewhere
<1>11. ASSUME NEW v \in Services, OnAccept(v) \/ OnAcceptHandshakeSSL(v)
       PROVE  Elsewhere
  BY <1>11, AcceptedEffect DEF Elsewhere, DropAcceptSocket
<1>12. ASSUME NEW v \in Services, OnTcpNetworkAccepted(v)
       PROVE  Elsewhere
  BY <1>12 DEF OnTcpNetworkAccepted, Elsewhere, DropAcceptSocket
<1>13. ASSUME NEW v \in Services, OnAcceptSSL(v)
       PROVE  Elsewhere
  BY <1>2, <1>13, AcceptedSslEffect DEF Elsewhere, DropAcceptSocket
<1>14. ASSUME NEW v \in Services, PostAccept(v)
       PROVE  Elsewhere
  BY <1>4, <1>5, <1>14 DEF PostAccept
<1>. QED
  BY <1>1, <1>6, <1>7, <1>8, <1>9, <1>10, <1>11, <1>12, <1>13, <1>14 DEF Next

LEMMA ClosingStep ==
    ASSUME TypeOK, ServiceInv, OwnerInv, CloseInv, AcceptInv, KeyFindsItsObject, [Next]_vars
    PROVE  CloseInv'
<1>1. CASE Elsewhere
  BY <1>1, CloseKept
<1>2. CASE Crash
  BY <1>2 DEF Crash, CloseInv
<1>3. \A w : Handler("Release", w, None).op = "Release"
  BY DEF Handler
<1>4. ASSUME NEW others, Release(others), UNCHANGED <<objects, objectKey, service>>,
             \A h \in others : h.op = "Close" => h \in pending
      PROVE  CloseInv'
  <2>1. PostClose(InMap, others) /\ InMap \subseteq objects
    BY <1>4, ReleaseEffect, InMapType
  <2>2. \A s \in Sockets : socket[s] = "deleted" => socket'[s] = "deleted"
    BY <1>4, ReleaseEffect DEF OwnerInv, Live
  <2>3. \A s \in objects' : objectKey'[s] \in Keys
    BY <1>4 DEF CloseInv
  <2>. QED
    BY <1>4, <2>1, <2>2, <2>3, ClosePosted
<1>5. CASE PostRelease
  <2>1. CASE acceptor # None
    BY <1>1, <1>3, <1>5, <2>1 DEF PostRelease, Elsewhere
  <2>2. CASE acceptor = None
    BY <1>4, <1>5, <2>2 DEF PostRelease
  <2>. QED
    BY <2>1, <2>2
<1>6. ASSUME NEW v \in Services, ReleaseTimer(v)
      PROVE  CloseInv'
  <2>1. UNCHANGED <<objects, objectKey, service>>
        /\ Release(pending \ {Handler("Release", v, None)})
    BY <1>6 DEF ReleaseTimer
  <2>. QED
    BY <1>4, <2>1
<1>7. ASSUME NEW v \in Services, OnTcpNetworkConnected(v)
      PROVE  CloseInv'
  <2>. DEFINE s == running[v].socket
  <2>1. s \in Sockets \ objects /\ Live(s) /\ UNCHANGED service
    BY <1>7 DEF OnTcpNetworkConnected, OwnerInv
  <2>2. CASE CreateFails(s)
    BY <1>1, <2>1, <2>2 DEF CreateFails, DeleteObject, Elsewhere, TypeOK
  <2>3. CASE Insert(s)
    <3>1. PICK k \in Keys : Refused(s) \/ Entered(s, k) \/ NotStarted(s, k)
      BY <2>3, InsertEffect
    <3>2. CASE Refused(s)
      BY <1>1, <2>1, <3>2 DEF Refused, Elsewhere, TypeOK
    <3>3. CASE Entered(s, k)
      <4>1. \A t \in objects' : objectKey'[t] \in Keys
        BY <2>1, <3>3 DEF Entered, TypeOK, CloseInv
      <4>. QED
        BY <2>1, <3>3, <4>1 DEF Entered, CloseInv
    <3>4. CASE NotStarted(s, k)
      <4>1. \A t \in objects' : objectKey'[t] \in Keys
        BY <2>1, <3>4 DEF NotStarted, TypeOK, CloseInv
      <4>2. PostClose({s}, pending) /\ {s} \subseteq objects' /\ objects \subseteq objects'
            /\ \A t \in Sockets : socket[t] = "deleted" => socket'[t] = "deleted"
        BY <3>4 DEF NotStarted
      <4>. QED
        BY <2>1, <4>1, <4>2, ClosePosted
    <3>. QED
      BY <3>1, <3>2, <3>3, <3>4
  <2>. QED
    BY <1>7, <2>2, <2>3 DEF OnTcpNetworkConnected, ConnectAdd
<1>8. ASSUME NEW v \in Services, CloseTimer(v)
      PROVE  CloseInv'
  <2>1. PICK h \in pending :
          /\ h.op = "Close" /\ h.socket \in objects \cap closing
          /\ h = Handler("Close", service[h.socket], h.socket)
          /\ pending' = pending \ {h}
          /\ objects' = objects \ {h.socket}
          /\ socket' = [socket EXCEPT ![h.socket] = "deleted"]
    BY <1>8, CloseEffect
  <2>2. UNCHANGED <<service, objectKey, closing>>
    BY <1>8, CloseEffect
  <2>3. ASSUME NEW g \in pending', g.op = "Close"
        PROVE  /\ g.socket \in objects' \cap closing
               /\ g = Handler("Close", service[g.socket], g.socket)
    <3>1. g.socket \in objects \cap closing /\ g = Handler("Close", service[g.socket], g.socket)
      BY <2>1, <2>3 DEF CloseInv
    <3>2. g.socket # h.socket
      BY <2>1, <3>1
    <3>. QED
      BY <2>1, <3>1, <3>2
  <2>4. \A s \in closing : s \in objects' \/ socket'[s] = "deleted"
    BY <2>1 DEF CloseInv, TypeOK
  <2>5. \A s \in objects' : objectKey[s] \in Keys
    BY <2>1 DEF CloseInv
  <2>. QED
    BY <2>2, <2>3, <2>4, <2>5 DEF CloseInv
<1>9. ASSUME NEW v \in Services, OnNetworkClose(v)
      PROVE  CloseInv'
  <2>1. PICK s \in objects : PostClose({s}, pending)
    BY <1>9, NetworkCloseEffect
  <2>2. UNCHANGED <<service, socket, objects, objectKey>>
    BY <1>9 DEF OnNetworkClose
  <2>3. \A t \in objects' : objectKey'[t] \in Keys
    BY <2>2 DEF CloseInv
  <2>. QED
    BY <2>1, <2>2, <2>3, ClosePosted
<1>. QED
  BY <1>1, <1>2, <1>5, <1>6, <1>7, <1>8, <1>9, ElsewhereStep

(* An inserted object gets a key nobody has, a closed one leaves its key.    *)
LEMMA KeyStep ==
    ASSUME TypeOK, ServiceInv, OwnerInv, CloseInv, AcceptInv, KeyFindsItsObject, [Next]_vars
    PROVE  KeyFindsItsObject'
<1>1. CASE Elsewhere
  BY <1>1 DEF Elsewhere, KeyFindsItsObject
<1>2. CASE Crash
  BY <1>2 DEF Crash, KeyFindsItsObject
<1>3. ASSUME NEW others, Release(others), UNCHANGED <<objects, objectKey>>
      PROVE  KeyFindsItsObject'
  <2>1. PostClose(InMap, others) /\ infoMap' = [k \in Keys |-> None]
    BY <1>3, ReleaseEffect
  <2>2. \A s \in objects \ closing : s \in InMap
    BY NullIsNoService DEF KeyFindsItsObject, CloseInv, InMap, TypeOK
  <2>3. objects' \ closing' = {}
    BY <1>3, <2>1, <2>2 DEF PostClose
  <2>. QED
    BY <2>1, <2>3 DEF KeyFindsItsObject
<1>4. CASE PostRelease
  BY <1>3, <1>4 DEF PostRelease, KeyFindsItsObject
<1>5. ASSUME NEW v \in Services, ReleaseTimer(v)
      PROVE  KeyFindsItsObject'
  BY <1>3, <1>5 DEF ReleaseTimer
<1>6. ASSUME NEW v \in Services, OnTcpNetworkConnected(v)
      PROVE  KeyFindsItsObject'
  <2>. DEFINE s == running[v].socket
  <2>1. s \in Sockets \ objects /\ Live(s)
    BY <1>6 DEF OnTcpNetworkConnected, OwnerInv
  <2>2. s \notin closing
    BY <2>1 DEF CloseInv, Live
  <2>3. CASE CreateFails(s)
    BY <2>1, <2>3 DEF CreateFails, DeleteObject, KeyFindsItsObject
  <2>4. CASE Insert(s)
    <3>1. PICK k \in Keys : Refused(s) \/ Entered(s, k) \/ NotStarted(s, k)
      BY <2>4, InsertEffect
    <3>2. CASE Refused(s)
      BY <3>2 DEF Refused, KeyFindsItsObject
    <3>3. CASE Entered(s, k)
      <4>1. /\ objects' \ closing' = (objects \ closing) \cup {s}
            /\ objectKey'[s] = k /\ infoMap'[k] = s
            /\ \A t \in objects : objectKey'[t] = objectKey[t]
            /\ \A j \in Keys : j # k => infoMap'[j] = infoMap[j]
        BY <2>1, <2>2, <3>3 DEF Entered, TypeOK
      <4>2. \A t \in objects \ closing :
              t # None /\ infoMap[objectKey[t]] = t /\ objectKey[t] \in Keys
        BY DEF KeyFindsItsObject, CloseInv, TypeOK
      <4>3. infoMap[k] = None
        BY <3>3 DEF Entered
      <4>4. \A t \in objects' \ closing' : infoMap'[objectKey'[t]] = t
        BY <4>1, <4>2, <4>3
      <4>5. ASSUME NEW j \in Keys, infoMap'[j] # None
            PROVE  infoMap'[j] \in objects' \ closing' /\ objectKey'[infoMap'[j]] = j
        <5>1. CASE j = k
          BY <4>1, <5>1
        <5>2. CASE j # k
          BY <4>1, <4>5, <5>2 DEF KeyFindsItsObject
        <5>. QED
          BY <5>1, <5>2
      <4>. QED
        BY <4>4, <4>5 DEF KeyFindsItsObject
    <3>4. CASE NotStarted(s, k)
      <4>1. /\ objects' \ closing' = objects \ closing
            /\ \A t \in objects : objectKey'[t] = objectKey[t]
            /\ UNCHANGED infoMap
        BY <2>1, <2>2, <3>4 DEF NotStarted, PostClose, TypeOK
      <4>. QED
        BY <4>1 DEF KeyFindsItsObject
    <3>. QED
      BY <3>1, <3>2, <3>3, <3>4
  <2>. QED
    BY <1>6, <2>3, <2>4 DEF OnTcpNetworkConnected, ConnectAdd
<1>7. ASSUME NEW v \in Services, CloseTimer(v)
      PROVE  KeyFindsItsObject'
  <2>1. PICK h \in pending : h.socket \in closing /\ objects' = objects \ {h.socket}
    BY <1>7, CloseEffect
  <2>2. UNCHANGED <<infoMap, objectKey, closing>>
    BY <1>7, CloseEffect
  <2>. QED
    BY <2>1, <2>2 DEF KeyFindsItsObject
<1>8. ASSUME NEW v \in Services, OnNetworkClose(v)
      PROVE  KeyFindsItsObject'
  <2>1. PICK s \in objects \ closing :
          /\ objectKey[s] \in Keys /\ infoMap[objectKey[s]] = s
          /\ PostClose({s}, pending)
          /\ infoMap' = [infoMap EXCEPT ![objectKey[s]] = None]
    BY <1>8, NetworkCloseEffect
  <2>2. UNCHANGED <<objects, objectKey>>
    BY <1>8 DEF OnNetworkClose
  <2>3. /\ closing' = closing \cup {s}
        /\ infoMap'[objectKey[s]] = None
        /\ \A k \in Keys : k # objectKey[s] => infoMap'[k] = infoMap[k]
    BY <2>1 DEF PostClose, TypeOK
  <2>4. ASSUME NEW t \in objects \ closing'
        PROVE  infoMap'[objectKey[t]] = t
    <3>1. t \in objects \ closing /\ t # s /\ infoMap[objectKey[t]] = t /\ objectKey[t] \in Keys
      BY <2>3, <2>4 DEF KeyFindsItsObject, CloseInv
    <3>2. objectKey[t] # objectKey[s]
      BY <2>1, <3>1
    <3>. QED
      BY <2>3, <3>1, <3>2
  <2>5. ASSUME NEW k \in Keys, infoMap'[k] # None
        PROVE  infoMap'[k] \in objects \ closing' /\ objectKey[infoMap'[k]] = k
    <3>1. k # objectKey[s] /\ infoMap'[k] = infoMap[k]
      BY <2>3, <2>5
    <3>2. infoMap[k] \in objects \ closing /\ objectKey[infoMap[k]] = k
      BY <2>5, <3>1 DEF KeyFindsItsObject
    <3>. QED
      BY <2>3, <3>1, <3>2
  <2>. QED
    BY <2>2, <2>4, <2>5 DEF KeyFindsItsObject
<1>. QED
  BY <1>1, <1>2, <1>4, <1>5, <1>6, <1>7, <1>8, ElsewhereStep

----------------------------------------------------------------------------
(* One accept is under way at a time.                                        *)

Early == main \in {"load", "log", "start", "networks"}

LEMMA AcceptKept ==
    ASSUME AcceptInv, \A h \in pending' : Accepts(h) => h \in pending,
           \A v \in Services : Accepting(v)' => Accepting(v),
           Early' => Early, Up' => acceptSocket' = acceptSocket /\ (Up \/ Early)
    PROVE  AcceptInv'
<1>1. ASSUME NEW h \in pending', Accepts(h)
      PROVE  /\ Up' => acceptSocket' # None
             /\ \A g \in pending' : Accepts(g) => g = h
  <2>1. h \in pending /\ ~Early
    BY <1>1 DEF AcceptInv, Early
  <2>. QED
    BY <1>1, <2>1 DEF AcceptInv
<1>2. ASSUME NEW v \in Services, Accepting(v)'
      PROVE  /\ \A h \in pending' : ~Accepts(h)
             /\ \A u \in Services : Accepting(u)' => u = v
  BY <1>2 DEF AcceptInv
<1>3. Early' => (\A h \in pending' : ~Accepts(h)) /\ (\A v \in Services : ~Accepting(v)')
  BY DEF AcceptInv, Early
<1>. QED
  BY <1>1, <1>2, <1>3 DEF AcceptInv, Early, Accepting

(* An accept that has ended goes on in its handler, or goes no further.      *)
LEMMA AcceptTaken ==
    ASSUME TypeOK, AcceptInv, NEW h \in pending, Accepts(h), pending' = pending \ {h},
           NEW v \in Services, \A u \in Services : u # v => running'[u] = running[u],
           UNCHANGED main
    PROVE  AcceptInv'
<1>1. \A g \in pending' : ~Accepts(g)
  BY DEF AcceptInv
<1>2. ~Early /\ \A u \in Services : ~Accepting(u)
  BY DEF AcceptInv, Early
<1>3. \A u \in Services : Accepting(u)' => u = v
  BY <1>2 DEF Accepting
<1>. QED
  BY <1>1, <1>2, <1>3 DEF AcceptInv, Early, Accepting

(* An accept begins when none is under way.                                  *)
LEMMA AcceptBegins ==
    ASSUME TypeOK, OwnerInv, Accept, \A h \in pending : ~Accepts(h),
           \A v \in Services : ~Accepting(v)', ~Early'
    PROVE  AcceptInv'
<1>1. PICK s \in Sockets :
        /\ s # None /\ acceptSocket' = s
        /\ pending' = pending \cup {Handler("Accepted", acceptor, None)}
  BY AcceptEffect
<1>2. \A h \in pending' : Accepts(h) => h = Handler("Accepted", acceptor, None)
  BY <1>1
<1>. QED
  BY <1>1, <1>2 DEF AcceptInv, Early, Accepting

LEMMA AcceptStep ==
    ASSUME TypeOK, ServiceInv, OwnerInv, CloseInv, AcceptInv, KeyFindsItsObject, [Next]_vars
    PROVE  AcceptInv'
<1>1. CASE \/ LoadConfigFile \/ Main \/ CreatePool \/ CreateSSL \/ CreateTimers \/ Destroy \/ Stop
           \/ UNCHANGED vars
  <2>1. UNCHANGED <<pending, running, acceptSocket>>
    BY <1>1 DEF LoadConfigFile, Main, CreatePool, CreateSSL, CreateTimers, Destroy, Stop, vars
  <2>2. (Early' => Early) /\ (Up' => Up \/ Early)
    BY <1>1 DEF LoadConfigFile, Main, CreatePool, CreateSSL, CreateTimers, Destroy, MainReturns,
       Stop, vars, Early, Up
  <2>. QED
    BY <2>1, <2>2, AcceptKept DEF Accepting
<1>2. ~Accepts(Handler("Release", acceptor, None))
      /\ (\A w, s : ~Accepts(Handler("Close", w, s)))
      /\ (\A w, s : ~Accepts(Handler("Connected", w, s)))
      /\ \A w, s : ~Accepts(Handler("Handshake", w, s))
  BY DEF Handler, Accepts
<1>3. CASE Create
  <2>1. UNCHANGED running /\ main = "networks"
    BY <1>3 DEF Create
  <2>2. (\A h \in pending : ~Accepts(h)) /\ (\A v \in Services : ~Accepting(v))
    BY <2>1 DEF AcceptInv
  <2>3. CASE main' = "timers" /\ UNCHANGED <<poolVars, acceptor, acceptSocket, socketVars, pending>>
    BY <2>1, <2>2, <2>3 DEF AcceptInv, Accepting
  <2>4. CASE Listen /\ main' \in {main, "release"}
    BY <2>1, <2>2, <2>4 DEF Listen, AcceptInv, Accepting
  <2>5. CASE Accept /\ main' = "timers"
    BY <2>1, <2>2, <2>5, AcceptBegins DEF Early, Accepting
  <2>. QED
    BY <1>3, <2>3, <2>4, <2>5 DEF Create
<1>4. CASE PostRelease
  <2>1. UNCHANGED <<running, acceptSocket>> /\ main = "release" /\ main' = "stop"
    BY <1>4 DEF PostRelease
  <2>2. \A h \in pending' : Accepts(h) => h \in pending
    <3>1. CASE acceptor # None
      BY <1>2, <1>4, <3>1 DEF PostRelease
    <3>2. CASE acceptor = None
      BY <1>2, <1>4, <3>2, ReleaseEffect DEF PostRelease, PostClose
    <3>. QED
      BY <3>1, <3>2
  <2>. QED
    BY <2>1, <2>2, AcceptKept DEF Early, Up, Accepting
<1>5. ASSUME NEW v \in Services, ReleaseTimer(v)
      PROVE  AcceptInv'
  <2>1. UNCHANGED <<running, acceptSocket, main>>
    BY <1>5 DEF ReleaseTimer
  <2>2. \A h \in pending' : Accepts(h) => h \in pending
    BY <1>2, <1>5, ReleaseEffect DEF ReleaseTimer, PostClose
  <2>. QED
    BY <2>1, <2>2, AcceptKept DEF Early, Up, Accepting
<1>6. CASE Destruct
  BY <1>6, AcceptKept DEF Destruct, Early, Up, Accepting
<1>7. CASE PostConnect \/ PostConnectSSL
  <2>1. Connect
    BY <1>7 DEF PostConnect, PostConnectSSL
  <2>2. UNCHANGED <<main, acceptSocket, running>>
    BY <2>1, ConnectEffect
  <2>3. \A h \in pending' : Accepts(h) => h \in pending
    BY <1>2, <2>1, ConnectEffect
  <2>. QED
    BY <2>2, <2>3, AcceptKept DEF Early, Up, Accepting
<1>8. ASSUME NEW v \in Services, OnConnected(v) \/ OnHandshakeSSL(v)
      PROVE  AcceptInv'
  <2>1. UNCHANGED <<main, acceptSocket>> /\ pending' \subseteq pending
    BY <1>8, ConnectedEffect
  <2>2. \A u \in Services : Accepting(u)' => Accepting(u)
    BY <1>8, ConnectedEffect DEF Accepting, TypeOK
  <2>. QED
    BY <2>1, <2>2, AcceptKept DEF Early, Up
<1>9. CASE Crash
  BY <1>9 DEF Crash, AcceptInv, Accepting, Idle
<1>10. ASSUME NEW v \in Services, OnConnectedSSL(v), ~Crash
       PROVE  AcceptInv'
  <2>1. UNCHANGED <<main, acceptSocket, running>>
    BY <1>10, HandshakeEffect
  <2>2. \A h \in pending' : Accepts(h) => h \in pending
    BY <1>2, <1>10, HandshakeEffect
  <2>. QED
    BY <2>1, <2>2, AcceptKept DEF Early, Up, Accepting
<1>11. ASSUME NEW v \in Services, OnTcpNetworkConnected(v)
       PROVE  AcceptInv'
  <2>. DEFINE s == running[v].socket
  <2>1. UNCHANGED <<main, acceptSocket>> /\ running' = [running EXCEPT ![v] = Idle]
    BY <1>11 DEF OnTcpNetworkConnected
  <2>2. \A u \in Services : Accepting(u)' => Accepting(u)
    BY <2>1 DEF Accepting, TypeOK, Idle
  <2>3. \A h \in pending' : Accepts(h) => h \in pending
    <3>1. CASE CreateFails(s)
      BY <3>1 DEF CreateFails
    <3>2. CASE Insert(s)
      BY <1>2, <3>2, InsertEffect DEF Refused, Entered, NotStarted, PostClose
    <3>. QED
      BY <1>11, <3>1, <3>2 DEF OnTcpNetworkConnected, ConnectAdd
  <2>. QED
    BY <2>1, <2>2, <2>3, AcceptKept DEF Early, Up
<1>12. ASSUME NEW v \in Services,
              \/ running' = running
              \/ running' = [running EXCEPT ![v].op = "Accepted"]
              \/ running' = [running EXCEPT ![v].op = "PostAccept"]
       PROVE  \A u \in Services : u # v => running'[u] = running[u]
  BY <1>12 DEF TypeOK
<1>13. ASSUME NEW v \in Services, OnAccept(v) \/ OnAcceptHandshakeSSL(v)
       PROVE  AcceptInv'
  <2>1. PICK h \in pending : Accepts(h) /\ pending' = pending \ {h}
    BY <1>13, AcceptedEffect
  <2>2. UNCHANGED main
    BY <1>13, AcceptedEffect
  <2>3. \/ running' = running
        \/ running' = [running EXCEPT ![v].op = "Accepted"]
        \/ running' = [running EXCEPT ![v].op = "PostAccept"]
    BY <1>13 DEF OnAccept, OnAcceptHandshakeSSL
  <2>. QED
    BY <1>12, <2>1, <2>2, <2>3, AcceptTaken
<1>14. ASSUME NEW v \in Services, OnAcceptSSL(v)
       PROVE  AcceptInv'
  <2>1. UNCHANGED main
    BY <1>14, AcceptedSslEffect
  <2>2. running' = running \/ running' = [running EXCEPT ![v].op = "PostAccept"]
    BY <1>14 DEF OnAcceptSSL
  <2>3. PICK h \in pending :
          /\ Accepts(h)
          /\ \/ pending' = pending \ {h}
             \/ /\ pending' = (pending \ {h}) \cup
                      {Handler("AcceptHandshake", service[acceptSocket], None)}
                /\ UNCHANGED <<acceptSocket, running>>
    BY <1>14, AcceptedSslEffect
  <2>4. CASE pending' = pending \ {h}
    BY <1>12, <2>1, <2>2, <2>3, <2>4, AcceptTaken
  <2>5. CASE /\ pending' = (pending \ {h}) \cup
                  {Handler("AcceptHandshake", service[acceptSocket], None)}
             /\ UNCHANGED <<acceptSocket, running>>
    <3>1. /\ \A g \in pending : Accepts(g) => g = h
          /\ Up => acceptSocket # None
          /\ \A u \in Services : ~Accepting(u)
          /\ ~Early
      BY <2>3 DEF AcceptInv, Early
    <3>2. \A g \in pending' : Accepts(g) =>
            g = Handler("AcceptHandshake", service[acceptSocket], None)
      BY <2>5, <3>1
    <3>. QED
      BY <2>1, <2>5, <3>1, <3>2 DEF AcceptInv, Up, Early, Accepting
  <2>. QED
    BY <2>3, <2>4, <2>5
<1>15. ASSUME NEW v \in Services, OnTcpNetworkAccepted(v)
       PROVE  AcceptInv'
  <2>1. Accepting(v) /\ UNCHANGED <<main, pending>>
        /\ running' = [running EXCEPT ![v].op = "PostAccept"]
    BY <1>15 DEF OnTcpNetworkAccepted, Accepting
  <2>2. /\ ~Early /\ \A h \in pending : ~Accepts(h)
        /\ \A u \in Services : Accepting(u) => u = v
    BY <2>1 DEF AcceptInv, Early
  <2>3. \A u \in Services : Accepting(u)' => u = v
    BY <1>12, <2>1, <2>2 DEF Accepting
  <2>. QED
    BY <2>1, <2>2, <2>3 DEF AcceptInv, Early, Accepting
<1>16. ASSUME NEW v \in Services, PostAccept(v)
       PROVE  AcceptInv'
  <2>1. Accepting(v) /\ UNCHANGED main
    BY <1>16 DEF PostAccept, Accepting
  <2>2. /\ ~Early /\ \A h \in pending : ~Accepts(h)
        /\ \A u \in Services : Accepting(u) => u = v
    BY <2>1 DEF AcceptInv, Early
  <2>3. CASE Listen /\ UNCHANGED running
    BY <2>1, <2>2, <2>3 DEF Listen, AcceptInv, Early, Accepting
  <2>4. CASE Accept /\ running' = [running EXCEPT ![v] = Idle]
    <3>1. \A u \in Services : ~Accepting(u)'
      BY <2>2, <2>4 DEF Accepting, Idle, TypeOK
    <3>. QED
      BY <2>1, <2>2, <2>4, <3>1, AcceptBegins DEF Early
  <2>. QED
    BY <1>16, <2>3, <2>4 DEF PostAccept
<1>17. ASSUME NEW v \in Services, CloseTimer(v)
       PROVE  AcceptInv'
  BY <1>17, CloseEffect, AcceptKept DEF Early, Up, Accepting
<1>18. ASSUME NEW v \in Services, OnNetworkClose(v)
       PROVE  AcceptInv'
  <2>1. UNCHANGED <<main, acceptSocket, running>>
    BY <1>18 DEF OnNetworkClose
  <2>2. \A h \in pending' : Accepts(h) => h \in pending
    BY <1>2, <1>18, NetworkCloseEffect DEF PostClose
  <2>. QED
    BY <2>1, <2>2, AcceptKept DEF Early, Up, Accepting
<1>. QED
  BY <1>1, <1>3, <1>4, <1>5, <1>6, <1>7, <1>8, <1>9, <1>10, <1>11, <1>13, <1>14, <1>15, <1>16,
     <1>17, <1>18 DEF Next

----------------------------------------------------------------------------
(* Release is the last of accepting.                                         *)

Late == main \in {"stop", "destruct", "end"}

(* Neither Release nor what it waits for comes or goes.                      *)
LEMMA ReleaseKept ==
    ASSUME ReleaseInv, ReleasedStaysReleased,
           UNCHANGED <<acceptor, releaseTimer, tls, isCloseing>>, Late => Late',
           \A h \in pending' :
                \/ h \in pending \/ h.op \in {"Connected", "Close"}
                \/ h.op = "Accepted" /\ h.service = acceptor
                \/ tls /\ h.op \in {"Handshake", "AcceptHandshake"},
           \A v \in Services : Accepting(v)' => Accepting(v)
    PROVE  ReleaseInv' /\ ReleasedStaysReleased'
<1>1. (releaseTimer # "none" => isCloseing /\ Late)'
  BY DEF ReleaseInv, Late
<1>2. \A h \in pending' : h.op = "Release" =>
        releaseTimer = "set" /\ h = Handler("Release", acceptor, None)
  BY DEF ReleaseInv
<1>3. ~tls => \A h \in pending' : h.op \notin {"Handshake", "AcceptHandshake"}
  BY DEF ReleaseInv
<1>4. ~tls /\ releaseTimer # "fired" =>
        /\ \A h \in pending' : h.op = "Accepted" => h.service = acceptor
        /\ \A v \in Services : Accepting(v)' => acceptor = v
  BY DEF ReleaseInv
<1>5. ~tls /\ releaseTimer = "fired" => \A v \in Services : ~Accepting(v)'
  BY DEF ReleaseInv
<1>. QED
  BY <1>1, <1>2, <1>3, <1>4, <1>5 DEF ReleaseInv, ReleasedStaysReleased, Late, Accepting

(* An acceptor is made on the thread that accepts, or before any does.       *)
LEMMA ReleaseListen ==
    ASSUME TypeOK, ServiceInv, AcceptInv, ReleaseInv, Listen, Late' = Late,
           UNCHANGED <<running, releaseTimer, tls, isCloseing>>,
           main = "networks" \/ \E v \in Services : Accepting(v)
    PROVE  ReleaseInv' /\ ReleasedStaysReleased'
<1>1. acceptor = None /\ UNCHANGED pending
  BY DEF Listen
<1>2. \A h \in pending : h.op # "Release"
  <2>1. \A h \in pending : h.op = "Release" => h.service = acceptor
    BY HandlerFields DEF ReleaseInv, Handler
  <2>2. \A h \in pending : h.service \in Services \cup {Null}
    BY HandlerFields DEF TypeOK
  <2>. QED
    BY <1>1, <2>1, <2>2, NullIsNoService
<1>3. tls \/ (main = "networks" /\ releaseTimer = "none")
  <2>1. ASSUME ~tls, NEW v \in Services, Accepting(v)
        PROVE  FALSE
    BY <1>1, <2>1, NullIsNoService DEF ReleaseInv
  <2>2. main = "networks" => releaseTimer = "none"
    BY DEF ReleaseInv
  <2>. QED
    BY <2>1, <2>2
<1>4. ~tls => /\ \A h \in pending : h.op # "Accepted"
              /\ \A v \in Services : ~Accepting(v)
  BY <1>3 DEF AcceptInv, Accepts
<1>. QED
  BY <1>1, <1>2, <1>3, <1>4 DEF ReleaseInv, ReleasedStaysReleased, Late, Accepting

LEMMA ReleaseStep ==
    ASSUME TypeOK, ServiceInv, OwnerInv, CloseInv, AcceptInv, ReleaseInv, KeyFindsItsObject,
           ReleasedStaysReleased, [Next]_vars
    PROVE  ReleaseInv' /\ ReleasedStaysReleased'
<1>1. CASE LoadConfigFile \/ Main \/ CreatePool \/ CreateTimers \/ Destroy \/ Stop
           \/ UNCHANGED vars
  <2>1. UNCHANGED <<pending, running, acceptor, releaseTimer, tls, isCloseing>>
    BY <1>1 DEF LoadConfigFile, Main, CreatePool, CreateTimers, Destroy, Stop, vars
  <2>2. Late => Late'
    BY <1>1 DEF LoadConfigFile, Main, CreatePool, CreateTimers, Destroy, MainReturns, Stop, vars,
       Late
  <2>. QED
    BY <2>1, <2>2, ReleaseKept DEF Accepting
<1>2. CASE CreateSSL
  BY <1>2 DEF CreateSSL, ReleaseInv, ReleasedStaysReleased, Accepting
<1>3. /\ \A w, s : Handler("Accepted", w, s).op = "Accepted"
      /\ \A w, s : Handler("Accepted", w, s).service = w
      /\ \A w, s : Handler("AcceptHandshake", w, s).op = "AcceptHandshake"
      /\ \A w, s : Handler("Connected", w, s).op = "Connected"
      /\ \A w, s : Handler("Handshake", w, s).op = "Handshake"
      /\ \A w, s : Handler("Release", w, s).op = "Release"
      /\ \A w, s : Handler("Close", w, s).op = "Close"
  BY DEF Handler
<1>4. ASSUME Accept, UNCHANGED <<releaseTimer, tls, isCloseing>>, Late => Late',
             \A v \in Services : Accepting(v)' => Accepting(v)
      PROVE  ReleaseInv' /\ ReleasedStaysReleased'
  BY <1>3, <1>4, AcceptEffect, ReleaseKept
<1>5. CASE Create
  <2>1. main = "networks" /\ UNCHANGED <<running, releaseTimer, tls, isCloseing>>
    BY <1>5 DEF Create
  <2>2. CASE main' = "timers" /\ UNCHANGED <<poolVars, acceptor, acceptSocket, socketVars, pending>>
    BY <2>1, <2>2, ReleaseKept DEF Late, Accepting
  <2>3. CASE Listen /\ main' \in {main, "release"}
    BY <2>1, <2>3, ReleaseListen DEF Late
  <2>4. CASE Accept /\ main' = "timers"
    BY <1>4, <2>1, <2>4 DEF Late, Accepting
  <2>. QED
    BY <1>5, <2>2, <2>3, <2>4 DEF Create
<1>6. CASE PostRelease
  <2>1. UNCHANGED <<running, tls>> /\ isCloseing' = TRUE /\ main' = "stop" /\ main = "release"
    BY <1>6 DEF PostRelease
  <2>2. releaseTimer = "none" /\ \A h \in pending : h.op # "Release"
    BY <2>1 DEF ReleaseInv, TypeOK
  <2>3. CASE acceptor # None
    <3>1. /\ releaseTimer' = "set" /\ UNCHANGED acceptor
          /\ pending' = pending \cup {Handler("Release", acceptor, None)}
      BY <1>6, <2>3 DEF PostRelease
    <3>. QED
      BY <1>3, <2>1, <2>2, <3>1 DEF ReleaseInv, ReleasedStaysReleased, Accepting
  <2>4. CASE acceptor = None
    <3>1. /\ releaseTimer' = releaseTimer /\ UNCHANGED acceptor
          /\ \A h \in pending' : h \in pending \/ h.op = "Close"
      BY <1>3, <1>6, <2>4, ReleaseEffect DEF PostRelease, PostClose
    <3>. QED
      BY <2>1, <2>2, <3>1 DEF ReleaseInv, ReleasedStaysReleased, Accepting
  <2>. QED
    BY <2>3, <2>4
<1>7. ASSUME NEW v \in Services, ReleaseTimer(v)
      PROVE  ReleaseInv' /\ ReleasedStaysReleased'
  <2>. DEFINE r == Handler("Release", v, None)
  <2>1. /\ r \in pending /\ running[v] = Idle /\ releaseTimer' = "fired"
        /\ Release(pending \ {r}) /\ UNCHANGED <<main, isCloseing, tls, running>>
    BY <1>7 DEF ReleaseTimer, Idles
  <2>2. releaseTimer = "set" /\ r = Handler("Release", acceptor, None)
    BY <1>3, <2>1 DEF ReleaseInv
  <2>3. acceptor = v
    BY <2>2 DEF Handler
  <2>4. \A h \in pending \ {r} : h.op # "Release"
    BY <2>2 DEF ReleaseInv
  <2>5. acceptor' = None /\ \A h \in pending' : h \in pending \ {r} \/ h.op = "Close"
    BY <1>3, <2>1, ReleaseEffect DEF PostClose
  <2>6. ~tls => \A u \in Services : ~Accepting(u)
    BY <2>1, <2>2, <2>3 DEF ReleaseInv, Accepting, Idle
  <2>. QED
    BY <2>1, <2>2, <2>4, <2>5, <2>6 DEF ReleaseInv, ReleasedStaysReleased, Accepting
<1>8. CASE Destruct
  BY <1>8, ReleaseKept DEF Destruct, Late, Accepting
<1>9. CASE PostConnect \/ PostConnectSSL
  <2>1. Connect
    BY <1>9 DEF PostConnect, PostConnectSSL
  <2>2. UNCHANGED <<main, running, acceptor, releaseTimer, tls, isCloseing>>
    BY <2>1, ConnectEffect
  <2>3. \A h \in pending' : h \in pending \/ h.op = "Connected"
    BY <1>3, <2>1, ConnectEffect
  <2>. QED
    BY <2>2, <2>3, ReleaseKept DEF Late, Accepting
<1>10. ASSUME NEW v \in Services, OnConnected(v) \/ OnHandshakeSSL(v)
       PROVE  ReleaseInv' /\ ReleasedStaysReleased'
  <2>1. UNCHANGED <<main, acceptor, releaseTimer, tls, isCloseing>> /\ pending' \subseteq pending
    BY <1>10, ConnectedEffect
  <2>2. \A u \in Services : Accepting(u)' => Accepting(u)
    BY <1>10, ConnectedEffect DEF Accepting, TypeOK
  <2>. QED
    BY <2>1, <2>2, ReleaseKept DEF Late
<1>11. CASE Crash
  BY <1>11 DEF Crash, ReleaseInv, ReleasedStaysReleased, Accepting, Idle
<1>12. ASSUME NEW v \in Services, OnConnectedSSL(v), ~Crash
       PROVE  ReleaseInv' /\ ReleasedStaysReleased'
  <2>1. tls /\ UNCHANGED <<main, running, acceptor, releaseTimer, tls, isCloseing>>
    BY <1>12, HandshakeEffect
  <2>2. \A h \in pending' : h \in pending \/ h.op = "Handshake"
    BY <1>3, <1>12, HandshakeEffect
  <2>. QED
    BY <2>1, <2>2, ReleaseKept DEF Late, Accepting
<1>13. ASSUME NEW v \in Services, OnTcpNetworkConnected(v)
       PROVE  ReleaseInv' /\ ReleasedStaysReleased'
  <2>. DEFINE s == running[v].socket
  <2>1. UNCHANGED <<main, acceptor, releaseTimer, tls, isCloseing>>
        /\ running' = [running EXCEPT ![v] = Idle]
    BY <1>13 DEF OnTcpNetworkConnected
  <2>2. \A u \in Services : Accepting(u)' => Accepting(u)
    BY <2>1 DEF Accepting, TypeOK, Idle
  <2>3. \A h \in pending' : h \in pending \/ h.op = "Close"
    <3>1. CASE CreateFails(s)
      BY <3>1 DEF CreateFails
    <3>2. CASE Insert(s)
      BY <1>3, <3>2, InsertEffect DEF Refused, Entered, NotStarted, PostClose
    <3>. QED
      BY <1>13, <3>1, <3>2 DEF OnTcpNetworkConnected, ConnectAdd
  <2>. QED
    BY <2>1, <2>2, <2>3, ReleaseKept DEF Late
<1>14. ASSUME NEW v \in Services,
              \/ running' = running
              \/ running' = [running EXCEPT ![v].op = "Accepted"]
              \/ running' = [running EXCEPT ![v].op = "PostAccept"]
       PROVE  \A u \in Services : u # v => running'[u] = running[u]
  BY <1>14 DEF TypeOK
<1>15. ASSUME NEW v \in Services, OnAccept(v) \/ OnAcceptHandshakeSSL(v)
       PROVE  ReleaseInv' /\ ReleasedStaysReleased'
  <2>1. PICK h \in pending : Accepts(h) /\ h.service = v /\ pending' = pending \ {h}
    BY <1>15, AcceptedEffect
  <2>2. UNCHANGED <<main, acceptor, releaseTimer, tls, isCloseing>>
    BY <1>15, AcceptedEffect
  <2>3. /\ \A u \in Services : u # v => running'[u] = running[u]
        /\ isCloseing => running' = running
    <3>1. \/ running' = running
          \/ running' = [running EXCEPT ![v].op = "Accepted"]
          \/ running' = [running EXCEPT ![v].op = "PostAccept"]
      BY <1>15 DEF OnAccept, OnAcceptHandshakeSSL
    <3>2. isCloseing => running' = running
      BY <1>15, AcceptedEffect
    <3>. QED
      BY <1>14, <3>1, <3>2
  <2>4. ~tls /\ releaseTimer # "fired" => acceptor = v
    BY <2>1 DEF ReleaseInv, Accepts
  <2>5. releaseTimer = "fired" => isCloseing
    BY DEF ReleaseInv
  <2>6. ~tls /\ releaseTimer # "fired" => \A u \in Services : Accepting(u)' => acceptor = u
    BY <2>3, <2>4 DEF ReleaseInv, Accepting
  <2>7. ~tls /\ releaseTimer = "fired" => \A u \in Services : ~Accepting(u)'
    BY <2>3, <2>5 DEF ReleaseInv, Accepting
  <2>. QED
    BY <2>1, <2>2, <2>6, <2>7 DEF ReleaseInv, ReleasedStaysReleased, Accepting
<1>16. ASSUME NEW v \in Services, OnAcceptSSL(v)
       PROVE  ReleaseInv' /\ ReleasedStaysReleased'
  <2>1. tls /\ UNCHANGED <<main, acceptor, releaseTimer, tls, isCloseing>>
    BY <1>16, AcceptedSslEffect
  <2>2. \A h \in pending' : h \in pending \/ h.op = "AcceptHandshake"
    BY <1>3, <1>16, AcceptedSslEffect
  <2>. QED
    BY <2>1, <2>2 DEF ReleaseInv, ReleasedStaysReleased, Accepting
<1>17. ASSUME NEW v \in Services, OnTcpNetworkAccepted(v)
       PROVE  ReleaseInv' /\ ReleasedStaysReleased'
  <2>1. Accepting(v) /\ UNCHANGED <<main, pending, acceptor, releaseTimer, tls, isCloseing>>
        /\ running' = [running EXCEPT ![v].op = "PostAccept"]
    BY <1>17 DEF OnTcpNetworkAccepted, Accepting
  <2>2. \A u \in Services : Accepting(u)' => Accepting(u)
    BY <1>14, <2>1 DEF Accepting
  <2>. QED
    BY <2>1, <2>2, ReleaseKept DEF Late
<1>18. ASSUME NEW v \in Services, PostAccept(v)
       PROVE  ReleaseInv' /\ ReleasedStaysReleased'
  <2>1. Accepting(v) /\ UNCHANGED <<main, releaseTimer, tls, isCloseing>>
    BY <1>18 DEF PostAccept, Accepting
  <2>2. CASE Listen /\ UNCHANGED running
    BY <2>1, <2>2, ReleaseListen DEF Late
  <2>3. CASE Accept /\ running' = [running EXCEPT ![v] = Idle]
    <3>1. \A u \in Services : Accepting(u)' => Accepting(u)
      BY <2>3 DEF Accepting, Idle, TypeOK
    <3>. QED
      BY <1>4, <2>1, <2>3, <3>1 DEF Late
  <2>. QED
    BY <1>18, <2>2, <2>3 DEF PostAccept
<1>19. ASSUME NEW v \in Services, CloseTimer(v)
       PROVE  ReleaseInv' /\ ReleasedStaysReleased'
  BY <1>19, CloseEffect, ReleaseKept DEF Late, Accepting
<1>20. ASSUME NEW v \in Services, OnNetworkClose(v)
       PROVE  ReleaseInv' /\ ReleasedStaysReleased'
  <2>1. UNCHANGED <<main, running, acceptor, releaseTimer, tls, isCloseing>>
    BY <1>20 DEF OnNetworkClose
  <2>2. \A h \in pending' : h \in pending \/ h.op = "Close"
    BY <1>3, <1>20, NetworkCloseEffect DEF PostClose
  <2>. QED
    BY <2>1, <2>2, ReleaseKept DEF Late, Accepting
<1>. QED
  BY <1>1, <1>2, <1>5, <1>6, <1>7, <1>8, <1>9, <1>10, <1>11, <1>12, <1>13, <1>15, <1>16, <1>17,
     <1>18, <1>19, <1>20 DEF Next

----------------------------------------------------------------------------
(* The invariant, and what follows from it.                                  *)

LEMMA InitIInv == Init => IInv
<1>. SUFFICES ASSUME Init PROVE IInv
  OBVIOUS
<1>1. PoolTypeOK
  <2>1. 0 \in Services /\ 0 \in 0..(PoolCount \div 3)
    BY DEF Services
  <2>. QED
    BY <2>1 DEF Init, PoolInit, PoolTypeOK
<1>2. running \in [Services -> Tasks]
  BY DEF Init, Idle, Tasks
<1>3. TypeOK
  <2>1. {listens, private, tls, isCloseing} \subseteq BOOLEAN
    BY DEF Init
  <2>2. infoMap \in [Keys -> Sockets \cup {None}] /\ objectKey \in [Sockets -> Keys \cup {None}]
    BY DEF Init
  <2>. QED
    BY <1>1, <1>2, <2>1, <2>2 DEF Init, TypeOK
<1>4. ServiceInv /\ OwnerInv
  BY NullIsNoService DEF Init, PoolInit, ServiceInv, OwnerInv, Up, Live, Idle
<1>5. CloseInv /\ AcceptInv /\ ReleaseInv
  BY DEF Init, CloseInv, AcceptInv, ReleaseInv, Accepting, Idle
<1>6. KeyFindsItsObject /\ ReleasedStaysReleased
  BY DEF Init, KeyFindsItsObject, ReleasedStaysReleased
<1>. QED
  BY <1>3, <1>4, <1>5, <1>6 DEF IInv

LEMMA StepIInv == IInv /\ [Next]_vars => IInv'
  BY TypeStep, ServiceStep, OwnerStep, ClosingStep, AcceptStep, ReleaseStep, KeyStep DEF IInv

(* The owners of a socket, counted.                                          *)
LEMMA OwnersCounted ==
    ASSUME TypeOK, OwnerInv, NEW s \in Sockets
    PROVE  Owners(s) = IF Live(s) THEN 1 ELSE 0
<1>. DEFINE H == {h \in pending : h.op \in {"Connected", "Handshake"} /\ h.socket = s}
            R == {v \in Services : running[v] = [op |-> "Connected", socket |-> s]}
            A == {s} \cap {acceptSocket}
            O == {s} \cap objects
<1>1. Owners(s) = Cardinality(H) + Cardinality(R) + Cardinality(A) + Cardinality(O)
  BY DEF Owners
<1>2. Cardinality({}) = 0 /\ \A e : Cardinality({e}) = 1
  BY FS_EmptySet, FS_Singleton
<1>3. \A h \in H : /\ Live(s) /\ s \notin objects /\ s # acceptSocket /\ R = {}
                   /\ H = {h}
  BY DEF OwnerInv, Waits
<1>4. \A v \in R : /\ Live(s) /\ s \notin objects /\ s # acceptSocket /\ H = {}
                   /\ R = {v}
  BY DEF OwnerInv, Waits
<1>5. s = acceptSocket => Live(s) /\ s \notin objects
  BY NullIsNoService DEF OwnerInv
<1>6. s \in objects => Live(s)
  BY DEF OwnerInv
<1>7. Live(s) => H # {} \/ R # {} \/ s = acceptSocket \/ s \in objects
  BY DEF OwnerInv, Waits
<1>8. A = (IF s = acceptSocket THEN {s} ELSE {}) /\ O = (IF s \in objects THEN {s} ELSE {})
  OBVIOUS
<1>9. CASE H # {}
  <2>1. PICK h \in H : H = {h}
    BY <1>3, <1>9
  <2>2. R = {} /\ A = {} /\ O = {} /\ Live(s)
    BY <1>3, <1>8, <1>9
  <2>. HIDE DEF H, R, A, O
  <2>3. Cardinality(H) = 1 /\ Cardinality(R) = 0 /\ Cardinality(A) = 0 /\ Cardinality(O) = 0
    BY <1>2, <2>1, <2>2
  <2>. QED
    BY <1>1, <2>2, <2>3
<1>10. CASE R # {}
  <2>1. PICK v \in R : R = {v}
    BY <1>4, <1>10
  <2>2. H = {} /\ A = {} /\ O = {} /\ Live(s)
    BY <1>4, <1>8, <1>10
  <2>. HIDE DEF H, R, A, O
  <2>3. Cardinality(H) = 0 /\ Cardinality(R) = 1 /\ Cardinality(A) = 0 /\ Cardinality(O) = 0
    BY <1>2, <2>1, <2>2
  <2>. QED
    BY <1>1, <2>2, <2>3
<1>11. CASE H = {} /\ R = {}
  <2>1. \/ A = {s} /\ O = {} /\ Live(s)
        \/ A = {} /\ O = {s} /\ Live(s)
        \/ A = {} /\ O = {} /\ ~Live(s)
    BY <1>5, <1>6, <1>7, <1>8, <1>11
  <2>. HIDE DEF H, R, A, O
  <2>2. Cardinality(H) = 0 /\ Cardinality(R) = 0
    BY <1>2, <1>11
  <2>3. \/ Cardinality(A) = 1 /\ Cardinality(O) = 0 /\ Live(s)
        \/ Cardinality(A) = 0 /\ Cardinality(O) = 1 /\ Live(s)
        \/ Cardinality(A) = 0 /\ Cardinality(O) = 0 /\ ~Live(s)
    BY <1>2, <2>1
  <2>. QED
    BY <1>1, <2>2, <2>3
<1>. QED
  BY <1>9, <1>10, <1>11

(* In every state the program can be in, on any number of services, sockets  *)
(* and keys, each conjunct of the inductive invariant holds.                 *)
THEOREM Invariance == Spec => []IInv
  BY InitIInv, StepIInv, PTL DEF Spec

(* A socket made with new has one owner until it is deleted and none after,  *)
(* on whichever threads PostConnect, OnConnected, ConnectAdd, PostAccept,    *)
(* OnAccept, Release and the close timers hand the pointer on.               *)
THEOREM OwnedOnce == Spec => []SocketsOwnedOnce
<1>1. IInv => SocketsOwnedOnce
  BY OwnersCounted DEF IInv, SocketsOwnedOnce, Live
<1>. QED
  BY <1>1, Invariance, PTL

(* An object that is not closing is found by its key and the map holds no    *)
(* other, whenever keys start again and RemoveAll runs.                      *)
THEOREM KeyFinds == Spec => []KeyFindsItsObject
<1>1. IInv => KeyFindsItsObject
  BY DEF IInv
<1>. QED
  BY <1>1, Invariance, PTL

(* Nothing is made on the empty pointer GetService returns when the pool     *)
(* does not run: the last thread that could ask has ended by then.           *)
THEOREM ServiceThere == Spec => []ServiceAlwaysThere
<1>1. IInv => ServiceAlwaysThere
  BY DEF IInv, ServiceInv, ServiceAlwaysThere
<1>. QED
  BY <1>1, Invariance, PTL

(* Without TLS nothing listens again once Release has run, though OnAccept   *)
(* goes on to PostAccept without a second look at _is_closeing.              *)
THEOREM ReleasedForGood == Spec => []ReleasedStaysReleased
<1>1. IInv => ReleasedStaysReleased
  BY DEF IInv
<1>. QED
  BY <1>1, Invariance, PTL
=============================================================================
