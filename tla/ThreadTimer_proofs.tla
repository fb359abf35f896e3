-------------------------- MODULE ThreadTimer_proofs --------------------------
(***************************************************************************)
(* Proofs that, for any timers, intervals and width of the tick count, the *)
(* start timer is called once, and that no timer is called early and a     *)
(* scan leaves none due but for a wrap of the tick count in between.       *)
(***************************************************************************)
EXTENDS ThreadTimer, TLAPS

LEMMA Remainder ==
  ASSUME NEW a \in Nat, NEW m \in Nat \ {0}
  PROVE  a % m = a - (a \div m) * m
  OBVIOUS

USE ThreadTimerAssumption DEF tableVars, scanVars

LEMMA TickCountFact ==
  ASSUME now \in Nat
  PROVE  GetTickCount \in Nat
  BY DEF GetTickCount

(* A time is its era and its tick count.                                    *)
LEMMA EraFact ==
  ASSUME NEW a \in Nat
  PROVE  /\ Era(a) \in Nat /\ (a % TickModulus) \in Nat
         /\ Era(a) * TickModulus \in Nat
         /\ a = Era(a) * TickModulus + (a % TickModulus)
<1>1. Era(a) \in Nat /\ (a % TickModulus) \in Nat
  BY DEF Era
<1>2. (a % TickModulus) = a - Era(a) * TickModulus
  BY Remainder DEF Era
<1>3. Era(a) * TickModulus \in Nat
  BY <1>1
<1>4. PICK x \in Nat, y \in Nat : x = Era(a) * TickModulus /\ y = (a % TickModulus)
  BY <1>1, <1>3
<1>5. a = x + y
  BY <1>2, <1>4
<1>6. QED
  BY <1>1, <1>3, <1>4, <1>5, Zenon

(* Of two times the one in the later era, or in the same, is later by the    *)
(* difference of the tick counts at least.                                  *)
LEMMA EraOrder ==
  ASSUME NEW a \in Nat, NEW b \in Nat, Era(b) <= Era(a)
  PROVE  a - b >= (a % TickModulus) - (b % TickModulus)
<1>1. PICK q \in Nat, r \in Nat : q = Era(a) /\ r = Era(b)
  BY EraFact
<1>2. PICK k \in Nat : q = r + k
  <2>1. q - r \in Nat /\ q = r + (q - r)
    BY <1>1
  <2>2. QED
    BY <2>1
<1>3. q * TickModulus = r * TickModulus + k * TickModulus
  BY <1>2
<1>4. k * TickModulus \in Nat
  OBVIOUS
<1>5. /\ a = q * TickModulus + (a % TickModulus) /\ q * TickModulus \in Nat
      /\ b = r * TickModulus + (b % TickModulus) /\ r * TickModulus \in Nat
      /\ (a % TickModulus) \in Nat /\ (b % TickModulus) \in Nat
  BY <1>1, EraFact
<1>6. PICK x \in Nat, y \in Nat, z \in Nat, s \in Nat, u \in Nat :
         /\ x = q * TickModulus /\ y = r * TickModulus /\ z = k * TickModulus
         /\ s = (a % TickModulus) /\ u = (b % TickModulus)
  BY <1>4, <1>5
<1>7. x = y + z /\ a = x + s /\ b = y + u
  BY <1>3, <1>5, <1>6, Zenon
<1>8. a - b >= s - u
  BY <1>7
<1>9. QED
  BY <1>6, <1>8, Zenon

(* SetTimer keeps the table's types and starts the timer now.               *)
LEMMA SetTimerFact ==
  ASSUME TypeOK, NEW t \in Timers, SetTimer(t)
  PROVE  /\ table' = table \cup {t}
         /\ bell' \in [Timers -> Nat] /\ since' \in [Timers -> Nat]
         /\ bell'[t] = GetTickCount /\ since'[t] = now
         /\ \A u \in Timers \ {t} : bell'[u] = bell[u] /\ since'[u] = since[u]
<1>1. GetTickCount \in Nat
  BY TickCountFact DEF TypeOK
<1>2. QED
  BY <1>1 DEF TypeOK, SetTimer

(* Dropping the head of a sequence without repetitions.                     *)
LEMMA DropDistinct ==
  ASSUME NEW s \in Seq(Timers), s # <<>>,
         \A i, j \in 1..Len(s) : s[i] = s[j] => i = j
  PROVE  /\ Head(s) \in Timers /\ Tail(s) \in Seq(Timers)
         /\ \A i, j \in 1..Len(Tail(s)) : Tail(s)[i] = Tail(s)[j] => i = j
         /\ \A i \in 1..Len(Tail(s)) :
               Tail(s)[i] # Head(s) /\ \E k \in 1..Len(s) : Tail(s)[i] = s[k]
<1>1. /\ Head(s) \in Timers /\ Tail(s) \in Seq(Timers)
      /\ Len(s) \in Nat /\ Len(s) > 0 /\ Len(Tail(s)) = Len(s) - 1
      /\ Head(s) = s[1]
      /\ \A i \in 1..Len(Tail(s)) : Tail(s)[i] = s[i + 1]
  OBVIOUS
<1>2. ASSUME NEW i \in 1..Len(Tail(s))
      PROVE  Tail(s)[i] # Head(s) /\ \E k \in 1..Len(s) : Tail(s)[i] = s[k]
  <2>1. i + 1 \in 1..Len(s) /\ 1 \in 1..Len(s) /\ i + 1 # 1
    BY <1>1
  <2>2. Tail(s)[i] = s[i + 1] /\ s[i + 1] # s[1]
    BY <1>1, <2>1
  <2>3. QED
    BY <1>1, <2>1, <2>2
<1>3. ASSUME NEW i \in 1..Len(Tail(s)), NEW j \in 1..Len(Tail(s)), Tail(s)[i] = Tail(s)[j]
      PROVE  i = j
  <2>1. i + 1 \in 1..Len(s) /\ j + 1 \in 1..Len(s)
    BY <1>1
  <2>2. i + 1 = j + 1
    BY <1>1, <1>3, <2>1
  <2>3. QED
    BY <2>2
<1>4. QED
  BY <1>1, <1>2, <1>3

----------------------------------------------------------------------------
(* Types, the scan and the start timer: one step per action, under it one    *)
(* per conjunct the action can disturb.                                     *)

OnceInv == TypeOK /\ ScanInv /\ StartInv

LEMMA OnceInit == Init => OnceInv
<1> SUFFICES ASSUME Init PROVE OnceInv
  OBVIOUS
<1>1. TypeOK
  BY DEF Init, TypeOK, Pcs
<1>2. ScanInv /\ StartInv
  BY DEF Init, ScanInv, MutexFree, StartInv, StartsOnce
<1>3. QED
  BY <1>1, <1>2 DEF OnceInv

(* MainSetTimer takes the next timer off a list without repetitions.        *)
LEMMA MainSetTimerOnce == OnceInv /\ MainSetTimer => OnceInv'
<1> SUFFICES ASSUME OnceInv, MainSetTimer PROVE OnceInv'
  OBVIOUS
<1>0. TypeOK /\ ScanInv /\ StartInv
  BY DEF OnceInv
<1> DEFINE t == Head(toSet)
<1>1. t \in Timers /\ SetTimer(t)
  BY <1>0, DropDistinct DEF MainSetTimer, TypeOK, StartInv
<1>2. table' = table \cup {t} /\ bell' \in [Timers -> Nat] /\ since' \in [Timers -> Nat]
  BY <1>0, <1>1, SetTimerFact
<1>3. toSet \in Seq(Timers) /\ toSet # <<>> /\ toSet' = Tail(toSet)
  BY <1>0 DEF MainSetTimer, TypeOK
<1>4. UNCHANGED <<now, pc, scanVars, calls>>
  BY DEF MainSetTimer
<1>5. \A i, j \in 1..Len(toSet) : toSet[i] = toSet[j] => i = j
  BY <1>0 DEF StartInv
<1>6. /\ toSet' \in Seq(Timers)
      /\ \A i, j \in 1..Len(toSet') : toSet'[i] = toSet'[j] => i = j
      /\ \A i \in 1..Len(toSet') :
            toSet'[i] # t /\ \E k \in 1..Len(toSet) : toSet'[i] = toSet[k]
  BY <1>3, <1>5, DropDistinct
<1>7. 1 \in 1..Len(toSet) /\ toSet[1] = t
  BY <1>3
<1> HIDE DEF t
<1>8. TypeOK' /\ ScanInv'
  BY <1>0, <1>1, <1>2, <1>4, <1>6 DEF TypeOK, ScanInv, MutexFree
<1>9. CASE t = StartTimer
  <2>1. \E i \in 1..Len(toSet) : toSet[i] = StartTimer
    BY <1>7, <1>9
  <2>2. calls[StartTimer] \in Nat /\ ~(calls[StartTimer] > 0)
    BY <1>0, <2>1 DEF StartInv, TypeOK
  <2>3. ~(calls'[StartTimer] > 0) /\ calls'[StartTimer] <= 1
    BY <2>2, <1>4
  <2>4. \A i \in 1..Len(toSet') : toSet'[i] # StartTimer
    BY <1>6, <1>9
  <2>5. StartInv'
    BY <1>0, <1>4, <1>6, <2>3, <2>4 DEF StartInv, StartsOnce
  <2>6. QED
    BY <1>8, <2>5 DEF OnceInv
<1>10. CASE t # StartTimer
  <2>1. StartTimer \in table' => StartTimer \in table
    BY <1>2, <1>10
  <2>2. StartTimer \in table' \/ calls'[StartTimer] > 0 =>
          \A i \in 1..Len(toSet') : toSet'[i] # StartTimer
    BY <1>0, <1>4, <1>6, <2>1 DEF StartInv
  <2>3. StartInv'
    BY <1>0, <1>4, <1>6, <2>1, <2>2 DEF StartInv, StartsOnce
  <2>4. QED
    BY <1>8, <2>3 DEF OnceInv
<1>11. QED
  BY <1>9, <1>10

LEMMA OnceStep == OnceInv /\ [Next]_vars => OnceInv'
<1> SUFFICES ASSUME OnceInv, [Next]_vars PROVE OnceInv'
  OBVIOUS
<1>0. TypeOK /\ ScanInv /\ StartInv
  BY DEF OnceInv
<1> USE <1>0
<1>1. CASE Tick
  BY <1>1 DEF Tick, OnceInv, TypeOK, ScanInv, StartInv, StartsOnce, MutexFree
<1>2. CASE MainSetTimer
  BY <1>2, MainSetTimerOnce
<1>3. CASE Scan
  <2>1. GetTickCount \in Nat
    BY TickCountFact DEF TypeOK
  <2>2. TypeOK' /\ ScanInv'
    BY <1>3, <2>1 DEF Scan, TypeOK, Pcs, ScanInv, MutexFree
  <2>3. StartInv'
    BY <1>3 DEF Scan, StartInv, StartsOnce, MutexFree
  <2>4. QED
    BY <2>2, <2>3 DEF OnceInv
<1>4. CASE Callback
  <2>1. CASE current = StartTimer
    <3>1. SetTimer(CreateTimer) /\ todo' \subseteq todo \cup {CreateTimer} /\ pc' = "return"
          /\ UNCHANGED <<now, toSet, curTime, scanTime, current, wakeAt, calls>>
      BY <1>4, <2>1 DEF Callback
    <3>2. /\ table' = table \cup {CreateTimer}
          /\ bell' \in [Timers -> Nat] /\ since' \in [Timers -> Nat]
      BY <3>1, SetTimerFact
    <3>3. TypeOK'
      BY <3>1, <3>2 DEF TypeOK, Pcs
    <3>4. ScanInv'
      BY <1>4, <2>1, <3>1, <3>2 DEF Callback, ScanInv, MutexFree
    <3>5. StartInv'
      BY <1>4, <2>1, <3>1, <3>2 DEF Callback, StartInv, StartsOnce
    <3>6. QED
      BY <3>3, <3>4, <3>5 DEF OnceInv
  <2>2. CASE current # StartTimer
    BY <1>4, <2>2 DEF Callback, OnceInv, TypeOK, Pcs, ScanInv, StartInv, StartsOnce, MutexFree
  <2>3. QED
    BY <2>1, <2>2
<1>5. CASE CallbackReturn
  <2>1. UNCHANGED <<bell, since, now, toSet, curTime, scanTime, todo, current, wakeAt, calls>>
        /\ pc' = "scan"
        /\ table' = (IF current = StartTimer THEN table \ {current} ELSE table)
    BY <1>5 DEF CallbackReturn, KillTimer
  <2>2. TypeOK' /\ ScanInv'
    BY <1>5, <2>1 DEF CallbackReturn, TypeOK, Pcs, ScanInv, MutexFree
  <2>3. StartInv'
    BY <1>5, <2>1 DEF CallbackReturn, StartInv, StartsOnce
  <2>4. QED
    BY <2>2, <2>3 DEF OnceInv
<1>6. CASE ScanDone
  BY <1>6 DEF ScanDone, OnceInv, TypeOK, Pcs, ScanInv, StartInv, StartsOnce, MutexFree
<1>7. ASSUME NEW t \in Timers, Skip(t) PROVE OnceInv'
  BY <1>7 DEF Skip, OnceInv, TypeOK, ScanInv, StartInv, StartsOnce, MutexFree
<1>8. ASSUME NEW t \in Timers, Call(t) PROVE OnceInv'
  <2>1. t \in todo /\ t \in table /\ pc = "scan"
    BY <1>8 DEF Call, ScanInv
  <2>2. TypeOK'
    <3>1. bell' \in [Timers -> Nat] /\ since' \in [Timers -> Nat]
      BY <1>8 DEF Call, TypeOK
    <3>2. calls' \in [Timers -> Nat]
      <4>1. calls[t] + 1 \in Nat
        BY DEF TypeOK
      <4>2. calls' = [calls EXCEPT ![t] = calls[t] + 1]
        BY <1>8 DEF Call
      <4>3. QED
        BY <4>1, <4>2 DEF TypeOK
    <3>3. /\ todo' \subseteq Timers /\ current' \in Timers /\ pc' \in Pcs
          /\ UNCHANGED <<now, table, toSet, curTime, scanTime, wakeAt>>
      BY <1>8 DEF Call, TypeOK, Pcs
    <3>4. QED
      BY <3>1, <3>2, <3>3 DEF TypeOK
  <2>3. ScanInv'
    BY <1>8, <2>1 DEF Call, ScanInv, MutexFree
  <2>4. StartInv'
    <3>1. CASE t = StartTimer
      <4>1. calls[StartTimer] = 0
        BY <2>1, <3>1 DEF StartInv, TypeOK
      <4>2. calls'[StartTimer] = 1
        BY <1>8, <3>1, <4>1 DEF Call, TypeOK
      <4>3. QED
        BY <1>8, <2>1, <3>1, <4>2 DEF Call, StartInv, StartsOnce
    <3>2. CASE t # StartTimer
      <4>1. calls'[StartTimer] = calls[StartTimer]
        BY <1>8, <3>2 DEF Call, TypeOK
      <4>2. QED
        BY <1>8, <2>1, <3>2, <4>1 DEF Call, StartInv, StartsOnce
    <3>3. QED
      BY <3>1, <3>2
  <2>5. QED
    BY <2>2, <2>3, <2>4 DEF OnceInv
<1>9. CASE UNCHANGED vars
  BY <1>9 DEF vars, OnceInv, TypeOK, ScanInv, StartInv, StartsOnce, MutexFree
<1>10. QED
  BY <1>1, <1>2, <1>3, <1>4, <1>5, <1>6, <1>7, <1>8, <1>9 DEF Next, TimerThread

----------------------------------------------------------------------------
(* The clock: the same for recent_bell, cur_time and what the scan leaves.   *)

LEMMA InitIInv == Init => IInv
<1> SUFFICES ASSUME Init PROVE IInv
  OBVIOUS
<1>1. 0 % TickModulus = 0
  OBVIOUS
<1>2. ClockInv
  BY <1>1 DEF Init, ClockInv
<1>3. ScanLeavesNoneDue
  BY DEF Init, ScanLeavesNoneDue
<1>4. QED
  BY <1>2, <1>3, OnceInit DEF IInv, OnceInv

(* A timer set after the scan read its time has its interval before it.     *)
LEMMA SetTimerClock ==
  ASSUME IInv, NEW t \in Timers, SetTimer(t),
         UNCHANGED <<now, curTime, scanTime>>, todo \ {t} \subseteq todo'
  PROVE  ClockInv' /\ ScanLeavesNoneDue'
<1>1. TypeOK /\ ClockInv /\ ScanLeavesNoneDue
  BY DEF IInv
<1>2. /\ table' = table \cup {t}
      /\ bell'[t] = now % TickModulus /\ since'[t] = now
      /\ \A u \in Timers \ {t} : bell'[u] = bell[u] /\ since'[u] = since[u]
  BY <1>1, SetTimerFact DEF GetTickCount
<1>3. now \in Nat /\ scanTime \in Nat /\ scanTime <= now /\ table \subseteq Timers
      /\ Elapse[t] \in Nat /\ Elapse[t] > 0
  BY <1>1 DEF TypeOK, ClockInv
<1>4. ASSUME NEW u \in table'
      PROVE  bell'[u] = since'[u] % TickModulus
  <2>1. CASE u = t
    BY <1>2, <2>1
  <2>2. CASE u # t
    BY <1>1, <1>2, <1>3, <2>2 DEF ClockInv
  <2>3. QED
    BY <2>1, <2>2
<1>5. ASSUME NEW u \in table' \ todo'
      PROVE  scanTime' < since'[u] + Elapse[u] \/ Era(since'[u]) < Era(scanTime')
  <2>1. CASE u = t
    <3>1. scanTime < now + Elapse[t]
      BY <1>3
    <3>2. QED
      BY <1>2, <2>1, <3>1
  <2>2. CASE u # t
    BY <1>1, <1>2, <1>3, <2>2 DEF ScanLeavesNoneDue
  <2>3. QED
    BY <2>1, <2>2
<1>6. QED
  BY <1>1, <1>4, <1>5 DEF ClockInv, ScanLeavesNoneDue

(* What is not due has time left, or rang before the last wrap.             *)
LEMMA NotDue ==
  ASSUME TypeOK, ClockInv, NEW t \in table, ~Due(t)
  PROVE  scanTime < since[t] + Elapse[t] \/ Era(since[t]) < Era(scanTime)
<1> SUFFICES ASSUME ~(Era(since[t]) < Era(scanTime))
             PROVE  scanTime < since[t] + Elapse[t]
  OBVIOUS
<1>1. /\ since[t] \in Nat /\ scanTime \in Nat /\ bell[t] \in Nat /\ curTime \in Nat
      /\ Elapse[t] \in Nat /\ Elapse[t] > 0
  BY DEF TypeOK
<1>2. Era(scanTime) <= Era(since[t])
  <2>1. Era(scanTime) \in Nat /\ Era(since[t]) \in Nat
    BY <1>1, EraFact
  <2>2. QED
    BY <2>1
<1>3. since[t] - scanTime >= (since[t] % TickModulus) - (scanTime % TickModulus)
  BY <1>1, <1>2, EraOrder
<1>4. curTime = scanTime % TickModulus /\ bell[t] = since[t] % TickModulus
  BY DEF ClockInv
<1>5. since[t] - scanTime >= bell[t] - curTime
  BY <1>3, <1>4, Zenon
<1>6. ~(curTime > bell[t]) \/ ~(curTime - bell[t] >= Elapse[t])
  BY DEF Due
<1>7. QED
  BY <1>1, <1>5, <1>6

LEMMA InvStep == IInv /\ [Next]_vars => IInv'
<1> SUFFICES ASSUME IInv, [Next]_vars PROVE IInv'
  OBVIOUS
<1>0. OnceInv /\ TypeOK /\ ScanInv /\ ClockInv /\ ScanLeavesNoneDue
  BY DEF IInv, OnceInv
<1> USE <1>0
<1> SUFFICES ClockInv' /\ ScanLeavesNoneDue'
  BY OnceStep DEF IInv, OnceInv
<1>1. CASE Tick
  <2>1. scanTime <= now'
    BY <1>1 DEF Tick, TypeOK, ClockInv
  <2>2. QED
    BY <1>1, <2>1 DEF Tick, ClockInv, ScanLeavesNoneDue
<1>2. CASE MainSetTimer
  <2>1. Head(toSet) \in Timers
    BY <1>2, DropDistinct DEF MainSetTimer, TypeOK, StartInv
  <2>2. SetTimer(Head(toSet)) /\ UNCHANGED <<now, curTime, scanTime, todo>>
    BY <1>2 DEF MainSetTimer
  <2>3. QED
    BY <2>1, <2>2, SetTimerClock
<1>3. CASE Scan
  <2>1. now' = now /\ scanTime' = now /\ curTime' = now % TickModulus /\ todo' = table
        /\ UNCHANGED <<table, bell, since>>
    BY <1>3 DEF Scan, GetTickCount
  <2>2. now <= now
    BY DEF TypeOK
  <2>3. QED
    BY <2>1, <2>2 DEF ClockInv, ScanLeavesNoneDue
<1>4. CASE Callback
  <2>1. CASE current = StartTimer
    BY <1>4, <2>1, SetTimerClock DEF Callback
  <2>2. CASE current # StartTimer
    BY <1>4, <2>2 DEF Callback, ClockInv, ScanLeavesNoneDue
  <2>3. QED
    BY <2>1, <2>2
<1>5. CASE CallbackReturn
  BY <1>5 DEF CallbackReturn, KillTimer, ClockInv, ScanLeavesNoneDue
<1>6. CASE ScanDone
  BY <1>6 DEF ScanDone, ClockInv, ScanLeavesNoneDue
<1>7. ASSUME NEW t \in Timers, Skip(t) PROVE ClockInv' /\ ScanLeavesNoneDue'
  <2>1. t \in table /\ ~Due(t)
    BY <1>7 DEF Skip, ScanInv
  <2>2. scanTime < since[t] + Elapse[t] \/ Era(since[t]) < Era(scanTime)
    BY <2>1, NotDue
  <2>3. QED
    BY <1>7, <2>2 DEF Skip, ClockInv, ScanLeavesNoneDue
<1>8. ASSUME NEW t \in Timers, Call(t) PROVE ClockInv' /\ ScanLeavesNoneDue'
  <2>1. t \in table /\ UNCHANGED <<now, table, curTime, scanTime>> /\ todo' = todo \ {t}
    BY <1>8 DEF Call, ScanInv
  <2>2. /\ bell'[t] = curTime /\ since'[t] = scanTime
        /\ \A u \in Timers \ {t} : bell'[u] = bell[u] /\ since'[u] = since[u]
    BY <1>8 DEF Call, TypeOK
  <2>3. scanTime \in Nat /\ Elapse[t] \in Nat /\ Elapse[t] > 0 /\ table \subseteq Timers
    BY DEF TypeOK
  <2>4. \A u \in table' : bell'[u] = since'[u] % TickModulus
    BY <2>1, <2>2, <2>3 DEF ClockInv
  <2>5. ClockInv'
    BY <2>1, <2>4 DEF ClockInv
  <2>6. ASSUME NEW u \in table' \ todo'
        PROVE  scanTime' < since'[u] + Elapse[u] \/ Era(since'[u]) < Era(scanTime')
    <3>1. CASE u = t
      BY <2>1, <2>2, <2>3, <3>1
    <3>2. CASE u # t
      BY <2>1, <2>2, <2>3, <3>2 DEF ScanLeavesNoneDue
    <3>3. QED
      BY <3>1, <3>2
  <2>7. ScanLeavesNoneDue'
    BY <2>6 DEF ScanLeavesNoneDue
  <2>8. QED
    BY <2>5, <2>7
<1>9. CASE UNCHANGED vars
  BY <1>9 DEF vars, ClockInv, ScanLeavesNoneDue
<1>10. QED
  BY <1>1, <1>2, <1>3, <1>4, <1>5, <1>6, <1>7, <1>8, <1>9 DEF Next, TimerThread

----------------------------------------------------------------------------
(* The invariant ties recent_bell and cur_time to the time they stand for,   *)
(* whatever the width of the tick count.                                    *)
THEOREM Invariance == Spec => []IInv
<1>1. Init => IInv
  BY InitIInv
<1>2. IInv /\ [Next]_vars => IInv'
  BY InvStep
<1>3. QED
  BY <1>1, <1>2, PTL DEF Spec

(* StartTimeProc is called once, wrap or not: KillTimer comes before the     *)
(* next scan.                                                               *)
THEOREM StartedOnce == Spec => []StartsOnce
<1>1. IInv => StartsOnce
  BY DEF IInv, StartInv
<1>2. QED
  BY Invariance, <1>1, PTL

(* The timer thread calls no timer early, not even one set during the scan,  *)
(* unless the tick count wrapped between the scan's reading and the setting. *)
THEOREM NotEarly == Spec => NeverEarly
<1>1. IInv /\ [Next]_vars =>
        [\A t \in Timers : Call(t) =>
            scanTime >= since[t] + Elapse[t] \/ Era(since[t]) > Era(scanTime)]_vars
  <2> SUFFICES ASSUME IInv, NEW t \in Timers, Call(t), ~(Era(since[t]) > Era(scanTime))
               PROVE  scanTime >= since[t] + Elapse[t]
    OBVIOUS
  <2>1. /\ since[t] \in Nat /\ scanTime \in Nat /\ bell[t] \in Nat /\ curTime \in Nat
        /\ Elapse[t] \in Nat
    BY DEF IInv, TypeOK
  <2>2. curTime = scanTime % TickModulus /\ bell[t] = since[t] % TickModulus
    BY DEF IInv, ScanInv, ClockInv, Call
  <2>3. Era(since[t]) <= Era(scanTime)
    <3>1. Era(scanTime) \in Nat /\ Era(since[t]) \in Nat
      BY <2>1, EraFact
    <3>2. QED
      BY <3>1
  <2>4. scanTime - since[t] >= (scanTime % TickModulus) - (since[t] % TickModulus)
    BY <2>1, <2>3, EraOrder
  <2>5. scanTime - since[t] >= curTime - bell[t]
    BY <2>2, <2>4, Zenon
  <2>6. curTime - bell[t] >= Elapse[t]
    BY DEF Call, Due
  <2>7. QED
    BY <2>1, <2>5, <2>6
<1>2. QED
  BY Invariance, <1>1, PTL DEF Spec, NeverEarly

(* What a scan has come to is not due: each timer was called, or had time    *)
(* left, or was set by a callback of the scan; only a timer that rang before *)
(* the last wrap may be left out.                                           *)
THEOREM ScanServesAll == Spec => []ScanLeavesNoneDue
<1>1. IInv => ScanLeavesNoneDue
  BY DEF IInv
<1>2. QED
  BY Invariance, <1>1, PTL
=============================================================================
