----------------------------- MODULE ThreadTimer -----------------------------
(***************************************************************************)
(* ThreadTimer with the timers MainObject sets on it. The timer thread     *)
(* sleeps, takes the mutex, reads the clock once and goes through          *)
(* _timer_map, calling back the timers that are due while it holds the     *)
(* mutex. The mutex is recursive: the callback of the start timer          *)
(* (StartTimeProc) sets the creation timer from within the scan and then   *)
(* has its own timer deleted. MainObject::Create sets the other timers     *)
(* from the main thread, when the timer thread already runs.               *)
(*                                                                         *)
(* GetTickCount() is a DWORD: what the code sees of the time is            *)
(* now % TickModulus. The model keeps the real time beside it.             *)
(***************************************************************************)
EXTENDS Integers, Sequences

CONSTANTS
    Timers,          \* timer ids
    InitialTimers,   \* the timers Create sets, in its order
    StartTimer,      \* START_TIMER_ID
    CreateTimer,     \* STREAM_CREATE_TIMER_ID
    Elapse,          \* the interval of every timer
    Resolution,      \* m_Resolution
    TickModulus,     \* 2^32 in the code
    StartTime,       \* the clock when the program starts
    MaxTime          \* bound: the clock stops here

ASSUME ThreadTimerAssumption ==
    /\ InitialTimers \in Seq(Timers)
    /\ StartTimer \in Timers /\ CreateTimer \in Timers
    /\ StartTimer # CreateTimer
    /\ \A i, j \in 1..Len(InitialTimers) : InitialTimers[i] = InitialTimers[j] => i = j
    /\ Elapse \in [Timers -> Nat \ {0}]
    /\ Resolution \in Nat \ {0}
    /\ TickModulus \in Nat \ {0}
    /\ StartTime \in Nat /\ MaxTime \in Nat

VARIABLES
    now,      \* the real time
    table,    \* the timers in _timer_map
    bell,     \* recent_bell of the timers in the table
    toSet,    \* timers the main thread still has to set
    pc,       \* the timer thread
    wakeAt,   \* when its Sleep ends
    curTime,  \* cur_time of the scan
    todo,     \* timers the scan has not come to
    current,  \* the timer being called back
    \* history, in no guard
    since,    \* the real time bell stands for
    scanTime, \* the real time curTime stands for
    calls     \* how often each timer was called back

tableVars == <<table, bell, since>>
scanVars == <<curTime, scanTime, todo, current, wakeAt>>
vars == <<now, tableVars, toSet, pc, scanVars, calls>>

Pcs == {"sleep", "scan", "callback", "return"}

TypeOK ==
    /\ now \in Nat /\ wakeAt \in Nat /\ scanTime \in Nat
    /\ table \subseteq Timers /\ todo \subseteq Timers /\ current \in Timers
    /\ bell \in [Timers -> Nat] /\ since \in [Timers -> Nat]
    /\ toSet \in Seq(Timers)
    /\ pc \in Pcs
    /\ curTime \in Nat
    /\ calls \in [Timers -> Nat]

GetTickCount == now % TickModulus

Init ==
    /\ now = StartTime /\ wakeAt = StartTime + Resolution
    /\ table = {} /\ todo = {} /\ current = StartTimer
    /\ bell = [t \in Timers |-> 0] /\ since = [t \in Timers |-> 0]
    /\ toSet = InitialTimers
    /\ pc = "sleep"
    /\ curTime = 0 /\ scanTime = 0
    /\ calls = [t \in Timers |-> 0]

(* Time passes, in a scan and in a callback too.                            *)
Tick ==
    /\ now < MaxTime                          \* bound
    /\ now' = now + 1
    /\ UNCHANGED <<tableVars, toSet, pc, scanVars, calls>>

(* The timer thread holds _timer_map_mutex from the scan's start to its end. *)
MutexFree == pc = "sleep"

(* A new timer and one that is already there both start now; the elapse of  *)
(* a timer is always the same.                                              *)
SetTimer(t) ==
    /\ table' = table \cup {t}
    /\ bell' = [bell EXCEPT ![t] = GetTickCount]
    /\ since' = [since EXCEPT ![t] = now]

KillTimer(t) ==
    /\ table' = table \ {t}
    /\ UNCHANGED <<bell, since>>

(* MainObject::Create                                                       *)
MainSetTimer ==
    /\ toSet # <<>> /\ MutexFree
    /\ SetTimer(Head(toSet))
    /\ toSet' = Tail(toSet)
    /\ UNCHANGED <<now, pc, scanVars, calls>>

(* Sleep is over: the mutex is taken, the clock read.                       *)
Scan ==
    /\ MutexFree /\ now >= wakeAt
    /\ curTime' = GetTickCount
    /\ scanTime' = now
    /\ todo' = table
    /\ pc' = "scan"
    /\ UNCHANGED <<now, tableVars, toSet, current, wakeAt, calls>>

(* Mutant: the elapsed time alone is compared, as an unsigned number.       *)
DueUnsigned(t) == (curTime - bell[t]) % TickModulus >= Elapse[t]
(* Mutant: due at the first tick after the last bell.                       *)
DueAfterBell(t) == curTime > bell[t]
Due(t) == curTime > bell[t] /\ curTime - bell[t] >= Elapse[t]

(* The order of the hash map is any order.                                  *)
Skip(t) ==
    /\ pc = "scan" /\ t \in todo /\ ~Due(t)
    /\ todo' = todo \ {t}
    /\ UNCHANGED <<now, tableVars, toSet, pc, curTime, scanTime, current, wakeAt, calls>>

(* Mutant: the scan ends with the first timer it calls back.                *)
CallEndsScan(t) ==
    /\ pc = "scan" /\ t \in todo /\ Due(t)
    /\ todo' = {}
    /\ bell' = [bell EXCEPT ![t] = curTime]
    /\ since' = [since EXCEPT ![t] = scanTime]
    /\ calls' = [calls EXCEPT ![t] = @ + 1]
    /\ current' = t
    /\ pc' = "callback"
    /\ UNCHANGED <<now, table, toSet, curTime, scanTime, wakeAt>>

(* The bell is written before the callback is called.                       *)
Call(t) ==
    /\ pc = "scan" /\ t \in todo /\ Due(t)
    /\ todo' = todo \ {t}
    /\ bell' = [bell EXCEPT ![t] = curTime]
    /\ since' = [since EXCEPT ![t] = scanTime]
    /\ calls' = [calls EXCEPT ![t] = @ + 1]
    /\ current' = t
    /\ pc' = "callback"
    /\ UNCHANGED <<now, table, toSet, curTime, scanTime, wakeAt>>

(* OnThreadTimer: StartTimeProc sets the creation timer. It enters the map   *)
(* that is being gone through, before or after the place of the iterator.   *)
Callback ==
    /\ pc = "callback"
    /\ pc' = "return"
    /\ IF current = StartTimer
       THEN /\ SetTimer(CreateTimer)
            /\ todo' \in {todo, todo \cup {CreateTimer}}
       ELSE UNCHANGED <<tableVars, todo>>
    /\ UNCHANGED <<now, toSet, curTime, scanTime, current, wakeAt, calls>>

(* Mutant: delete_timer is not looked at.                                   *)
CallbackReturnKeeps ==
    /\ pc = "return"
    /\ pc' = "scan"
    /\ UNCHANGED <<now, tableVars, toSet, scanVars, calls>>

(* delete_timer: only the start timer asks for it.                          *)
CallbackReturn ==
    /\ pc = "return"
    /\ pc' = "scan"
    /\ IF current = StartTimer THEN KillTimer(current) ELSE UNCHANGED tableVars
    /\ UNCHANGED <<now, toSet, scanVars, calls>>

ScanDone ==
    /\ pc = "scan" /\ todo = {}
    /\ pc' = "sleep"
    /\ wakeAt' = now + Resolution
    /\ UNCHANGED <<now, tableVars, toSet, curTime, scanTime, todo, current, calls>>

TimerThread ==
    \/ Scan \/ Callback \/ CallbackReturn \/ ScanDone
    \/ \E t \in Timers : Skip(t) \/ Call(t)

Next == Tick \/ MainSetTimer \/ TimerThread

Spec == Init /\ [][Next]_vars

----------------------------------------------------------------------------
(* Properties                                                               *)

(* The time between two wraps of the tick count.                            *)
Era(time) == time \div TickModulus

(* A timer is called back when its interval has passed since it was set or   *)
(* last called. The creation timer is set during a scan, its bell may be     *)
(* later than the cur_time it is compared with: the test cur_time >          *)
(* recent_bell keeps the unsigned difference from wrapping. It fails when    *)
(* the tick count wraps just between the two.                                *)
NeverEarly ==
    [][\A t \in Timers : Call(t) =>
          scanTime >= since[t] + Elapse[t] \/ Era(since[t]) > Era(scanTime)]_vars

(* What the scan has come to is not due any more at the time it read: it was *)
(* called or had time left, and a timer set by a callback, which the scan    *)
(* may pass, has its interval before it. A timer is so no later than one     *)
(* sleep and one scan, until the tick count wraps: the scan leaves out those *)
(* that rang last before the wrap, and no others.                            *)
ScanLeavesNoneDue ==
    \A t \in table \ todo :
        scanTime < since[t] + Elapse[t] \/ Era(since[t]) < Era(scanTime)

(* StartTimeProc creates the first streams; the start timer is deleted only  *)
(* after its callback, and must not be called a second time.                 *)
StartsOnce == calls[StartTimer] <= 1

----------------------------------------------------------------------------
(* The inductive invariants                                                 *)

ScanInv ==
    /\ todo \subseteq table
    /\ pc \in {"callback", "return"} => current \in table \ todo
    /\ MutexFree => todo = {}

(* The main thread sets the start timer once, and once its callback has     *)
(* returned the timer is gone for good.                                     *)
StartInv ==
    /\ \A i, j \in 1..Len(toSet) : toSet[i] = toSet[j] => i = j
    /\ StartTimer \in table \/ calls[StartTimer] > 0 =>
          \A i \in 1..Len(toSet) : toSet[i] # StartTimer
    /\ calls[StartTimer] > 0 =>
          /\ StartTimer \notin todo
          /\ StartTimer \in table => current = StartTimer /\ pc \in {"callback", "return"}
    /\ StartsOnce

(* recent_bell and cur_time are the tick counts of the times they stand for.  *)
ClockInv ==
    /\ curTime = scanTime % TickModulus /\ scanTime <= now
    /\ \A t \in table : bell[t] = since[t] % TickModulus

IInv == TypeOK /\ ScanInv /\ StartInv /\ ClockInv /\ ScanLeavesNoneDue
=============================================================================
